------------------------------ MODULE FileBuffer ------------------------------
(***************************************************************************)
(* The double-buffered file layer a codec on the B core reads through      *)
(* (BBSystem/audio_file_access2.c), the mailbox interrupt that completes   *)
(* its requests (BBSystem/Main2.c), and the A core's StreamControl task    *)
(* that serves them from a FAT file or from the download FIFO              *)
(* (App/FileStream/StreamControlTask.c).                                   *)
(*                                                                         *)
(* Three things run concurrently: the B core's main thread, its interrupt  *)
(* MailBoxFileService (which preempts the main thread and runs to its      *)
(* end), and the A core (an interrupt that fills one command slot and a    *)
(* task that serves it).                                                   *)
(*                                                                         *)
(* A byte of the file is represented by its offset.  What the memory of a  *)
(* buffer holds is therefore the file offset its first byte was read from  *)
(* and the number of bytes read there.                                     *)
(***************************************************************************)
EXTENDS Integers

CONSTANTS
  FileLen,              \* bytes in the file
  PlayPipo,             \* size of one buffer while playing (AudioFileChangeBuf2)
  Word,                 \* 2^w for the w-bit unsigned integers of the code
  Backend,              \* "file": a FAT file; "fifo": the download FIFO
  AnswerCanOvertake,    \* an answer may arrive before AudioFileInput2's store
  ReadLens,             \* lengths a codec reads
  SetSeeks,             \* offsets a codec passes with SEEK_SET
  CurSeeks,             \* offsets a codec passes with SEEK_CUR
  PastEnd               \* bound: calls a codec makes once the end was reported

Sector == 512           \* bytes in a sector: seeks and reads start at one
OpenPipo == 512         \* size of one buffer from FILE_OPEN to the codec's open

ASSUME BackendAssumption == Backend \in {"file", "fifo"}

ASSUME OvertakeAssumption == AnswerCanOvertake \in BOOLEAN

ASSUME SizeAssumption ==
  /\ FileLen \in Nat \ {0}
  /\ PlayPipo \in Nat \ {0}
  /\ PlayPipo % Sector = 0
  /\ Word \in Nat
  /\ FileLen + 2 * PlayPipo + 2 * Sector < Word

ASSUME CodecAssumption ==
  /\ ReadLens \subseteq 1 .. Word - 1
  /\ SetSeeks \subseteq 0 .. FileLen - 1
  /\ CurSeeks \subseteq -FileLen .. FileLen
  /\ PastEnd \in Nat

\* Mutant of SectorStart: seeks are not rounded down to a sector.
Unrounded(x) == x

SectorStart(x) == x - (x % Sector)

\* Mutant of RK_ERROR: the answer's type is signed.
SignedError == -1

RK_ERROR == Word - 1    \* -1 as the uint32 the answer carries
None == "none"          \* no command

\* uint32 arithmetic: a sum or difference of two words, reduced to a word.
Wrap(x) == IF x < 0 THEN x + Word ELSE IF x >= Word THEN x - Word ELSE x

VARIABLES
  \* the B core's main thread
  phase,      \* "closed", "opened", "codec" (inside CodecOpen2), "play"
  pc,         \* where the main thread is; "main" between file-layer calls
  call,       \* the file-layer call last entered
  arg,        \* its argument: bytes still to read, offset, or intermediate
  wfi,        \* "run"; "armed" between a test and WFI; "asleep" in WFI
  \* the buffer state
  pos,        \* AudioFileBufPos2
  rd,         \* AudioFileRdBufID2
  wr,         \* AudioFileWrBufID2
  size,       \* AudioFileBufSize2[0..1]
  pipo,       \* AudioFilePIPOBufSize2
  fill,       \* MSG_AUDIO_DECODE_FILL_BUFFER is set
  \* shared between the main thread and MailBoxFileService
  busy,       \* AudioFileBufBusy2: a prefetch is in flight
  bypass,     \* gBufByPass: requests are synchronous
  cmdDone,    \* gCmdDone
  gData,      \* result of the last answer
  curOff,     \* CurFileOffset of the file
  \* shared between the cores
  seekParam,  \* gFileSeekParam.offset
  readParam,  \* gFileReadParam: number of bytes (replaced by an offset), buffer
  b2a,        \* command waiting in mailbox channel 2, B to A
  a2b,        \* answer waiting in mailbox channel 2, A to B
  \* the A core
  slot,       \* gpstStreamControlData->cmd
  sem,        \* osStreamControl, a binary semaphore
  apc,        \* StreamControl task: "take" or "serve"
  aPos,       \* where the storage layer really reads next
  aOff,       \* the offset it reports (CurOffset of the file, back of the FIFO)
  content,    \* file offset and length of what was read into each buffer
  \* history variables
  want,       \* offset of the next byte the codec is owed
  chunk,      \* the piece of memory copied to the codec last
  tail,       \* storage has answered short (file) or with an error
  past        \* codec calls since then

mainVars == <<phase, pc, call, arg>>
bufVars == <<pos, rd, wr, size, pipo, fill>>
isrVars == <<busy, bypass, cmdDone, gData, curOff>>
linkVars == <<seekParam, readParam, b2a, a2b>>
coreAVars == <<slot, sem, apc, aPos, aOff, content>>
history == <<want, chunk, tail, past>>
vars == <<mainVars, wfi, bufVars, isrVars, linkVars, coreAVars, history>>

Piece(from, len, fresh) == [from |-> from, len |-> len, fresh |-> fresh]
Answer(cmd, data) == [cmd |-> cmd, data |-> data]

Init ==
  /\ phase = "closed" /\ pc = "main" /\ call = None /\ arg = 0 /\ wfi = "run"
  /\ pos = 0 /\ rd = 0 /\ wr = 0 /\ size = [b \in 0 .. 1 |-> 0]
  /\ pipo = OpenPipo /\ fill = FALSE
  /\ busy = FALSE /\ bypass = FALSE /\ cmdDone = FALSE /\ gData = 0 /\ curOff = 0
  /\ seekParam = 0 /\ readParam = [num |-> 0, buf |-> 0]
  /\ b2a = None /\ a2b = Answer(None, 0)
  /\ slot = None /\ sem = FALSE /\ apc = "take" /\ aPos = 0 /\ aOff = 0
  /\ content = [b \in 0 .. 1 |-> [from |-> 0, len |-> 0]]
  /\ want = 0 /\ chunk = Piece(0, 0, TRUE) /\ tail = FALSE /\ past = 0

-----------------------------------------------------------------------------
(* Requests and waits *)

\* Mutant of Ready: a prefetch is not waited for.
ReadyIgnoresPrefetch ==
  pc \in {"switchWait", "seekWait", "initWait", "changeSeekWait", "changeWait"} => cmdDone

\* The main thread is at a wait loop and what it waits for has happened.
Ready ==
  CASE pc \in {"switch", "seek", "change", "input"} -> ~busy
    [] pc \in {"switchWait", "seekWait", "initWait", "changeSeekWait", "changeWait"}
         -> cmdDone
    [] OTHER -> TRUE

\* The main thread is past the loop "while (...) __WFI2();" at l.
At(l) == pc = l /\ wfi = "run" /\ Ready

\* The test and the WFI instruction are two steps, interrupts enabled ...
WaitTest ==
  /\ wfi = "run" /\ ~Ready
  /\ wfi' = "armed"
  /\ UNCHANGED <<mainVars, bufVars, isrVars, linkVars, coreAVars, history>>

\* ... so an interrupt taken between them does not end the sleep.
WaitSleep ==
  /\ wfi = "armed"
  /\ wfi' = "asleep"
  /\ UNCHANGED <<mainVars, bufVars, isrVars, linkVars, coreAVars, history>>

\* Any other enabled interrupt (mailbox channels 0 and 1, IMDCT, SYNTH).
OtherInterrupt ==
  /\ wfi = "asleep"
  /\ wfi' = "run"
  /\ UNCHANGED <<mainVars, bufVars, isrVars, linkVars, coreAVars, history>>

Goto(l) == pc' = l

SendCmd(cmd) == cmdDone' = FALSE /\ b2a' = cmd

\* HifiFileRead up to its wait.
HifiFileRead(buf, len) ==
  /\ readParam' = [num |-> len, buf |-> buf]
  /\ SendCmd("READ")

\* HifiFileSeek up to its wait.
HifiFileSeek(offset) ==
  /\ seekParam' = offset
  /\ SendCmd("SEEK")

-----------------------------------------------------------------------------
(* Opening: AudioFileFuncInit2 and AudioFileBufferInit2 *)

\* AudioFileBufferInit2 up to the wait of its synchronous read.
BufferInit(len) ==
  /\ pos' = 0 /\ rd' = 0
  /\ busy' = FALSE /\ bypass' = TRUE
  /\ HifiFileRead(0, len)
  /\ Goto("initWait")

FuncInit ==
  /\ phase = "closed"
  /\ phase' = "opened" /\ call' = "open" /\ arg' = 0
  /\ pipo' = OpenPipo
  /\ BufferInit(OpenPipo)
  /\ UNCHANGED <<wfi, wr, size, fill, gData, curOff, seekParam, a2b, coreAVars, history>>

\* Mutant of InitDone: the offset within the sector is forgotten.
InitDoneAtSector ==
  /\ At("initWait")
  /\ curOff' = readParam.num /\ cmdDone' = FALSE
  /\ wr' = 1 /\ size' = [size EXCEPT ![rd] = gData, ![1] = 0]
  /\ fill' = TRUE
  /\ arg' = 0
  /\ Goto("main")
  /\ UNCHANGED <<phase, call, wfi, pos, rd, pipo, busy, bypass, gData, linkVars,
                 coreAVars, history>>

InitDone ==
  /\ At("initWait")
  /\ curOff' = readParam.num /\ cmdDone' = FALSE
  /\ wr' = 1 /\ size' = [size EXCEPT ![rd] = gData, ![1] = 0]
  /\ fill' = TRUE
  /\ pos' = Wrap(pos + arg) /\ arg' = 0
  /\ Goto("main")
  /\ UNCHANGED <<phase, call, wfi, rd, pipo, busy, bypass, gData, linkVars,
                 coreAVars, history>>

\* The main loop enters CodecOpen2 on DEC_OPEN.
DecOpen ==
  /\ phase = "opened" /\ pc = "main"
  /\ phase' = "codec" /\ call' = "decOpen"
  /\ UNCHANGED <<pc, arg, wfi, bufVars, isrVars, linkVars, coreAVars, history>>

\* A codec that keeps the small buffers (FLAC) goes on to play.  AAC and ALAC are
\* exempt from AudioFileChangeBuf2 too, but read without buffers (Main2.c:905-922).
KeepBuf ==
  /\ phase = "codec" /\ pc = "main"
  /\ phase' = "play" /\ call' = "keep"
  /\ UNCHANGED <<pc, arg, wfi, bufVars, isrVars, linkVars, coreAVars, history>>

-----------------------------------------------------------------------------
(* AudioFileChangeBuf2 *)

ChangeBuf ==
  /\ phase = "codec" /\ pc = "main"
  /\ call' = "change" /\ arg' = 0
  /\ Goto("change")
  /\ UNCHANGED <<phase, wfi, bufVars, isrVars, linkVars, coreAVars, history>>

\* Mutant of ChangeSeek: the second buffer is not counted.
ChangeSeekOneBuffer ==
  /\ At("change")
  /\ pipo' = PlayPipo
  /\ HifiFileSeek(Wrap(curOff - size[0]))
  /\ Goto("changeSeekWait")
  /\ UNCHANGED <<phase, call, arg, wfi, pos, rd, wr, size, fill, busy, bypass, gData,
                 curOff, readParam, a2b, coreAVars, history>>

ChangeSeek ==
  /\ At("change")
  /\ pipo' = PlayPipo
  /\ HifiFileSeek(Wrap(Wrap(curOff - size[0]) - size[1]))
  /\ Goto("changeSeekWait")
  /\ UNCHANGED <<phase, call, arg, wfi, pos, rd, wr, size, fill, busy, bypass, gData,
                 curOff, readParam, a2b, coreAVars, history>>

ChangeRead ==
  /\ At("changeSeekWait")
  /\ curOff' = seekParam
  /\ bypass' = TRUE
  /\ HifiFileRead(rd, pipo)
  /\ Goto("changeWait")
  /\ UNCHANGED <<phase, call, arg, wfi, bufVars, busy, gData, seekParam, a2b,
                 coreAVars, history>>

ChangeDone ==
  /\ At("changeWait")
  /\ curOff' = readParam.num /\ cmdDone' = FALSE
  /\ size' = [size EXCEPT ![rd] = gData, ![wr] = 0]
  /\ fill' = TRUE
  /\ phase' = "play"
  /\ Goto("main")
  /\ UNCHANGED <<call, arg, wfi, pos, rd, wr, pipo, busy, bypass, gData, linkVars,
                 coreAVars, history>>

-----------------------------------------------------------------------------
(* AudioFileInput2, from the main loop *)

FillBuffer ==
  /\ phase \in {"opened", "play"} /\ pc = "main"
  /\ fill /\ fill' = FALSE
  /\ call' = "fill" /\ arg' = 0
  /\ Goto("input")
  /\ UNCHANGED <<phase, wfi, pos, rd, wr, size, pipo, isrVars, linkVars, coreAVars,
                 history>>

\* Mutant of Input: the prefetch goes into the read buffer.
InputIntoReadBuffer ==
  /\ At("input")
  /\ bypass' = FALSE /\ busy' = TRUE
  /\ HifiFileRead(rd, pipo)
  /\ Goto("inputStore")
  /\ UNCHANGED <<phase, call, arg, wfi, bufVars, gData, curOff, seekParam, a2b,
                 coreAVars, history>>

Input ==
  /\ At("input")
  /\ bypass' = FALSE /\ busy' = TRUE
  /\ HifiFileRead(wr, pipo)
  /\ Goto("inputStore")
  /\ UNCHANGED <<phase, call, arg, wfi, bufVars, gData, curOff, seekParam, a2b,
                 coreAVars, history>>

\* HifiFileRead returned 0 because the request is asynchronous; the result is
\* stored all the same.
InputStore ==
  /\ At("inputStore")
  /\ size' = [size EXCEPT ![wr] = 0]
  /\ Goto("main")
  /\ UNCHANGED <<phase, call, arg, wfi, pos, rd, wr, pipo, fill, isrVars, linkVars,
                 coreAVars, history>>

-----------------------------------------------------------------------------
(* AudioFileRead2 and AudioFileBufferSwitch2 *)

\* A codec, inside CodecOpen2, CodecDecode2 or CodecSeek2, calls RKFIO_F... .
CodecCall(name, argument, l) ==
  /\ phase \in {"codec", "play"} /\ pc = "main"
  /\ call' = name /\ arg' = argument
  /\ Goto(l)
  /\ IF tail THEN past < PastEnd /\ past' = past + 1 ELSE UNCHANGED past
  /\ UNCHANGED <<phase, wfi, bufVars, isrVars, linkVars, coreAVars, want, chunk, tail>>

Read(n) == CodecCall("read", n, "read")

Remain == Wrap(size[rd] - pos)

Copy(k) ==
  /\ chunk' = Piece(content[rd].from + pos, k, pos + k <= content[rd].len)
  /\ want' = want + k
  /\ arg' = arg - k

\* The buffer holds more than the codec still wants.
ReadPart ==
  /\ At("read") /\ arg < Remain
  /\ Copy(arg)
  /\ IF Wrap(pos + arg) >= size[rd] THEN pos' = 0 /\ Goto("switch")
                                    ELSE pos' = Wrap(pos + arg) /\ Goto("main")
  /\ UNCHANGED <<phase, call, wfi, rd, wr, size, pipo, fill, isrVars, linkVars,
                 coreAVars, tail, past>>

\* It does not: the rest of the buffer is copied and the buffers are switched.
ReadRest ==
  /\ At("read") /\ arg >= Remain
  /\ Copy(Remain)
  /\ pos' = 0
  /\ Goto("switch")
  /\ UNCHANGED <<phase, call, wfi, rd, wr, size, pipo, fill, isrVars, linkVars,
                 coreAVars, tail, past>>

\* Mutant of Swap: the buffer that was read is not emptied.
SwapFull ==
  /\ wr' = rd /\ rd' = 1 - rd
  /\ UNCHANGED size

\* The two buffers swap roles; the one that was read is empty from now on.
Swap ==
  /\ size' = [size EXCEPT ![rd] = 0]
  /\ wr' = rd /\ rd' = 1 - rd

\* Read on after a switch unless the codec has all it wanted or got nothing.
Resume(got) == Goto(IF arg = 0 \/ got = 0 THEN "main" ELSE "read")

\* Mutant of Switch: the second buffer is not asked for.
SwitchForgetsFill ==
  /\ At("switch") /\ size[1 - rd] # 0
  /\ pos' = 0
  /\ Swap
  /\ Resume(size[1 - rd])
  /\ UNCHANGED <<phase, call, arg, wfi, pipo, fill, isrVars, linkVars, coreAVars, history>>

Switch ==
  /\ At("switch") /\ size[1 - rd] # 0
  /\ pos' = 0
  /\ Swap
  /\ fill' = TRUE
  /\ Resume(size[1 - rd])
  /\ UNCHANGED <<phase, call, arg, wfi, pipo, isrVars, linkVars, coreAVars, history>>

\* Nothing was prefetched: read synchronously.
SwitchEmpty ==
  /\ At("switch") /\ size[1 - rd] = 0
  /\ pos' = 0
  /\ Swap
  /\ bypass' = TRUE
  /\ HifiFileRead(1 - rd, pipo)
  /\ Goto("switchWait")
  /\ UNCHANGED <<phase, call, arg, wfi, pipo, fill, busy, gData, curOff, seekParam,
                 a2b, coreAVars, history>>

\* Mutant of SwitchDone: the offset of the file is not updated.
SwitchDoneStaleOffset ==
  /\ At("switchWait")
  /\ cmdDone' = FALSE
  /\ size' = [size EXCEPT ![rd] = gData]
  /\ fill' = TRUE
  /\ Resume(gData)
  /\ UNCHANGED <<phase, call, arg, wfi, pos, rd, wr, pipo, busy, bypass, gData, curOff,
                 linkVars, coreAVars, history>>

SwitchDone ==
  /\ At("switchWait")
  /\ curOff' = readParam.num /\ cmdDone' = FALSE
  /\ size' = [size EXCEPT ![rd] = gData]
  /\ fill' = TRUE
  /\ Resume(gData)
  /\ UNCHANGED <<phase, call, arg, wfi, pos, rd, wr, pipo, busy, bypass, gData,
                 linkVars, coreAVars, history>>

-----------------------------------------------------------------------------
(* AudioFileSeek2 *)

\* Codecs seek inside the file.
SeekSet(offset) == CodecCall("SEEK_SET", offset, "seek")

SeekCur(offset) ==
  want + offset \in 0 .. FileLen - 1 /\ CodecCall("SEEK_CUR", offset, "seek")

Buffered == Wrap(size[0] + size[1])
FileBuffStart == Wrap(curOff - Buffered)

\* The target, counted from the first buffered byte.
SeekTemp == IF call = "SEEK_SET" THEN Wrap(arg - FileBuffStart) ELSE Wrap(pos + arg)

InWindow == IF call = "SEEK_SET" THEN FileBuffStart <= arg /\ arg < curOff
                                 ELSE SeekTemp < Buffered

InReadBuffer == IF call = "SEEK_SET" THEN SeekTemp < size[rd]
                                     ELSE arg <= 0 \/ SeekTemp <= size[rd]

SeekTarget == IF call = "SEEK_SET" THEN arg ELSE Wrap(FileBuffStart + SeekTemp)

NowWanted == want' = IF call = "SEEK_SET" THEN arg ELSE want + arg

SeekInBuffer ==
  /\ At("seek") /\ InWindow /\ InReadBuffer
  /\ pos' = SeekTemp
  /\ NowWanted /\ arg' = 0
  /\ Goto("main")
  /\ UNCHANGED <<phase, call, wfi, rd, wr, size, pipo, fill, isrVars, linkVars,
                 coreAVars, chunk, tail, past>>

\* Mutant of SeekInOther: the emptied buffer is not asked for.
SeekInOtherForgetsFill ==
  /\ At("seek") /\ InWindow /\ ~InReadBuffer
  /\ pos' = Wrap(SeekTemp - size[rd])
  /\ Swap
  /\ NowWanted /\ arg' = 0
  /\ Goto("main")
  /\ UNCHANGED <<phase, call, wfi, pipo, fill, isrVars, linkVars, coreAVars, chunk, tail,
                 past>>

SeekInOther ==
  /\ At("seek") /\ InWindow /\ ~InReadBuffer
  /\ pos' = Wrap(SeekTemp - size[rd])
  /\ Swap
  /\ fill' = TRUE
  /\ NowWanted /\ arg' = 0
  /\ Goto("main")
  /\ UNCHANGED <<phase, call, wfi, pipo, isrVars, linkVars, coreAVars, chunk, tail, past>>

\* Outside the window: seek to the sector and start the buffers over.
SeekFar ==
  /\ At("seek") /\ ~InWindow
  /\ HifiFileSeek(SectorStart(SeekTarget))
  /\ arg' = SeekTarget % Sector
  /\ NowWanted
  /\ Goto("seekWait")
  /\ UNCHANGED <<phase, call, wfi, bufVars, busy, bypass, gData, curOff, readParam,
                 a2b, coreAVars, chunk, tail, past>>

SeekRestart ==
  /\ At("seekWait")
  /\ curOff' = seekParam
  /\ BufferInit(pipo)
  /\ UNCHANGED <<phase, call, arg, wfi, wr, size, pipo, fill, gData, seekParam, a2b,
                 coreAVars, history>>

-----------------------------------------------------------------------------
(* AudioFileTell2: the offset and the sizes are read one after the other *)

Tell == CodecCall("tell", curOff, "tell")

\* Mutant of TellDone: the position in the buffer is forgotten.
TellDoneAtStart ==
  /\ At("tell")
  /\ arg' = Wrap(arg - Buffered)
  /\ Goto("main")
  /\ UNCHANGED <<phase, call, wfi, bufVars, isrVars, linkVars, coreAVars, history>>

TellDone ==
  /\ At("tell")
  /\ arg' = Wrap(arg - Wrap(Buffered - pos))
  /\ Goto("main")
  /\ UNCHANGED <<phase, call, wfi, bufVars, isrVars, linkVars, coreAVars, history>>

-----------------------------------------------------------------------------
(* The completion interrupt on the B core: MailBoxFileService *)

\* Mutant of AnswerIsr: the offset of the file is not updated.
AnswerIsrStaleOffset ==
  /\ a2b.cmd # None
  /\ AnswerCanOvertake \/ pc # "inputStore"
  /\ a2b' = Answer(None, 0)
  /\ gData' = a2b.data
  /\ cmdDone' = TRUE
  /\ IF a2b.cmd = "READ" /\ ~bypass
       THEN size' = [size EXCEPT ![wr] = a2b.data] /\ busy' = FALSE
       ELSE UNCHANGED <<size, busy>>
  /\ wfi' = IF wfi = "asleep" THEN "run" ELSE wfi
  /\ UNCHANGED <<mainVars, pos, rd, wr, pipo, fill, bypass, curOff, seekParam, readParam,
                 b2a, coreAVars, history>>

AnswerIsr ==
  /\ a2b.cmd # None
  /\ AnswerCanOvertake \/ pc # "inputStore"
  /\ a2b' = Answer(None, 0)
  /\ gData' = a2b.data
  /\ cmdDone' = TRUE
  /\ IF a2b.cmd = "READ" /\ ~bypass
       THEN /\ curOff' = readParam.num
            /\ size' = [size EXCEPT ![wr] = a2b.data]
            /\ busy' = FALSE
       ELSE UNCHANGED <<curOff, size, busy>>
  /\ wfi' = IF wfi = "asleep" THEN "run" ELSE wfi
  /\ UNCHANGED <<mainVars, pos, rd, wr, pipo, fill, bypass, seekParam, readParam, b2a,
                 coreAVars, history>>

-----------------------------------------------------------------------------
(* The A core: AudioDecodingInputFileBuffer and StreamControlTask_Enter *)

\* Mutant of StreamIsr: the task is not woken.
StreamIsrSilent ==
  /\ b2a # None
  /\ slot' = b2a /\ b2a' = None
  /\ UNCHANGED <<mainVars, wfi, bufVars, isrVars, seekParam, readParam, a2b, sem, apc,
                 aPos, aOff, content, history>>

StreamIsr ==
  /\ b2a # None
  /\ slot' = b2a /\ b2a' = None
  /\ sem' = TRUE
  /\ UNCHANGED <<mainVars, wfi, bufVars, isrVars, seekParam, readParam, a2b, apc, aPos,
                 aOff, content, history>>

StreamTake ==
  /\ apc = "take" /\ sem
  /\ sem' = FALSE /\ apc' = "serve"
  /\ UNCHANGED <<mainVars, wfi, bufVars, isrVars, linkVars, slot, aPos, aOff, content,
                 history>>

Reply(cmd, data) ==
  /\ a2b' = Answer(cmd, data)
  /\ apc' = "take"

\* fifoDev_ReadSeek does not return while the target is not downloaded, so
\* never for one at or beyond the end.
ServeSeek ==
  /\ apc = "serve" /\ slot = "SEEK"
  /\ Backend = "fifo" => seekParam < FileLen
  /\ aPos' = seekParam /\ aOff' = seekParam
  /\ IF call = "SEEK_SET" THEN tail' = FALSE /\ past' = 0 ELSE UNCHANGED <<tail, past>>
  /\ Reply("SEEK", 0)
  /\ UNCHANGED <<mainVars, wfi, bufVars, isrVars, seekParam, readParam, b2a, slot, sem,
                 content, want, chunk>>

\* What a read of len bytes gets.
Available(len) == IF aPos + len <= FileLen THEN len ELSE FileLen - aPos

\* FatDev_ReadFile reads whole sectors, so from the start of the current one.
\* FileDev_ReadFile advances the offset it reports by the length requested;
\* fifoDev_Read advances it by the length read.
ServeReadSome ==
  /\ apc = "serve" /\ slot = "READ"
  /\ aPos < FileLen
  /\ LET got == Available(readParam.num)
     IN /\ content' = [content EXCEPT ![readParam.buf] =
                         [from |-> SectorStart(aPos), len |-> got]]
        /\ aPos' = aPos + got
        /\ aOff' = IF Backend = "file" THEN Wrap(aOff + readParam.num) ELSE aPos + got
        /\ tail' = (tail \/ (Backend = "file" /\ got < readParam.num))
        /\ Reply("READ", got)
  /\ readParam' = [readParam EXCEPT !.num = aOff']
  /\ UNCHANGED <<mainVars, wfi, bufVars, isrVars, seekParam, b2a, slot, sem, want, chunk, past>>

\* At the end of the file the answer is RK_ERROR, not a length of 0.
ServeReadEnd ==
  /\ apc = "serve" /\ slot = "READ"
  /\ aPos >= FileLen
  /\ aOff' = IF Backend = "file" THEN Wrap(aOff + readParam.num) ELSE aOff
  /\ tail' = TRUE
  /\ Reply("READ", RK_ERROR)
  /\ readParam' = [readParam EXCEPT !.num = aOff']
  /\ UNCHANGED <<mainVars, wfi, bufVars, isrVars, seekParam, b2a, slot, sem, aPos,
                 content, want, chunk, past>>

-----------------------------------------------------------------------------

\* Calls into the file layer, by a codec and by the main loop.
CodecCalls ==
  \/ Tell
  \/ \E n \in ReadLens: Read(n)
  \/ \E offset \in SetSeeks: SeekSet(offset)
  \/ \E offset \in CurSeeks: SeekCur(offset)

Calls == FuncInit \/ DecOpen \/ KeepBuf \/ ChangeBuf \/ FillBuffer \/ CodecCalls

\* Steps inside a call.
MainStep ==
  \/ WaitTest \/ WaitSleep
  \/ InitDone \/ ChangeSeek \/ ChangeRead \/ ChangeDone \/ Input \/ InputStore
  \/ ReadPart \/ ReadRest \/ Switch \/ SwitchEmpty \/ SwitchDone
  \/ SeekInBuffer \/ SeekInOther \/ SeekFar \/ SeekRestart \/ TellDone

Serve == ServeSeek \/ ServeReadSome \/ ServeReadEnd

Next == Calls \/ MainStep \/ OtherInterrupt \/ AnswerIsr \/ StreamIsr \/ StreamTake \/ Serve

Spec == Init /\ [][Next]_vars

\* Both cores run, pending interrupts are taken, and storage answers.
Fairness ==
  /\ WF_vars(MainStep) /\ WF_vars(AnswerIsr)
  /\ WF_vars(StreamIsr) /\ WF_vars(StreamTake) /\ WF_vars(Serve)

FairSpec == Spec /\ Fairness

-----------------------------------------------------------------------------
(* Properties *)

Waits == {"switch", "seek", "change", "input"}
AnswerWaits == {"switchWait", "seekWait", "initWait", "changeSeekWait", "changeWait"}
Words == 0 .. Word - 1
Commands == {"SEEK", "READ"}

MainType ==
  /\ phase \in {"closed", "opened", "codec", "play"}
  /\ pc \in {"main", "read", "tell", "inputStore"} \cup Waits \cup AnswerWaits
  /\ call \in {None, "open", "decOpen", "keep", "change", "fill", "read",
               "SEEK_SET", "SEEK_CUR", "tell"}
  /\ arg \in Int
  /\ wfi \in {"run", "armed", "asleep"}

BufferType ==
  /\ pos \in Words /\ rd \in 0 .. 1 /\ wr \in 0 .. 1 /\ size \in [0 .. 1 -> Words]
  /\ pipo \in {OpenPipo, PlayPipo} /\ fill \in BOOLEAN

SharedType ==
  /\ busy \in BOOLEAN /\ bypass \in BOOLEAN /\ cmdDone \in BOOLEAN
  /\ gData \in Words /\ curOff \in Words

LinkType ==
  /\ seekParam \in Words /\ readParam \in [num: Words, buf: 0 .. 1]
  /\ b2a \in Commands \cup {None} /\ a2b \in [cmd: Commands \cup {None}, data: Words]

CoreAType ==
  /\ slot \in Commands \cup {None} /\ sem \in BOOLEAN /\ apc \in {"take", "serve"}
  /\ aPos \in Words /\ aOff \in Words
  /\ content \in [0 .. 1 -> [from: Words, len: Words]]

HistoryType ==
  /\ want \in Int /\ chunk \in [from: Int, len: Int, fresh: BOOLEAN]
  /\ tail \in BOOLEAN /\ past \in 0 .. PastEnd

\* Every variable has its type; unsigned 32-bit quantities stay words.
TypeOK == MainType /\ BufferType /\ SharedType /\ LinkType /\ CoreAType /\ HistoryType

\* The four places a request passes through, as 0 or 1 each.
InMailbox == b2a # None
InSlot == sem
InService == apc = "serve"
Answered == a2b.cmd # None

\* The main thread has asked for something it has not been answered.
Outstanding == busy \/ (pc \in AnswerWaits /\ ~cmdDone)

\* There is one parameter block per command, one slot and one mailbox in each
\* direction, none of them protected: the code is right only if there is never
\* more than one request under way, and exactly one while B waits for it.
OneRequest ==
  /\ ~(InMailbox /\ (InSlot \/ InService \/ Answered))
  /\ ~(InSlot /\ (InService \/ Answered))
  /\ ~(InService /\ Answered)
  /\ Outstanding <=> (InMailbox \/ InSlot \/ InService \/ Answered)

\* Storage is never filling the buffer the codec is copying from.
NoReadWhileFilled ==
  pc = "read" /\ (InMailbox \/ InSlot \/ InService) => readParam.buf # rd

\* Between calls, with nothing in flight and before the end of the file was
\* reported, the buffers are a window on the file: the codec's next byte is at
\* pos of the read buffer, the other buffer continues it, and storage continues
\* from there.  AudioFileSeek2 and AudioFileTell2 compute with this.
Window ==
  pc = "main" /\ phase # "closed" /\ ~busy /\ ~tail =>
    /\ wr = 1 - rd
    /\ content[rd].from + pos = want
    /\ pos <= size[rd]
    /\ size[rd] <= content[rd].len
    /\ size[wr] > 0 => /\ content[wr].from = content[rd].from + size[rd]
                       /\ size[wr] <= content[wr].len
    /\ curOff = content[rd].from + size[rd] + size[wr]
    /\ aPos = curOff

\* "if the second buffer empty, fill buffer" (AudioFileBufferSwitch2): between
\* calls an empty second buffer is being filled or about to be.
EmptyBufferIsFilled ==
  pc = "main" /\ phase # "closed" /\ size[wr] = 0 => fill \/ busy

\* FatDev_ReadFile has no offset within a sector: a read that does not start at
\* a sector returns other bytes than those asked for.
ReadsAligned ==
  InService /\ slot = "READ" /\ ~tail => aPos % Sector = 0 \/ aPos = FileLen

\* AudioFileTell2 reads the offset and the sizes in two steps.  Its result is
\* the codec's position, or behind it by a prefetch that completed in between.
TellIsNear ==
  pc = "main" /\ call = "tell" /\ ~tail => arg \in {want, Wrap(want - size[wr])}

\* A codec sees a sequential file.
File == INSTANCE AudioFile WITH position <- want, ended <- tail

ImplementsFile == File!Spec

\* The answer is in, and the main thread sleeps without having seen it.
LostWakeup == wfi # "run" /\ Ready

\* Every call into the file layer returns, unless the wake-up is lost between
\* the test and the WFI, or storage has reported the end of the file.
CallReturns == pc # "main" ~> pc = "main" \/ LostWakeup \/ tail

\* "start of stream (see fseek)" (audio_file_access.h): after SEEK_SET the next
\* byte the codec gets is the one at the offset from the start of the file.
SeekSetFromStart ==
  pc = "main" /\ call = "SEEK_SET" => content[rd].from + pos = want

\* "return read data length" (HifiFileRead): the answer to a synchronous read
\* is how much was read.
ReadAnswersLength ==
  pc \in {"initWait", "switchWait", "changeWait"} /\ cmdDone => gData <= pipo
=============================================================================
