------------------------------ MODULE FifoDevice ------------------------------
(***************************************************************************)
(* The download FIFO (Driver/FIFO/FIFODevice.c) while one file is played:  *)
(* the HTTP task (WICE/http.c) writes what it receives, the StreamControl  *)
(* task reads and seeks for the B core, and the audio control task asks    *)
(* for the file's size before it starts the B core.                        *)
(*                                                                         *)
(* The device is created with UseFile = 1 over a file of 200,000 blocks    *)
(* (DeviceManagerTask.c:793-798): downloads are shorter than that, so      *)
(* offsets never wrap and a write never waits for room (CapacityAssumption *)
(* and Capacity).  osfifoReadReqSem and osfifoWriteReqSem have one user    *)
(* each, and are given back on every path modelled here.                   *)
(*                                                                         *)
(* TaskPlugin.c gives HTTP priority 101, StreamControl 100 and the audio   *)
(* control task 127, under a preemptive kernel.  HTTP can therefore run    *)
(* between any two steps of StreamControl, and StreamControl only while    *)
(* HTTP waits: for the network, or in FileDev_WriteFile for the disk.      *)
(***************************************************************************)
EXTENDS Integers

CONSTANTS
  FileLen,              \* bytes in the file (Content-Length)
  Capacity,             \* BlockCnt * BlockSize of the device
  Word,                 \* 2^w for the w-bit unsigned integers of the code
  HeaderBytes,          \* bytes of the file received with the HTTP header
  Packets,              \* sizes of the packets that follow
  ReadLens,             \* lengths the B core reads, or rewinds by
  SeekOffsets           \* offsets the B core seeks to

LargePiece == 1024      \* bytes per fifoDev_Write while the download runs
SmallPiece == 512       \* and once all of it was received
BufLevelMin == 16       \* a reader waits below this many bytes

ASSUME CapacityAssumption ==
  /\ FileLen \in Nat \ {0} /\ Capacity \in Nat /\ Word \in Nat
  /\ FileLen < Capacity
  /\ 2 * Capacity < Word

\* A file that arrives whole with the header is never written (GetFile waits
\* for another packet first).
ASSUME InputAssumption ==
  /\ HeaderBytes \subseteq 0 .. FileLen - 1
  /\ Packets \subseteq Nat \ {0}
  /\ ReadLens \subseteq 1 .. Capacity
  /\ SeekOffsets \subseteq 0 .. FileLen - 1

\* uint32 arithmetic: a sum or difference of two words, reduced to a word.
Wrap(x) == IF x < 0 THEN x + Word ELSE IF x >= Word THEN x - Word ELSE x

VARIABLES
  \* the device
  front,      \* bytes written
  back,       \* offset of the reader
  total,      \* TotalSize
  curSize,    \* CurSize: bytes between, as far as writer and reader agree
  readReq,    \* ReadReqSize: what a suspended reader waits for
  bufLevel,   \* BufLevel: a reader waits for BufLevelMin bytes
  readSem,    \* osfifoReadSem, a binary semaphore
  levelSem,   \* osfifoBufLevelSem, a binary semaphore
  readPos,    \* offset of hReadFile
  onDisk,     \* offset of hWriteFile: bytes of the file on the disk
  \* the HTTP task
  dpc,        \* "start", "recv" (waits for a packet), "disk" (writes), "over"
  left,       \* leavelength: bytes still to receive
  have,       \* bytes received and not yet written
  \* the StreamControl task
  spc,        \* where it is; "idle" between requests
  size,       \* the length to read, or the offset to seek to
  level,      \* front - back as last computed, not yet stored in CurSize
  \* the audio control task
  control,    \* "off", "asks" (waits in fifoDev_GetTotalSize), "on"
  \* history variables
  answer,     \* what the last read returned
  late,       \* the data was there when the reader announced it would wait
  surplus,    \* SetTotalSize gave a wake-up that nobody was waiting for
  spoiled     \* a read skipped bytes that had not come ("fifo read err1")

sizeVars == <<front, back, total, curSize>>
waitVars == <<readReq, bufLevel, readSem, levelSem>>
deviceVars == <<sizeVars, waitVars, readPos, onDisk>>
httpVars == <<dpc, left, have>>
streamVars == <<spc, size, level>>
marks == <<surplus, spoiled>>
history == <<answer, late, marks>>
vars == <<deviceVars, httpVars, streamVars, control, history>>

Data(from, len, fresh) == [kind |-> "data", from |-> from, len |-> len, fresh |-> fresh]
Error == [kind |-> "error", from |-> 0, len |-> 0, fresh |-> FALSE]

Init ==
  /\ front = 0 /\ back = 0 /\ total = 0 /\ curSize = 0
  /\ readReq = 0 /\ bufLevel = FALSE /\ readSem = FALSE /\ levelSem = FALSE
  /\ readPos = 0 /\ onDisk = 0
  /\ dpc = "start" /\ left = 0 /\ have = 0
  /\ spc = "idle" /\ size = 0 /\ level = 0
  /\ control = "off"
  /\ answer = Data(0, 0, TRUE) /\ late = FALSE
  /\ surplus = FALSE /\ spoiled = FALSE

-----------------------------------------------------------------------------
(* The audio control task: fifoDev_GetTotalSize from AudioFileOpen *)

\* Mutant of AskSize: a size of 0 is not waited for.
AskSizeAtOnce ==
  /\ control = "off"
  /\ control' = "on"
  /\ UNCHANGED <<deviceVars, httpVars, streamVars, history>>

AskSize ==
  /\ control = "off"
  /\ control' = IF total = 0 THEN "asks" ELSE "on"
  /\ UNCHANGED <<deviceVars, httpVars, streamVars, history>>

LearnSize ==
  /\ control = "asks" /\ readSem
  /\ readSem' = FALSE
  /\ control' = "on"
  /\ UNCHANGED <<sizeVars, readReq, bufLevel, levelSem, readPos, onDisk, httpVars,
                 streamVars, history>>

-----------------------------------------------------------------------------
(* The HTTP task: GetFile, fifoDev_SetTotalSize and fifoDev_Write *)

\* GetFile up to its loop; fifoDev_SetTotalSize gives the semaphore GetTotalSize
\* waits on, whether or not anyone waits.  Nobody does in the order of
\* MplayerCtrl_Play, which has the HTTP task started before it sends DECSTART.
StartDownload ==
  /\ dpc = "start"
  /\ front' = 0 /\ back' = 0 /\ readReq' = 0
  /\ total' = FileLen /\ readSem' = TRUE
  /\ surplus' = (control # "asks")
  /\ \E n \in HeaderBytes: have' = n /\ left' = FileLen - n
  /\ dpc' = "recv"
  /\ UNCHANGED <<curSize, bufLevel, levelSem, readPos, onDisk, streamVars, control, answer,
                 late, spoiled>>

\* Mutant of Piece: the rest is written as if it were a whole piece.
PieceRounded(bytes, more) ==
  IF bytes >= LargePiece THEN LargePiece
  ELSE IF more > 0 \/ bytes = 0 THEN 0 ELSE SmallPiece

\* The size of the next fifoDev_Write; 0 if GetFile goes back to receiving.
Piece(bytes, more) ==
  CASE bytes >= LargePiece -> LargePiece
    [] bytes < LargePiece /\ more > 0 -> 0
    [] bytes \in SmallPiece .. LargePiece - 1 /\ more = 0 -> SmallPiece
    [] OTHER -> bytes

HttpNext(bytes, more) ==
  IF Piece(bytes, more) > 0 THEN "disk" ELSE IF more > 0 THEN "recv" ELSE "over"

Receive(n) ==
  /\ dpc = "recv"
  /\ LET got == IF n <= left THEN n ELSE left
     IN /\ left' = left - got /\ have' = have + got
        /\ dpc' = HttpNext(have + got, left - got)
  /\ UNCHANGED <<deviceVars, streamVars, control, history>>

\* Mutant of Enough: a reader is woken by whatever is written.
EnoughAnyhow(n) == readReq # 0

\* Mutant of Enough: the last byte a reader waits for does not count.
EnoughAndMore(n) == readReq # 0 /\ Wrap(front + n - back) > readReq

\* After n more bytes a suspended reader has what it waits for.
Enough(n) == readReq # 0 /\ Wrap(front + n - back) >= readReq

\* fifoDev_Write from the return of FileDev_WriteFile on.
Write ==
  /\ dpc = "disk"
  /\ LET n == Piece(have, left)
         enough == Enough(n)
         wakes == bufLevel /\ (Wrap(curSize + n) >= BufLevelMin \/ front + n >= total)
     IN /\ onDisk' = onDisk + n
        /\ front' = front + n
        /\ curSize' = Wrap(curSize + n)
        /\ bufLevel' = (bufLevel /\ ~wakes)
        /\ levelSem' = (levelSem \/ wakes)
        /\ readReq' = IF enough THEN 0 ELSE readReq
        /\ readSem' = (readSem \/ enough)
        /\ have' = have - n
        /\ dpc' = HttpNext(have - n, left)
  /\ UNCHANGED <<back, total, readPos, left, streamVars, control, history>>

-----------------------------------------------------------------------------
(* The StreamControl task: fifoDev_Read *)

At(l) == spc = l
Goto(l) == spc' = l

\* A request of the B core, which the control task has started.
Idle == control = "on" /\ At("idle")

\* Clipped at the end of the file.
Read(n) ==
  /\ Idle /\ back < total
  /\ size' = IF back + n > total THEN total - back ELSE n
  /\ late' = FALSE
  /\ Goto("level")
  /\ UNCHANGED <<deviceVars, httpVars, level, control, answer, marks>>

ReadAtEnd ==
  /\ Idle /\ back >= total
  /\ answer' = Error
  /\ UNCHANGED <<deviceVars, httpVars, streamVars, control, late, marks>>

TestLevel ==
  /\ At("level")
  /\ Goto(IF curSize < BufLevelMin /\ front < total THEN "setLevel" ELSE "test")
  /\ UNCHANGED <<deviceVars, httpVars, size, level, control, history>>

SetLevel ==
  /\ At("setLevel")
  /\ bufLevel' = TRUE
  /\ late' = (front >= total)
  /\ Goto("takeLevel")
  /\ UNCHANGED <<sizeVars, readReq, readSem, levelSem, readPos, onDisk, httpVars, size,
                 level, control, answer, marks>>

TakeLevel ==
  /\ At("takeLevel") /\ levelSem
  /\ levelSem' = FALSE
  /\ Goto("test")
  /\ UNCHANGED <<sizeVars, readReq, bufLevel, readSem, readPos, onDisk, httpVars, size,
                 level, control, history>>

\* Where the read goes with the front and back it has just looked at.
Compare ==
  CASE front >= back + size -> "copy"
    [] front < back + size /\ front <= Wrap(back - 1) -> "copyNothing"
    [] OTHER -> "fail"

TestData ==
  /\ At("test")
  /\ Goto(IF Wrap(front - back) < size THEN "setReq" ELSE Compare)
  /\ UNCHANGED <<deviceVars, httpVars, size, level, control, history>>

SetReq ==
  /\ At("setReq")
  /\ readReq' = size
  /\ late' = (front >= back + size)
  /\ Goto("suspend")
  /\ UNCHANGED <<sizeVars, bufLevel, readSem, levelSem, readPos, onDisk, httpVars, size,
                 level, control, answer, marks>>

Suspend ==
  /\ At("suspend") /\ readSem
  /\ readSem' = FALSE
  /\ Goto("compare")
  /\ UNCHANGED <<sizeVars, readReq, bufLevel, levelSem, readPos, onDisk, httpVars, size,
                 level, control, history>>

\* The condition is not tested again: one wake-up is taken for the data.
CompareData ==
  /\ At("compare")
  /\ Goto(Compare)
  /\ UNCHANGED <<deviceVars, httpVars, size, level, control, history>>

\* FileDev_ReadFile, back += size, and the operands of "CurSize = front - back".
Copy ==
  /\ At("copy")
  /\ readPos' = readPos + size
  /\ back' = back + size
  /\ level' = Wrap(front - back - size)
  /\ answer' = Data(readPos, size, readPos + size <= onDisk)
  /\ Goto("store")
  /\ UNCHANGED <<front, total, curSize, waitVars, onDisk, httpVars, size, control, late,
                 marks>>

\* "fifo read err1": the branch of a FIFO in memory; pbuf is NULL with a file.
CopyNothing ==
  /\ At("copyNothing")
  /\ back' = back + size
  /\ level' = Wrap(front - back - size)
  /\ answer' = Data(back, size, FALSE)
  /\ spoiled' = TRUE
  /\ Goto("store")
  /\ UNCHANGED <<front, total, curSize, waitVars, readPos, onDisk, httpVars, size,
                 control, late, surplus>>

\* "fifo read err2"
ReadFails ==
  /\ At("fail")
  /\ answer' = Error
  /\ Goto("idle")
  /\ UNCHANGED <<deviceVars, httpVars, size, level, control, late, marks>>

\* A write between the operands and the store is lost from CurSize.
StoreLevel ==
  /\ At("store")
  /\ curSize' = level
  /\ Goto("idle")
  /\ UNCHANGED <<front, back, total, waitVars, readPos, onDisk, httpVars, size, level,
                 control, history>>

-----------------------------------------------------------------------------
(* The StreamControl task: fifoDev_ReadSeek *)

\* SEEK_CUR: AudioFileChangeBuf2 rewinds by the bytes it has read, so the data is
\* there.
SeekCur(n) ==
  /\ Idle /\ n <= back /\ front > back - n
  /\ back' = back - n /\ readPos' = back - n
  /\ UNCHANGED <<front, total, curSize, waitVars, onDisk, httpVars, streamVars, control,
                 history>>

\* SEEK_SET
Seek(offset) ==
  /\ Idle
  /\ size' = offset
  /\ late' = FALSE
  /\ Goto("seek")
  /\ UNCHANGED <<deviceVars, httpVars, level, control, answer, marks>>

SeekTest ==
  /\ At("seek") /\ front <= size
  /\ Goto("seekSetReq")
  /\ UNCHANGED <<deviceVars, httpVars, size, level, control, history>>

SeekSetReq ==
  /\ At("seekSetReq")
  /\ readReq' = Wrap(size - back)
  /\ late' = (front > size)
  /\ Goto("seekSuspend")
  /\ UNCHANGED <<sizeVars, bufLevel, readSem, levelSem, readPos, onDisk, httpVars, size,
                 level, control, answer, marks>>

SeekSuspend ==
  /\ At("seekSuspend") /\ readSem
  /\ readSem' = FALSE
  /\ Goto("seek")
  /\ UNCHANGED <<sizeVars, readReq, bufLevel, levelSem, readPos, onDisk, httpVars, size,
                 level, control, history>>

\* Mutant of SeekDone: the file's own offset is left behind.
SeekDoneStaleFile ==
  /\ At("seek") /\ front > size
  /\ back' = size
  /\ Goto("idle")
  /\ UNCHANGED <<front, total, curSize, waitVars, readPos, onDisk, httpVars, size, level,
                 control, history>>

SeekDone ==
  /\ At("seek") /\ front > size
  /\ back' = size /\ readPos' = size
  /\ Goto("idle")
  /\ UNCHANGED <<front, total, curSize, waitVars, onDisk, httpVars, size, level, control,
                 history>>

-----------------------------------------------------------------------------

Control == AskSize \/ LearnSize

Http == StartDownload \/ (\E n \in Packets: Receive(n)) \/ Write

Request ==
  \/ \E n \in ReadLens: Read(n)
  \/ ReadAtEnd
  \/ \E n \in ReadLens: SeekCur(n)
  \/ \E offset \in SeekOffsets: Seek(offset)

StreamStep ==
  \/ TestLevel \/ SetLevel \/ TakeLevel \/ TestData \/ SetReq \/ Suspend
  \/ CompareData \/ Copy \/ CopyNothing \/ ReadFails \/ StoreLevel
  \/ SeekTest \/ SeekSetReq \/ SeekSuspend \/ SeekDone

Next == Control \/ Http \/ Request \/ StreamStep

Spec == Init /\ [][Next]_vars

\* The tasks run, and the peer keeps sending.
FairSpec == Spec /\ WF_vars(Control) /\ WF_vars(Http) /\ WF_vars(StreamStep)

-----------------------------------------------------------------------------
(* Properties *)

Words == 0 .. Word - 1
Asking == {"level", "setLevel", "takeLevel", "test", "setReq", "suspend", "compare"}
Seeking == {"seek", "seekSetReq", "seekSuspend"}
Copying == {"copy", "copyNothing", "fail", "store"}

\* Every variable has its type; the counters stay words.
TypeOK ==
  /\ front \in Words /\ back \in Words /\ total \in Words /\ curSize \in Words
  /\ readReq \in Words /\ bufLevel \in BOOLEAN /\ readSem \in BOOLEAN /\ levelSem \in BOOLEAN
  /\ readPos \in Words /\ onDisk \in Words
  /\ dpc \in {"start", "recv", "disk", "over"} /\ left \in Words /\ have \in Words
  /\ spc \in {"idle"} \cup Asking \cup Seeking \cup Copying
  /\ size \in Words /\ level \in Words
  /\ control \in {"off", "asks", "on"}
  /\ answer \in [kind: {"data", "error"}, from: Words, len: Words, fresh: BOOLEAN]
  /\ late \in BOOLEAN /\ surplus \in BOOLEAN /\ spoiled \in BOOLEAN

\* StreamControl reads the file as if it had been there from the start, but for
\* what a wake-up too many can do to it.
Storage == INSTANCE StorageFile WITH offset <- back, early <- surplus, intact <- ~spoiled

ImplementsStorage == Storage!Spec

\* What the code relies on: a suspended reader goes on only when its data was
\* written ("fifo read err1" and "fifo read err2" are what it prints otherwise).
WakeupMeansData == At("compare") => front >= back + size

\* A reader goes on without its data only after SetTotalSize gave a wake-up that
\* nobody waited for, and then none is left over beside the one it took: its own
\* request still stands.
EarlyWakeup ==
  /\ At("compare") /\ front < back + size => surplus /\ readReq = size /\ ~readSem
  /\ spoiled => surplus

\* No wake-up is lost: who waits for the size, for the data of a read or for the
\* byte a seek goes to has the semaphore as soon as that is there, unless it was
\* there before the wait was announced.  (A seek to where the reader is waits for
\* 0 bytes, and after "fifo read err1" for a difference that wrapped.)
DataMeansWakeup ==
  /\ control = "asks" /\ total # 0 => readSem
  /\ At("suspend") /\ front >= back + size /\ ~late => readSem
  /\ At("seekSuspend") /\ front > size /\ ~late /\ size # back /\ ~spoiled => readSem

\* Nobody will wake the reader: it announced its wait after the last write; it
\* waits for 0 bytes, which Write takes for nobody waiting; or it seeks back from
\* bytes it skipped, by a length that wrapped.
Forgotten ==
  \/ late /\ dpc = "over"
  \/ At("seekSuspend") /\ ~readSem /\ (readReq = 0 \/ spoiled)

\* Every request is answered, but for those cases.
RequestReturns == ~At("idle") ~> At("idle") \/ Forgotten

\* "file seek suspend" is followed by "fifo seek ok" (FIFODevice.c:247, 268),
\* unless the seek announced its wait after the data had come.
SeekReturns == spc \in Seeking ~> At("idle") \/ late

-----------------------------------------------------------------------------
(* The inductive invariant *)

\* The download is cut into pieces that add up to the file.
HttpInv ==
  /\ dpc = "start" => front = 0 /\ back = 0 /\ total = 0 /\ ~surplus
  /\ dpc # "start" => total = FileLen /\ front + have + left = FileLen
  /\ dpc = "recv" => left > 0
  /\ dpc = "disk" => Piece(have, left) \in 1 .. have
  /\ dpc = "over" => left = 0 /\ have = 0
  /\ onDisk = front

\* The control task starts the B core with the size known; only it can be waiting
\* for the wake-up SetTotalSize gives.
ControlInv ==
  /\ control = "asks" => (readSem <=> dpc # "start")
  /\ control = "on" => dpc # "start"
  /\ control # "on" => At("idle") /\ readReq = 0
  /\ ~surplus => (control = "off" => dpc = "start")
  /\ surplus => control # "asks"

\* The reader is in the file, behind the writer until it skips what had not come.
ReaderInv ==
  /\ readPos <= back /\ back <= total
  /\ ~spoiled => back <= front /\ readPos = back
  /\ spoiled => surplus
  /\ spc \in Asking \cup {"copy", "copyNothing"} =>
       /\ back < FileLen
       /\ \E n \in ReadLens: size = (IF back + n <= FileLen THEN n ELSE FileLen - back)
  /\ spc \in Seeking => size < FileLen
  /\ spc \in {"setReq", "suspend", "compare"} => back <= front
  /\ At("copy") => front >= back + size
  /\ spc \in {"copyNothing", "fail"} => surplus

\* What a waiting reader has registered, and when it was woken.
RequestInv ==
  /\ At("suspend") =>
       /\ readReq \in {0, size}
       /\ readReq = 0 => readSem /\ front >= back + size
       /\ readReq # 0 /\ ~late => front < back + size
  /\ At("compare") /\ front < back + size => readReq = size /\ ~readSem
  /\ At("seekSuspend") /\ ~late /\ ~spoiled /\ size # back =>
       /\ readReq = 0 => readSem
       /\ readReq # 0 => front <= size /\ readReq = size - back

\* Unless one was given to nobody, a wake-up is there for the data a reader waits
\* for, and for nothing else.
WakeupInv == ~surplus =>
  /\ readReq # 0 => ~readSem /\ spc \in {"suspend", "seekSuspend"}
  /\ readSem /\ control = "on" => spc \in {"suspend", "seekSuspend"}
  /\ readSem /\ At("suspend") => front >= back + size
  /\ At("compare") => front >= back + size
  /\ readSem => control # "off"

IInv == TypeOK /\ HttpInv /\ ControlInv /\ ReaderInv /\ RequestInv /\ WakeupInv
=============================================================================
