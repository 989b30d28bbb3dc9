# RK NanoD Wi-Fi audio demo: TLA+ models, model checking and proofs

The firmware runs on a chip with two Cortex-M cores. The A core runs FreeRTOS
and everything that talks to the world: Wi-Fi, DLNA, a download client, FAT
volumes, the player's control task. The B core ("BB", `src/BBSystem`) runs one
main loop with interrupts and decodes audio. They share memory and exchange
commands through mailbox channels. A track is played by the B core pulling file
data from the A core through a double buffer while the A core pulls decoded
audio from the B core.

This directory holds the modules, the TLC configurations, the proofs, and
`PROJECT.json`, which lists components, runs, mutants, hazards, findings, the
theorems and the source lines of every definition.

## 1. Inventory

| part | state | operations | interacts by |
|---|---|---|---|
| File layer of the B core, `BBSystem/audio_file_access2.c` | two buffers (`AudioFileBufSize2`, `AudioFileRdBufID2`, `AudioFileWrBufID2`, `AudioFileBufPos2`), `AudioFileBufBusy2`, `gBufByPass`, `gCmdDone`, `CurFileOffset`, two parameter blocks | open, read, seek, tell, eof, prefetch, change of buffer size | mailbox 2 to the A core; variables shared with its completion interrupt |
| B core main loop and interrupts, `BBSystem/Main2.c`, `Msg.c` | `pcb.audio_decode_status`, `gFileOpStatus`, the message bits, `gData` | decode open / decode / seek / close, file open / close hand-shakes, fill message | mailbox 1 (decode commands), mailbox 2 (file answers) |
| StreamControl task, `App/FileStream/StreamControlTask.c` | one command slot, a binary semaphore, up to eight files and a FIFO handle | seek, read, write, tell, length | interrupt of mailbox 2; FAT or FIFO below |
| Audio control, `App/Audio/AudioControlTask.c` | player and play state, decode flags, file handles, three semaphores | start, stop, next, seek, pause, decode hand-shake, output interrupt | mailbox 1; StreamControl; FIFO; DLNA control |
| Download FIFO, `Driver/FIFO/FIFODevice.c` | front, back, sizes requested, five semaphores | read, seek, write, set size, create, delete | StreamControl (reader), download client (writer) |
| Device registry, `OS/Plugin/device.c` | device list, open counts, one semaphore | create, open, close, suspend, resume, delete | every driver |
| Task registry, `OS/Plugin/TaskPlugin.c` | task list, ask and response queues of length 1 | create, delete, find; scheduler task | every task |
| Device manager, `OS/DeviceManager/DeviceManagerTask.c` | ask and response queues | create a list of devices | main task, device registry |
| Mailbox driver, `Driver/MailBox/MailBoxDevice.c` | one operation per channel | read, write, create, delete | interrupts |
| FAT and file devices, `Driver/Volume`, `Driver/File` | clusters, offsets, cached sectors | open, seek, read, write | disk drivers |
| Main task, media database, GUI, shell | menus, play lists | dispatch | messages |
| Power, overlays, FreeRTOS wrappers | reference counts | | |
| Wi-Fi, TCP/IP, DLNA, web server, codecs | vendored or binary | | |

What is hard, and what makes each part right (the full list, line by line, is
"hazards" in `PROJECT.json`):

* **File layer and StreamControl.** The B main thread, its interrupt and the A
  core interleave freely; there is one command slot, one parameter block per
  command and no lock. Right means: one request at a time; a buffer is never
  filled while it is read; the buffers are a window on the file that seek and
  tell may compute with; an emptied buffer is always refilled; a codec sees a
  sequential file; every call returns.
* **Audio control and B core.** Two mailbox channels with separate interrupts,
  a status variable both write, tracks that end, are stopped or replaced while a
  prefetch is under way. Right means: every start and stop completes, and no
  answer for one track reaches the next.
* **Download FIFO.** One reader, one writer, conditions tested outside the
  critical sections, semaphores that keep a stale token. Right means: bytes out
  are the bytes in, nobody waits when the condition holds.
* **Registries and managers.** Linked lists, open counts, request queues shared
  by several callers with untagged answers. Right means: what is registered can
  be found once, a deleted object is not used, an answer reaches its caller.

## 2. Plan

The order was: most important behaviour first. Items 1, 2 and 4 are done, item 3
for one download.

1. **File streaming across the cores**: `AudioFile` (abstract), `FileBuffer`
   (detailed), its invariant, runs, proofs.
2. **Playing sessions**: `AudioSession`, the audio control task with the codec
   stubs, the decode interrupt and the B core's main loop: opening, decoding
   ahead, seeking, stopping and reopening a track, with what is left over of
   the previous one.
3. **`FifoDevice`** with the download client as writer and StreamControl as
   reader; abstract specification `StorageFile`: the file as if it were there,
   which is how `FileBuffer` uses its "fifo" storage; liveness under a fair
   writer. Left: several tracks (`fifoDev_SetTotalSize(0)` from `AudioStop`,
   `Http_Close` in the middle of a write), a full or wrapping FIFO, errors of
   the network.
4. **Tasks and devices**: `TaskManager` and `DeviceRegistry`, each for any
   callers, and `Platform`, the tasks of the firmware that call both, which
   implements each of them; abstract specification of the first, `TaskService`:
   a request is carried out once, while its caller waits; the device manager's copy of the protocol with it.
5. Left: the download client's errors, then power manager and overlays
   (reference counts).

## 3. Modules

| module | contents |
|---|---|
| `AudioFile` | what a codec is promised: a sequential file (abstract specification) |
| `FileBuffer` | the file layer, the completion interrupt and StreamControl; its properties |
| `FileBufferInv` | the inductive invariant `IInv`, conjunct by conjunct |
| `MCFileBuffer` | constants for TLC |
| `FileBufferSteps` | lemmas: arithmetic of words and sectors, and what each step changes |
| `FileBufferProofs` | the invariant's proof, the theorems, the refinement |
| `StorageFile` | what the download FIFO promises StreamControl (abstract specification) |
| `FifoDevice` | the FIFO with the HTTP, StreamControl and audio control tasks; its invariant |
| `MCFifoDevice` | constants for TLC |
| `FifoDeviceProofs` | the invariant's proof, the theorems, the refinement |
| `AudioSession` | the audio control task, the codec stubs, the interrupts of both cores and the B core's main loop |
| `AudioSessionInv` | the inductive invariant `IInv`, conjunct by conjunct |
| `AudioSessionProofs` | the task's programs, the way of a command to the B core and back; the invariant's proof and the theorems |
| `TaskService` | what `RKTaskCreate` and `RKTaskDelete` promise their callers (abstract specification) |
| `TaskManager` | `RKTaskCreate`, `RKTaskDelete`, their two queues and the scheduler task, for any callers |
| `TaskManagerProofs` | who waits and who owns which block; the theorems for any callers, the refinement |
| `DeviceRegistry` | `RKDev_Create`, `Open`, `Close`, `Delete` and the list, for any clients; extends `TaskManager` |
| `DeviceRegistryProofs` | the open counts; the theorems for any clients |
| `Platform` | the device manager, shell, Wi-Fi, DLNA and HTTP tasks and the scheduler, as callers of both |
| `MCPlatform` | constants for TLC |
| `PlatformInv` | the inductive invariant `IInv`, conjunct by conjunct |
| `PlatformProofs` | `Platform` implements `TaskManager` and `DeviceRegistry`; the theorems that follow; the tasks' programs |
| `PlatformInvProofs` | the invariant's proof, step by step; the theorems about the tasks |

`Platform` EXTENDS `DeviceRegistry`, which EXTENDS `TaskManager`; `FileBuffer`
refines `AudioFile`, `FifoDevice` refines `StorageFile` and `TaskManager` refines
`TaskService`, by INSTANCE. What `FileBuffer` assumes of its "fifo" storage is
`StorageFile` without a surplus wake-up: the reads that then fail or skip bytes
(finding 4) are not among the storage's answers.
`AudioSession` stands above `FileBuffer`: it keeps of the file layer only when
the main loop waits and what an answer of channel 2 does to the variables it
shares with channel 1.

### How `FileBuffer` corresponds to the code

*Bytes are offsets.* A byte of the file is represented by its offset, so the
contents of a buffer are the offset its first byte came from and how many bytes
were read (`content`). `chunk` is what the last `memcpy` gave the codec, and
`want` the offset it is owed next. These two, `tail` and `past` are history
variables: no action of the program depends on them, except that they bound the
codec's calls (below).

*Processes.* `pc` is where the B main thread is. A step runs from one point where
another process can matter to the next: the wait loops (`while (...) __WFI2()`),
the store of `AudioFileInput2` after its request, the second half of
`AudioFileTell2`, and each round of `AudioFileRead2`'s loop. `AnswerIsr` is
`MailBoxFileService`, which preempts the main thread anywhere and runs to its
end. `StreamIsr` and `StreamTake` / `Serve...` are the A core's interrupt and
task. `b2a` and `a2b` are mailbox channel 2 in the two directions: the code
writes the command register and then the data register, and the receiver is
interrupted after that.

*Sleep.* `WaitTest` and `WaitSleep` are the test of a wait loop and its WFI, with
interrupts enabled in between, as in the code; a completion that falls between
them does not end the sleep. `OtherInterrupt` is any interrupt that does.

*Storage.* Only what `StreamControlTask_Enter` gets back is modelled. A FAT file
("file") reads whole sectors from the current one, returns a short length at
the end, `RK_ERROR` beyond it, and advances the offset it reports by the length
*requested* (`FileDev_ReadFile`). The download FIFO ("fifo") advances by the
length read, and a seek at or beyond the end does not return.

*The codec* is any sequence of reads, SEEK_SETs, SEEK_CURs and tells inside the
file, called from `CodecOpen2`, `CodecDecode2` or `CodecSeek2`. `FillBuffer` is
called from the main loop between such calls. A codec that keeps the small buffers
takes `KeepBuf` (FLAC), the others `ChangeBuf`. AAC and ALAC, which are exempt from
`AudioFileChangeBuf2` in the same place, are not modelled here: the main loop has
switched them to reads without buffers when the file was opened (`Main2.c:905-922`).

*Words.* Lengths and offsets are unsigned words modulo `Word`, and `RK_ERROR` is
`Word - 1`, so a result of -1 stored as a length has the effect it has in C.

### How `FifoDevice` corresponds to the code

*Tasks.* `dpc`, `spc` and `control` are where the HTTP, StreamControl and audio
control tasks are. Under the preemptive kernel HTTP (priority 101) may run
between any two statements of StreamControl (100), so a read or a seek is split
at each statement that reads or writes what HTTP writes: the level test and
`BufLevel = 1`, the size test and `ReadReqSize = size`, each semaphore, the
operands and the store of `CurSize = front - back`. StreamControl runs only
while HTTP waits for the network or for the disk, so `Write` is the tail of
`fifoDev_Write` in one step, after `FileDev_WriteFile`. Audio control (127) is
preempted by neither.

*Order.* The control task may ask for the size (`AskSize`) before or after the
download sets it (`StartDownload`). DLNA playback has the second order: HTTP is
created (`mplayer-ctrl.c:71`, priority 101 over DLNA's 40) before
`AUDIO_CMD_DECSTART` is sent (75). Then the wake-up of `fifoDev_SetTotalSize` has
nobody to wake and stays in the semaphore (finding 4). With it a read may copy
bytes that have not come: the code takes the branches "fifo read err1", which moves
the reader beyond the writer, or "err2". Both are in the model, with the unsigned
arithmetic that follows.

*Bytes.* The file on the disk is a prefix of the download, of length `onDisk`.
A read returns where its bytes came from, how many they are, and whether they
had been written when they were copied (`answer`). The history variables are `late`
(the data was there when the wait was announced), `surplus` (a wake-up was given to
nobody) and `spoiled` (a read has skipped bytes); no action depends on them.

*Semaphores* are binary and keep a token that nobody waits for: that is what
`osfifoReadSem` shares between `fifoDev_GetTotalSize`, `fifoDev_Read` and
`fifoDev_ReadSeek`.

*Pieces.* `Piece` is how `GetFile` cuts what it has received into writes of 1024
bytes, and after the last packet of 512 and the rest.

### How `AudioSession` corresponds to the code

*The audio control task.* `todo` is the sequence of steps of `AudioDecodeProc`
still to do; a step is a function, or part of one, up to its wait. `AudioStart`
is "fileOpen" and, if that goes well, "hwInit", "codecOpen", "opened",
"setPlay"; `AudioStop` is "stop", "codecClose", "bbStop", "shutOff" and perhaps
the next track. Commands are received when `todo` is empty, with any command at
any time: the shell, the keys and DLNA send them. Between two commands a playing
track gets buffers.

*One semaphore.* `sem` is the token of `osAudioDecodeOk`, and says what gave it;
`waiting` says what it is awaited for. Both are the model's labels: in the code a
token is a token, which is what `TokenMatches` is about.

*Decode ahead.* `block` holds the flags of `gpMediaBlock`; `isr` is
`AudioDecodingGetOutBuffer` between its read of the mailbox and its clear of the
interrupt, the only point of it where the other core matters. `masked` is
`IntDisable(INT_ID_MAILBOX1)` during a copy.

*The B core.* `bpc` is where the main loop is and `op` the case it is in: the two
switches, the two WFIs with interrupts disabled, and the codec, which makes any
number of file requests and waits for each. `status` is
`pcb.audio_decode_status`; interrupts store it and `gFileOpStatus` at any moment,
and each case resets them. A reset (`BCore`) sets all of them up again.

*File requests* are a read, a seek, or "old", one made before the last reset.
StreamControl does not know of the reset.

*Abstractions.* FFD and FFW are one state, as are MP3, WAV and the other
codecs with the double buffer ("buffered"); AAC and ALAC are "raw". A track ends
or fails whenever a decode is answered. `gData` is not kept: whether it is 0 when
`FILE_CLOSE_CMPL` comes is a choice. `gBufByPass` is 0 exactly while `busy` is
set.

*Mishaps.* `event` names the first of ten ways in which the code itself leaves
the protocol, and the behaviour ends there:

| mishap | where | how |
|---|---|---|
| B core off | `AudioControlTask.c:996`, `pMP3.c:356` | RESUME, FF_RESUME or a shell seek after a track was stopped: a command is sent to a core in reset, and its answer awaited for ever |
| started twice | `mplayer-ctrl.c:75` | DLNA plays while a track plays: `BcoreDev_Start` without `AudioStop` |
| two takers | `music.c:703` | the shell's task calls `CodecSeek` while audio control waits or plays |
| taken twice | `AudioControlTask.c:964` | after FFD, `AudioFFResume` takes a token that `CodecSeek` has already taken |
| replaced | `pMP3.c:418` | a seek is sent while a decode is unread, or read but not begun |
| reset | `Main2.c:635` | the store of IDLE erases a command that came since the switch |
| answer lost | `AudioControlTask.c:2565` | the interrupt is cleared after the mailbox was read; or the B core answers again before it was read |
| late answer | `Main2.c:458` | an answer on channel 2 overwrites `gFileOpStatus` = OPEN or CLOSE |
| gData is 0 | `Main2.c:351` | the close is ignored when the last file request was a seek |
| old answer | `audio_file_access2.c:375` | an answer to the previous track's request is taken for the first one of this |

All ten are reached in the run. So a property of this module says: whatever the
interleaving, the protocol is right until the first of these, and nothing else
goes wrong. `HandshakesReturn` in particular says that a hang has one of these
ten causes.

### How `TaskManager`, `DeviceRegistry` and `Platform` correspond to the code

*Blocks* are the `RK_TASK_CLASS` structures on the heap; a block that was freed
may be allocated again, and a request that still names it then names another
task. The list is its head and its members (`listed`), because unregistering
treats the head differently and nothing else depends on the order. `hTask` is
the blocks whose FreeRTOS task exists.

*Queues.* `TaskAskQueue` and `TaskRespQueue` hold one item each. An item carries
what the code's carries, and `who`, a history field. `call` is where each caller
is inside `RKTaskCreate` or `RKTaskDelete`; the scheduler takes an item, carries
it out, calls the task's init or deinit function and answers if asked to. An
answer goes to any waiting caller, as the code does not look at it.

*History.* `cause` records what may break the ownership of blocks: a caller took
another's answer, two deletes of one task under way, FreeRTOS without memory,
the first task of the list deleted, a task deleted while it waits. `broken` says
that a block was freed twice or used after it was freed; the model ends there.

*The promise.* `TaskService` knows neither queues nor a scheduler task: a caller
asks for a block, the request is carried out, the caller returns. `Service` in
`TaskManager` is the mapping: a call has been carried out when its request is
neither with the caller, nor in `TaskAskQueue`, nor with the scheduler
(`InHand`); a delete nobody waits for is the block its item names (`Unawaited`).
Nothing is promised once one of the causes has happened, as after
that an answer may end the wrong call or a request name another task.

*Devices.* `osDeviceReqSem` is held from the beginning of `RKDev_Create` or
`RKDev_Delete` to its end, the driver's function in between (`devOp`), which for
the SDIO driver calls the task service. A handle lives in one of the program's
variables (`hdl`); `opened` and `orphans` are history. `Unbalanced` are the
devices that some client closes more often than it opened, FILE and FIFO in this
firmware: for the others an open handle is a registered device.

*Clients.* In `Platform`, `todo` is the sequence of operations each task has
still to do, and the scheduler has one too, for the init functions: calls of the
two services, of `DeviceTask_CreateDeviceList`, and accesses to `running` of
`http.c`. The programs (`DeviceTask`, `WifiDel`, `DeleteBody`, ...) are those
sequences, read off the functions their map entries name. A command is typed
at the shell when it is idle: Wi-Fi is started when there is no Wi-Fi task, deleted
at any time, and DLNA is started once.

*Wi-Fi* is started by the Wi-Fi task (`WifiApplication`): it creates lwIP's thread,
asks the device manager for the card, opens it, brings up the bus, creates the WWD
task and joins a network; the card's driver or the chip may fail (`BusInit`,
`WlanUp`), and there may be no access point (`Join`). `WifiDel` is `wifi.delete`.
`Deinit` is `wiced_wlan_connectivity_deinit`, which returns at once when Wi-Fi is not
initialised: then nothing but the Wi-Fi task is deleted and devices of the card stay
registered. Otherwise it tells the WWD task to quit (`quitFlag`), brings down the bus
unless the state is `WLAN_DOWN` (`BusDeinit`) and has lwIP's thread deleted, waiting
for that. Two tasks are deleted without anybody waiting, HTTP and WWD (`Poll`): each
asks for its own deletion and then runs in `while(1)` until the scheduler gets to it.

*Abstractions.* A link that is up stays up until `wifi.delete`; joining needs a
successful bring-up; that lwIP's thread has ended its loop when it is deleted is
taken for granted. *Bounds:* `wifi.start` is not typed while the WWD task of the last
time still ends, and DLNA is started once, with the link up, as the shell checks.

## 4. Runs

The `file_buffer_...` runs and those of findings 1 to 3 use a file of 1792 bytes
(three and a half sectors), `OpenPipo` = 512 (the code's value) and `PlayPipo` =
1024, reads of 256 and 768 bytes, SEEK_SETs to 0, 768 and 1536, SEEK_CURs by -768
and 512. With these a read ends inside, at the end of, and beyond a buffer; a
seek hits the read buffer, the second buffer and neither, on and off a sector
boundary; the last read is short; and the file ends during opening, resizing and
playing. `PastEnd` = 1 bounds the calls a codec makes after the end was reported,
where nothing is promised. Nothing else is bounded: the codec calls for ever.
Deadlock is not checked: the codec stops at that bound, and a FIFO seek beyond
the end never returns.

| run | expected | what it shows |
|---|---|---|
| `file_buffer_fifo` | pass, 443,055 states | one request at a time, no read of a buffer being filled, the window, refilling, tell, that the codec sees a sequential file, and that calls return under fairness |
| `file_buffer_file` | pass, 289,077 states | the same from a FAT file, with the inductive invariant and sector-aligned reads |
| `seek_after_end` | violation | a SEEK_SET goes wrong after a short read of a FAT file |
| `read_at_end_length` | violation | `RK_ERROR` taken for a length |
| `fill_overtaken` | violation | an answer that arrives before `AudioFileInput2`'s store is erased |
| `fifo_order` | pass, 275,161 states | for either order of asking for the size and learning it: no wake-up is lost, a reader goes on without its data only after the surplus wake-up, and until that made a read skip bytes every read that succeeds returns the file's bytes in order, already on the disk; the inductive invariant |
| `fifo_returns` | pass, 275,161 states | reads and seeks return under fairness, for either order |
| `fifo_stale_wakeup` | violation | in DLNA's order a wake-up left over from the size ends a later wait |
| `fifo_seek_hangs` | violation | a seek that waits for 0 bytes never returns |
| `audio_session` | pass, 446,011 states | every wait for the one semaphore gets its own answer and ends; one decode ahead; the B core is closed and shut off only at rest; the inductive invariant |
| `services` | pass, 253,194 states | answers, ownership of blocks, devices and handles, the card and its interrupt task, what `wifi.delete` leaves behind, calls that return; that the tasks use the registry as it expects; that a request is carried out once and before its call returns; the inductive invariant of the tasks |
| `wifi_close_hangs` | violation | the scheduler and the shell wait for each other |

The `fifo_...` runs download 2600 bytes, of which 0 or 300 come with the header,
in packets of 600 and 1460 bytes: packets smaller and larger than a piece of
1024, remainders carried over, two or one large pieces, small pieces and a rest.
They are read in 512 or 2048 bytes, with seeks to 0, 1024 and 2560 and rewinds by
512 and 2048: reads that wait for one write and for several, that are clipped at
the end, and seeks to data that is there, is coming, or comes with the very last
write. Nothing is bounded: requests go on for ever, also after the download.
Deadlock is not checked, as a seek may hang (finding 5).

`audio_session` has no constants and no bound: sessions, commands and tracks go on
for ever, and the run covers the module completely. Deadlock is not checked
because a mishap ends the behaviour.

`services` starts when the device manager task has been created and types up to
three commands at the shell (`MaxCommands` = 3) out of Wi-Fi start and delete,
DLNA, the device list of SDIO and FIFO, and the deletion of the audio tasks, with
one Play and one Stop from the network after DLNA has started. Three suffice for
a Wi-Fi started, deleted and started again, for a delete during a download and
during the start of DLNA, and for two deletes of one task. There are eleven blocks,
one for each of the eleven tasks, so that a freed block is soon another task's.
FreeRTOS may run out of memory for the HTTP task (`NoMemory`), created last. The init
functions of these tasks never fail, so that branch of `TaskManager` does not
happen in `Platform`. With a fourth command a second deletion of the HTTP task
can hit the block that the Wi-Fi task has got since: hence the condition on
"twice" in `CallsReturn`. Deadlock is not checked: when no command comes all
tasks rest, and the scheduler may hang.

Every property of a passing run is broken by a mutant, a plausible bug in one
mapped definition: a forgotten wait, a buffer not emptied or not refilled, an
offset not updated, a remainder forgotten. They sit before the definition they
change.

*Fairness.* In `file_buffer_fifo`: weak fairness of the main thread's steps inside
a call, of both interrupts and of the task's steps. The cores run, an enabled and
pending interrupt is eventually taken, and storage answers. Codec calls and
`OtherInterrupt` are not fair: nothing obliges them to happen, so a wake-up lost
between test and WFI may be lost for ever, and `CallReturns` says so instead of
assuming the next interrupt.

In `fifo_returns` and `fifo_seek_hangs` the tasks are weakly fair, HTTP
including the arrival of the next packet: the peer keeps sending. Requests are
not fair: the B core may stop asking. `RequestReturns` names the two ways a
reader is forgotten (`Forgotten`) instead of assuming them away: it announces its
wait after the last write, in the window between the test and the store, or it
is a seek that waits for 0 bytes.

In `audio_session` each actor is weakly fair: both cores run, unmasked interrupts
are taken, a copy by DMA ends, StreamControl answers. `CodecReturns` is strongly
fair: a codec makes finitely many file requests in one call. Commands and the
shell are not fair, only the task's steps as a whole.

In `services`, `WF_vars(Step)` for all tasks together: the kernel lets some task go
on as long as one can, and no task has a fairness of its own. FreeRTOS schedules by
strict priority: the ready task of the highest priority runs. As long as every task
blocks in the end, which one goes first does not matter: between two commands the
tasks have finitely many operations to do. Some do not block, but spin without a
delay: the Wi-Fi task at `RKDev_Open` of a card that is not there (`wwd_SDIO.c:144`,
priority 98), and HTTP (101) and WWD (99) in `while(1)` after asking for their own
deletion. The shell (2) and DLNA
(40) do not run then, so `CallsReturn` promises nothing while a task spins
(`Spinning` is one of the ways to stop that it names). Nobody has to type a
command.

*Findings.* (1) After a short read the file device's offset is too large, so a
SEEK_SET in the buffered window of a FAT file lands on the wrong byte. (2) At the
end of the file `HifiFileRead` returns 0xFFFFFFFF and its callers store it as a
length. (3) If the A core answers a prefetch within the few instructions between
the mailbox write and the store of 0, the buffer is taken for empty and its bytes
are skipped. Finding 3 is a matter of timing, so the constant `AnswerCanOvertake`
switches it: the other runs and the theorems have it FALSE. (4)
`fifoDev_SetTotalSize` gives a wake-up nobody may be waiting for; a later read
takes it for its data and goes wrong. That is the order of DLNA playback, where the
HTTP task is created before the player is told to start (`mplayer-ctrl.c:71` and 75),
and no run excludes it. (5) A seek to the offset that reader and writer
are both at asks to be woken for 0 bytes, which the writer reads as nobody
waiting. (6) The SDIO driver creates and deletes its interrupt task from its own
create and delete functions, that is with `osDeviceReqSem` held and waiting for
the scheduler; the scheduler opens devices, and waits for `osDeviceReqSem`, in
the init function of the audio control task. If Wi-Fi is deleted while DLNA
starts, both wait for ever, and with them every later call of either service.

## 5. Proofs

`FileBufferProofs` proves, for every file length, playing buffer size (a multiple
of a sector), word size that holds them, every set of read lengths and offsets,
and both storages, under `~AnswerCanOvertake`:

* `Invariant`: `Spec => []IInv`, and from it `TypeCorrect`, `AtMostOneRequest`,
  `ReadBufferIsQuiet`, `BuffersAreWindow`, `SecondBufferIsFilled`,
  `ReadsStartAtSectors`, `TellIsNearlyRight`: the invariants the runs check;
* `Refinement`: `Spec => File!Spec`, a codec sees the sequential file `AudioFile`.

The properties are not inductive: between calls they say nothing of a request
half served. `IInv` adds, at each point of a call, what its argument is
(`ArgInv`), which phase and buffer size go with it (`PhaseInv`), which command is
under way and for which buffer (`LinkInv`), that buffers hold bytes from a sector
boundary (`SectorInv`), that an empty second buffer is always accounted for
(`FillInv`), that storage is at a sector boundary or at the end (`StorageInv`),
and the window itself in the forms it takes between calls (`WindowInv`), during
a synchronous read (`SwitchInv`), a restart (`RestartInv`), a resize
(`ChangeInv`) and inside a tell (`TellInv`). The last six speak of the time before
storage reports the end (`~tail`): past it finding 1 and 2 apply.

`ReadFrom` and `SeekTo` are the heart of it: they describe a request at whatever
place it is, in the mailbox, the slot, the task, on its way back or answered, so
a step of one process only moves the request along.

The proof has a lemma per group of actions and conjunct (`FileBufferSteps`
states what a step changes and the arithmetic of `Wrap` and `SectorStart`;
`FileBufferProofs` puts them together by a case split on `Next`). The refinement
uses `IInv` at the reading steps: the piece copied starts at `want`, was really
read and lies in the file.

`FifoDeviceProofs` proves, for every file length, capacity and word that hold it,
way the file arrives and set of requests, and for either order of the size's being
asked for and set:

* `FifoInvariant`: `Spec => []IInv`, and from it `FifoTypes`;
* `FifoWakeups`: a suspended read goes on without its data only after
  `fifoDev_SetTotalSize` gave a wake-up to nobody, and then no other is left over;
* `FifoNoLostWakeup`: whoever waits has the semaphore once what it waits for is there,
  unless that came before the wait was announced;
* `FifoRefinement`: the FIFO is the storage file `StorageFile`, in which a read of the
  file may fail once a surplus wake-up was given and nothing is promised after a read
  has skipped bytes (finding 4).

None of this is inductive: it depends on who may hold the
token. `WakeupInv` says that, unless a surplus wake-up was given, the token is there only
for the audio control task before it has the size, for a suspended read whose data
has come, or for a seek, and that `ReadReqSize` is set only while its reader waits
without a token; `RequestInv` what a waiting reader has registered and when it has
been woken, whether or not a token was left over; `HttpInv` that written, held and
outstanding bytes add up to the file and that the next piece is not longer than what
is held; `ReaderInv` that the reader is behind the writer, its file at the same
offset, until it skips bytes, and that what it asks for lies in the file;
`ControlInv` that no request comes before the control task has the size, and that
only that task can be waiting for the wake-up of `fifoDev_SetTotalSize`. Each group of
steps has its lemma, combined in `StepKeeps`.

`AudioSessionProofs` proves, without any bound on sessions, commands or tracks:

* `Invariant`: `Spec => []IInv`, and from it `Types`, `TokenIsOwn`,
  `AnswerComes`, `DecodesOneAhead` and `CloseIsAlone`, the invariants the run
  checks;
* `ShutsOffAtRest`: the action property `ShutOffAtRest`, from the same invariant.

`AudioSession` has no constants, so the run is as complete as the theorems; the
proof says *why* they hold. None of the properties is inductive: that a token is
the answer to the command it is awaited for depends on which step the control
task is at and where every command is. `IInv` says, as long as no mishap has
happened:

* `Program`: what the task has still to do is the rest of one of its programs,
  each step followed by one that may follow it (`Follow`);
* `TokenInv`: the token is given once for each wait and to who waits, and the
  task waits for a command only at the step that awaits it (`WaitsAt`);
* `AwaitedInv`: of all commands only a decode may be under way that nobody
  awaits: the one ahead;
* `OrderInv`: each command is in one place of its way, and a decode never follows
  a seek or a close (`Last`); `OpInv`: the main loop works on the command of the
  case it is in;
* `ClosedInv` and `HardwareInv`: no decode is under way while a track is opened
  or after it was closed, and the B core's hardware is set up before the open is
  answered and given back before the close is;
* `AheadInv`: `Decoding` is out of date only while a track is closed or opened;
* `OffInv` and `PlayerInv`: a B core that is shut off has left nothing behind,
  and where tracks begin and end.

The proof goes by actor. The lemmas on programs (`TailProgram`, `JoinProgram`)
give the step after each step; `SendMoves` and `AwaitSent` treat every command
the task sends at once; `MovesKeep` shows that a step of the B core or of an
interrupt, which only moves a command on its way, keeps what the control task
relies on, so that those steps need no case split on the task's step.

`TaskManagerProofs` proves of the task service, for any number of callers, tasks
and blocks and anything they may ask for:

* `TaskAnswers`: as many answers are due as callers wait. The proof counts (from
  `Shape`, what can be in each queue): a step adds a waiting caller and its item,
  moves an item, or removes one of each, also when a caller takes another's.
* `TaskIntegrity`: unless one of the causes has happened no block is freed twice
  or used after that. A request owns its block: `Owned` says what must hold of
  the block a request names (a create's is allocated and not listed, a delete's
  is listed), `Apart` that two requests name different blocks, so that carrying
  one out leaves the others theirs, and `Matched` that an item still names a
  caller that waits for it, so that an answer ends the right call.
* `TaskServes`: `TMSpec => ServesCalls`, the refinement of `TaskService`. Each step
  of a caller is a step of the abstract caller or a stutter (`CreateServes`,
  `DeleteServes`, `SendServes`, `ReceiveServes`), and of the scheduler's, taking a
  request and sending an answer are stutters, the rest carries a request out
  (`CreationServes`, `DeletionServes`). `Owned` is why a new request is about a
  block no other names (`OpenBlock`), `Apart` why a deletion ends one call only,
  and `NotSame` in `Matched` why a call that returns had its request carried out.

`DeviceRegistryProofs` proves of the registry, for any devices, variables and
clients, that it loses no device (`RegistryLosesNothing`) and that an open handle
belongs to a registered device (`RegistryKeepsOpen`). `Counted` says that the
open count is at least the number of variables that hold an open handle of it,
and `First` that the head of the list is the boot device, whose handle stays
open; so `RKDeviceUnRegister`, which drops the whole list with its head, is never
called on it.

`PlatformProofs` shows that the tasks of the firmware are such callers and such
clients: `PlatformUsesTasks` (`Spec => TMSpec`) and `PlatformUsesRegistry` (`Spec
=> DRSpec`), for any number of commands and blocks. The invariant is that a
task's `todo` consists of known operations (`TodoOK`) and that a variable holds
only handles of the device it is opened for, still open unless the device is one
of `Unbalanced` (`HandlesOK`). The five theorems that follow (`PlatformAnswers`,
`PlatformIntegrity`, `PlatformServes`, `PlatformLosesNothing`,
`PlatformKeepsOpen`) carry the properties of the parts to the whole.

`PlatformInvProofs` proves what depends on the tasks' programs, for any number of
commands and blocks:

* `PlatformInvariant`: `Spec => []IInv`;
* `PlatformIrqTask`: `IrqTaskWithCard`, just as the run checks it;
* `PlatformListsDue`, `PlatformCardReleased`, `PlatformDeletedOutside`: `ListsDue`,
  `CardReleased` and `DeletedOutside`, each as long as the service's calls are
  `Orderly`: no caller took another's answer, no task was deleted twice at once,
  FreeRTOS had memory for every task. In that case the other two causes, the
  first task of the list deleted and a task deleted while it waits, do not happen
  either.

None of the four is inductive: that `wifi.delete` ends with the card's devices gone
depends on what the shell did several operations earlier and on what nobody else
did since. `IInv` says where each task is and what it has asked for:

* `Scripts`: each task has only its own operations to do, and the device manager,
  the shell and the Wi-Fi task have the rest of a program to do, in which every
  operation determines the next (`Follow`);
* `RequestInv`: for every request under way, in the hands of its caller, in the
  queue or at the scheduler (`Asks`), its caller is the one that makes it and is
  at the operation after it (`CreateFits`, `DeleteFits`); `CallInv`: exactly the
  deletions of the HTTP and the WWD task are not waited for, these two ask for
  nothing but their own, and the Wi-Fi task is in a call of the service only while
  it brings Wi-Fi up;
* `WifiInv` and `BootInv`: there is at most one Wi-Fi task, it has come through its
  program when it is deleted, and the shell begins once;
* `WlanInv`: what `wlanInitialised`, `linkUp` and `wlanUp` say of where the Wi-Fi task
  and the shell are, so that the Wi-Fi task is not in a call when it is deleted, the
  bus is brought down whenever it is up, and without an error;
* `DevOpInv`: `osDeviceReqSem` is held by the device manager exactly between the
  two ends of a creation, by the shell exactly between those of a deletion;
* `IrqInv`: the interrupt task exists only inside the card's device, and when its
  creation is asked for there is none;
* `CardInv`: how far the release of the card is (`Stage`) and which handles and
  devices are gone by then; each of the two devices has one variable, so that an
  empty variable means an open count of 0 and the deletion is not refused; and the
  card is registered only while its controller is open, also after an error.

`CardReleased` says both what the way through `host_platform_bus_deinit` achieves (both
devices deleted, `WLAN_DOWN`, before lwIP's thread is stopped) and what is true at the
end of every way, the early returns included: the bus is down and nobody has the card
open. That the devices are gone is not true of the early returns.

The proof treats a step by what it leaves alone. A step that is no call of the task
service cannot touch requests of others (`SameRequests`), and its own task has none
(`Quiet`, from `Matched`); `Elsewhere` disposes of the player, the HTTP and WWD tasks
and the scheduler's devices. A step of the task service on which a request only moves
(`RequestsMove`) changes nothing else; what remains are the two calls that make a
request and the two steps that carry one out. `ListsDue` is carried as a sum over
the shell and the Wi-Fi task, the only ones that wait (`WaitCount`).

Without `Orderly` this argument breaks: a caller that took another's answer goes on
while its own request is still under way, so the operation after a request is no
longer where its caller is, and a block freed twice belongs to nobody. The run
checks `ListsDue`, `CardReleased` and `DeletedOutside` under the weaker condition
that no task is deleted twice.

Assumptions: `TaskAssumption`, `DeviceAssumption` and `PlatformAssumption` (the
names of the firmware's tasks, devices and variables, and that `NULL` is none of
the two results of an answer; any number of blocks and commands), `CapacityAssumption` and `InputAssumption` of
`FifoDevice`, and `SizeAssumption`, `CodecAssumption`, `BackendAssumption`,
`OvertakeAssumption` of `FileBuffer`, evaluated by TLC in every run.

*Only model-checked*: `CallReturns`, `RequestReturns`, `CallsReturn` and
`HandshakesReturn` (liveness under fairness is outside the prover's reach); and
`ListsDue`, `CardReleased` and `DeletedOutside` of `Platform` in behaviours where
an answer was taken by the wrong caller or a task could not be created.

## 6. Not modelled

In the streaming part: `AudioFileEof2`, SEEK_END (no codec path uses it with
these buffers), file writing while recording, the second and third file handle of
AAC and ALAC beyond the requests they make, and StreamControl's creation and
deletion. Disk errors in the middle of a file end in the
same `RK_ERROR` answer as its end.

In the FIFO: the ring in memory (`UseFile` = 0), wrapping and waiting for room (a
device of 200,000 KB is larger than a download, `CapacityAssumption`),
asynchronous reads and writes (no caller), the stop of a track and the next one
on the same device, deletion, and failures of network or memory in `GetFile`. A
file that arrives whole with the HTTP header is outside `InputAssumption`:
`GetFile` waits for another packet before it writes anything.

In a session: file lists and repeat modes (any track may follow), volume, fades,
equalizer and spectrum, play times and the arithmetic of a fast-forward step,
recording and encoding, suspend and resume, the FIFO's size when a download is
stopped. Two branches are left out because nothing in the code reaches them:
`AudioResume` after `AudioCodecOpenErr`, which is never set, and the early return of
`AudioFFD` and `AudioFFW` when `AudioPlayerState` is STOP, which it never is. What happens after a mishap is not modelled.

In the services: the argument block of a task (`RK_TASK_ARG`), code overlays,
suspend and resume of tasks and devices, `RK_DevToCompetence` and the access
modes in a handle's low bits, the drivers themselves (but for SDIO's interrupt
task), the device lists that no call of the shipped configuration asks for, and
the main task and GUI, which it does not create.

The mailbox driver (the streaming path writes the registers directly), the FAT
volume, power manager, overlays, kernel and vendored code are left out as
`PROJECT.json` says under "components".
