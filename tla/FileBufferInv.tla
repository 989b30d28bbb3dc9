---------------------------- MODULE FileBufferInv ----------------------------
(***************************************************************************)
(* The inductive invariant of FileBuffer.  The properties it gives (at     *)
(* most one request, the window of the buffers on the file, the sequential *)
(* file a codec sees) say nothing of the steps in the middle of a call;    *)
(* the invariant describes those too, one conjunct per kind of fact.       *)
(***************************************************************************)
EXTENDS FileBuffer

SyncReads == {"switchWait", "initWait", "changeWait"}
SyncSeeks == {"seekWait", "changeSeekWait"}

\* What a call's argument is at each point of it.
ArgInv ==
  /\ pc \in {"read", "switch", "switchWait", "tell"} => arg \in Words
  /\ pc = "seek" => call \in {"SEEK_SET", "SEEK_CUR"} /\ arg \in -FileLen .. FileLen
  /\ pc = "seek" /\ call = "SEEK_SET" => arg \in 0 .. FileLen - 1
  /\ pc = "seek" /\ call = "SEEK_CUR" => want + arg \in 0 .. FileLen - 1
  /\ pc \in {"seekWait", "initWait"} => arg \in 0 .. Sector - 1
  /\ pc \in {"change", "changeSeekWait", "changeWait"} => call = "change"
  /\ pc \notin {"main", "tell"} => call # "tell"

\* Phases, buffer sizes and the two buffer indices.
PhaseInv ==
  /\ pc # "main" => phase # "closed"
  /\ phase = "closed" => ~busy /\ ~tail /\ want = 0 /\ aPos = 0
  /\ pc \in {"change", "changeSeekWait", "changeWait"} => phase = "codec"
  /\ phase # "play" /\ pc \notin {"changeSeekWait", "changeWait"} => pipo = OpenPipo
  /\ phase # "closed" /\ pc # "initWait" => wr = 1 - rd
  /\ pc = "initWait" => rd = 0

Unserved == InMailbox \/ InSlot \/ InService

\* The command of the request under way, if there is one.
Kind == IF pc \in SyncSeeks THEN "SEEK" ELSE "READ"

\* The hand-shake between the cores.
LinkInv ==
  /\ OneRequest
  /\ fill => ~busy
  /\ InMailbox => b2a = Kind
  /\ InSlot \/ InService => slot = Kind
  /\ Answered => a2b.cmd = Kind
  /\ Unserved /\ Kind = "READ" => readParam.num = pipo
  /\ busy => ~bypass /\ pc \notin AnswerWaits /\ readParam.buf = wr
  /\ pc \in SyncReads => bypass
  /\ pc = "input" => ~busy /\ ~fill
  /\ pc = "inputStore" => busy

\* The length the last answer carries, on its way or taken.
Got == IF Answered THEN a2b.data ELSE gData

\* A read into buffer b that starts at offset o, served or not yet.
ReadFrom(b, o) ==
  IF Unserved
    THEN readParam.buf = b /\ aPos = o
    ELSE /\ content[b].from = o /\ content[b].len = Got
         /\ Got \in 1 .. pipo
         /\ aPos = o + Got
         /\ readParam.num = aPos

\* A seek to offset o, served or not yet.
SeekTo(o) == seekParam = o /\ (~Unserved => aPos = o)

\* Where the codec is in the read buffer (a switch has cleared pos already).
InRead == IF pc = "switch" THEN size[rd] ELSE pos

Settled == {"main", "read", "tell", "seek", "change", "input", "inputStore", "switch"}

\* Before storage has reported the end of the file, it is at a sector boundary
\* or at the end, and it reports where it is.
StorageInv ==
  ~tail => /\ aOff = aPos /\ aPos <= FileLen
           /\ aPos % Sector = 0 \/ aPos = FileLen

\* The buffers are a window on the file, ...
IsWindow ==
  /\ content[rd].from + InRead = want
  /\ InRead <= size[rd]
  /\ size[rd] \in 1 .. pipo /\ content[rd].len = size[rd]
  /\ curOff = content[rd].from + size[rd] + size[wr]
  /\ IF busy
       THEN size[wr] = 0 /\ ReadFrom(wr, curOff)
       ELSE /\ aPos = curOff
            /\ fill \/ pc = "input" => size[wr] = 0
            /\ size[wr] # 0 => /\ content[wr].from = content[rd].from + size[rd]
                               /\ content[wr].len = size[wr]
                               /\ size[wr] \in 1 .. pipo

\* ... between calls and wherever a call waits for nothing but a prefetch.
WindowInv == ~tail /\ phase # "closed" /\ pc \in Settled => IsWindow

\* The synchronous read of a switch.
SwitchInv ==
  ~tail /\ pc = "switchWait" =>
    /\ size[rd] = 0 /\ size[wr] = 0 /\ pos = 0 /\ ~busy
    /\ ReadFrom(rd, want)

\* The buffers are starting over at the sector of the wanted byte.
RestartInv ==
  ~tail /\ pc \in {"seekWait", "initWait"} =>
    /\ want \in 0 .. FileLen - 1
    /\ pc = "seekWait" => SeekTo(want - arg)
    /\ pc = "initWait" => /\ pos = 0
                          /\ ReadFrom(0, want - arg) /\ (~Unserved => arg <= Got)

\* The read buffer is being read again with the playing size.
ChangeInv ==
  ~tail /\ pc \in {"changeSeekWait", "changeWait"} =>
    /\ pos \in 0 .. OpenPipo
    /\ want \in 0 .. FileLen
    /\ want - pos \in 0 .. FileLen - 1
    /\ pc = "changeSeekWait" => SeekTo(want - pos)
    /\ pc = "changeWait" => ReadFrom(rd, want - pos) /\ (~Unserved => pos <= Got)

\* What holds whether or not the end was reported: buffers hold whole sectors
\* from a sector boundary, seeks go to one before the end, and SEEK_SET knows
\* where it goes.
SectorInv ==
  /\ \A b \in 0 .. 1: content[b].from % Sector = 0
  /\ pc = "seekWait" => seekParam % Sector = 0
  /\ pc = "changeSeekWait" /\ ~tail => seekParam % Sector = 0
  /\ pc = "seekWait" /\ call = "SEEK_SET" =>
       seekParam = want - arg /\ want \in 0 .. FileLen - 1

\* An empty second buffer is never forgotten: a read answers at least a byte or
\* an error, and whatever empties a buffer asks for it to be filled.
FillInv ==
  /\ Answered /\ a2b.cmd = "READ" => a2b.data # 0
  /\ phase # "closed" /\ pc \notin AnswerWaits /\ size[wr] = 0 =>
       fill \/ busy \/ pc = "input"

\* What AudioFileTell2 has read so far, and what it has returned.
TellInv ==
  ~tail =>
    /\ pc = "tell" => \/ arg = curOff
                      \/ ~busy /\ arg = curOff - size[wr]
    /\ pc = "main" /\ call = "tell" => \/ arg = want
                                       \/ ~busy /\ arg = Wrap(want - size[wr])

\* The inductive invariant: what every step of the two cores preserves, in the
\* middle of a call too.
IInv ==
  /\ TypeOK /\ ArgInv /\ PhaseInv /\ LinkInv /\ SectorInv /\ FillInv
  /\ StorageInv /\ WindowInv /\ SwitchInv /\ RestartInv /\ ChangeInv /\ TellInv
=============================================================================
