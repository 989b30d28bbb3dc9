-------------------------- MODULE FileBufferSteps ---------------------------
(*****************************************************************************)
(* Every step keeps the part of FileBuffer's invariant that is not about the *)
(* bytes of the file: types, arguments, phases, and the hand-shake between   *)
(* the cores.  The proofs have one step per action that can disturb the part,*)
(* and one for each group of actions that plainly cannot.                    *)
(*****************************************************************************)
EXTENDS FileBufferInv, TLAPS

(* Arithmetic *)

\* What the assumptions say of the constants.
LEMMA WordFacts ==
  /\ FileLen \in Nat /\ FileLen > 0 /\ Word \in Nat
  /\ PlayPipo \in Nat /\ PlayPipo >= Sector /\ PlayPipo % Sector = 0
  /\ Sector = 512 /\ OpenPipo = 512
  /\ FileLen + 2 * PlayPipo + 2 * Sector < Word
  /\ PastEnd \in Nat
BY SizeAssumption, CodecAssumption DEF Sector, OpenPipo

\* A sum or difference of two words wraps into a word, and a word stays itself.
LEMMA WrapWord ==
  /\ \A x \in -Word .. 2 * Word - 1: Wrap(x) \in Words
  /\ \A x \in Words: Wrap(x) = x
BY WordFacts DEF Wrap, Words

\* The number of buffered bytes and the offset of the first are words.
LEMMA BufferWords ==
  ASSUME IInv
  PROVE  Buffered \in Words /\ FileBuffStart \in Words
<1>1. size[0] \in Words /\ size[1] \in Words /\ curOff \in Words
  BY DEF IInv, TypeOK, BufferType, SharedType
<1>2. Buffered \in Words
  BY <1>1, WordFacts DEF Buffered, Wrap, Words
<1>3. FileBuffStart \in Words
  BY <1>1, <1>2, WordFacts DEF FileBuffStart, Wrap, Words
<1> QED
  BY <1>2, <1>3

\* So are the two offsets AudioFileSeek2 computes.
LEMMA SeekWords ==
  ASSUME IInv, pc = "seek"
  PROVE  SeekTemp \in Words /\ SeekTarget \in Words
<1>1. /\ Buffered \in Words /\ FileBuffStart \in Words /\ pos \in Words
      /\ call = "SEEK_SET" => arg \in 0 .. FileLen - 1
      /\ arg \in -FileLen .. FileLen
  BY BufferWords DEF IInv, TypeOK, BufferType, ArgInv
<1>2. SeekTemp \in Words
  BY <1>1, WordFacts DEF SeekTemp, Wrap, Words
<1>3. SeekTarget \in Words
  BY <1>1, <1>2, WordFacts DEF SeekTarget, Wrap, Words
<1> QED
  BY <1>2, <1>3

\* The sector a byte is in starts at or before it.
LEMMA SectorStartFacts ==
  \A x \in Nat: /\ SectorStart(x) \in 0 .. x
                /\ SectorStart(x) % Sector = 0
                /\ x - SectorStart(x) = x % Sector
                /\ x % Sector \in 0 .. Sector - 1
BY DEF SectorStart, Sector

-----------------------------------------------------------------------------
(* What the invariant says at a glance *)

\* The types, as the arithmetic of the later proofs wants them.
LEMMA TypeFacts ==
  ASSUME IInv
  PROVE  /\ pos \in Nat /\ rd \in 0 .. 1 /\ wr \in 0 .. 1 /\ size \in [0 .. 1 -> Nat]
         /\ pipo \in {512, PlayPipo} /\ pipo \in Nat /\ pipo >= 512 /\ pipo % Sector = 0
         /\ gData \in Nat /\ curOff \in Nat /\ seekParam \in Nat
         /\ readParam \in [num: Nat, buf: 0 .. 1]
         /\ a2b \in [cmd: Commands \cup {None}, data: Nat]
         /\ aPos \in Nat /\ aOff \in Nat
         /\ content \in [0 .. 1 -> [from: Nat, len: Nat]]
         /\ want \in Int /\ arg \in Int
<1>1. /\ pos \in Words /\ rd \in 0 .. 1 /\ wr \in 0 .. 1 /\ size \in [0 .. 1 -> Words]
      /\ pipo \in {512, PlayPipo}
      /\ gData \in Words /\ curOff \in Words /\ seekParam \in Words
      /\ readParam \in [num: Words, buf: 0 .. 1]
      /\ a2b \in [cmd: Commands \cup {None}, data: Words]
      /\ aPos \in Words /\ aOff \in Words
      /\ content \in [0 .. 1 -> [from: Words, len: Words]]
      /\ want \in Int /\ arg \in Int
  BY DEF IInv, TypeOK, MainType, BufferType, SharedType, LinkType, CoreAType,
         HistoryType, OpenPipo
<1>2. \A w \in Words: w \in Nat
  BY DEF Words
<1>3. /\ size \in [0 .. 1 -> Nat] /\ readParam \in [num: Nat, buf: 0 .. 1]
      /\ content \in [0 .. 1 -> [from: Nat, len: Nat]]
      /\ a2b \in [cmd: Commands \cup {None}, data: Nat]
  BY <1>1, <1>2
<1>4. pipo \in Nat /\ pipo >= 512 /\ pipo % Sector = 0
  BY <1>1, WordFacts
<1> QED
  BY <1>1, <1>2, <1>3, <1>4

\* With no prefetch under way and no answer awaited, nothing is between the cores.
LEMMA Quiet ==
  ASSUME IInv, ~busy, pc \notin AnswerWaits \/ cmdDone
  PROVE  ~Unserved /\ ~Answered /\ Got = gData
BY DEF IInv, LinkInv, OneRequest, Outstanding, Unserved, Got

\* A wait that ends leaves nothing between the cores and the answer in gData.
LEMMA Taken ==
  ASSUME IInv, pc \in AnswerWaits, cmdDone
  PROVE  ~busy /\ ~Unserved /\ ~Answered /\ Got = gData
<1>1. ~busy
  BY DEF IInv, LinkInv
<1> QED
  BY <1>1, Quiet

\* What StreamControl serves is what the B core waits for or prefetches.
LEMMA Serving ==
  ASSUME IInv, apc = "serve"
  PROVE  /\ Unserved /\ ~Answered /\ slot = Kind
         /\ Kind = "READ" => readParam.num = pipo
         /\ pc \notin AnswerWaits => busy
BY DEF IInv, LinkInv, OneRequest, Outstanding, Unserved, InService

\* What MailBoxFileService takes is the answer to it.
LEMMA Answering ==
  ASSUME IInv, a2b.cmd # None
  PROVE  /\ ~Unserved /\ a2b.cmd = Kind /\ Got = a2b.data
         /\ pc \notin AnswerWaits => busy
BY DEF IInv, LinkInv, OneRequest, Outstanding, Unserved, Answered, Got

-----------------------------------------------------------------------------
(* Types *)

\* The main thread's place, call and argument keep their types.
LEMMA MainStepType == IInv /\ [Next]_vars => MainType'
<1> SUFFICES ASSUME IInv, [Next]_vars PROVE MainType'
  OBVIOUS
<1> USE WordFacts DEF IInv, TypeOK, MainType, Waits, AnswerWaits, None,
        mainVars, bufVars, isrVars, linkVars, coreAVars, history
<1>1. CASE FuncInit
  BY <1>1 DEF FuncInit, BufferInit, HifiFileRead, SendCmd, Goto
<1>2. CASE InitDone
  BY <1>2 DEF InitDone, At, Goto
<1>3. CASE CodecCalls
  BY <1>3, CodecAssumption DEF CodecCalls, CodecCall, Tell, Read, SeekSet, SeekCur,
     Goto, SharedType, Words
<1>4. CASE TellDone
  BY <1>4, WrapWord DEF TellDone, At, Goto, ArgInv, SharedType, BufferType, Words,
     Buffered, Wrap
<1>5. CASE ReadPart
  BY <1>5 DEF ReadPart, At, Goto, Copy, BufferType, Words
<1>6. CASE ReadRest
  BY <1>6 DEF ReadRest, At, Goto, Copy, BufferType, Words, Remain, Wrap
<1>7. CASE Switch
  BY <1>7 DEF Switch, At, Goto, Swap, Resume
<1>8. CASE SwitchDone
  BY <1>8 DEF SwitchDone, At, Goto, Resume
<1>9. CASE SeekInBuffer
  BY <1>9 DEF SeekInBuffer, At, Goto, NowWanted
<1>10. CASE SeekInOther
  BY <1>10 DEF SeekInOther, At, Goto, Swap, NowWanted
<1>11. CASE SeekFar
  BY <1>11, SeekWords DEF SeekFar, At, Goto, HifiFileSeek, SendCmd, NowWanted, Words
<1>12. CASE SeekRestart
  BY <1>12 DEF SeekRestart, At, BufferInit, HifiFileRead, SendCmd, Goto
<1>13. CASE AnswerIsr
  BY <1>13 DEF AnswerIsr, Answer
<1>14. CASE WaitTest \/ WaitSleep \/ OtherInterrupt \/ DecOpen \/ KeepBuf \/ ChangeBuf \/
     ChangeSeek \/ ChangeRead
  BY <1>14 DEF WaitTest, WaitSleep, OtherInterrupt, DecOpen, KeepBuf, ChangeBuf,
     Goto, ChangeSeek, At, HifiFileSeek, SendCmd, ChangeRead, HifiFileRead
<1>15. CASE ChangeDone \/ FillBuffer \/ Input \/ InputStore \/ SwitchEmpty \/ StreamIsr \/
     StreamTake \/ ServeSeek
  BY <1>15 DEF ChangeDone, At, Goto, FillBuffer, Input, HifiFileRead, SendCmd,
     InputStore, SwitchEmpty, Swap, StreamIsr, StreamTake, ServeSeek, Reply
<1>16. CASE ServeReadSome \/ ServeReadEnd
  BY <1>16 DEF ServeReadSome, Reply, ServeReadEnd
<1>17. CASE UNCHANGED vars
  BY <1>17 DEF vars
<1> QED
  BY <1>1, <1>2, <1>3, <1>4, <1>5, <1>6, <1>7, <1>8, <1>9, <1>10, <1>11, <1>12,
     <1>13, <1>14, <1>15, <1>16, <1>17 DEF Next, Calls, MainStep, Serve

\* The buffer state keeps its type: AudioFileBufPos2 and the sizes stay words.
LEMMA BufferStepType == IInv /\ [Next]_vars => BufferType'
<1> SUFFICES ASSUME IInv, [Next]_vars PROVE BufferType'
  OBVIOUS
<1> USE WordFacts DEF IInv, TypeOK, BufferType, mainVars, bufVars, isrVars,
        linkVars, coreAVars, history
<1>1. CASE FuncInit
  BY <1>1 DEF FuncInit, BufferInit, HifiFileRead, SendCmd, Goto, Words, Sector
<1>2. CASE InitDone
  <2>1. /\ gData \in Words /\ arg \in 0 .. Sector - 1
        /\ rd' = rd /\ pipo' = pipo /\ wr' = 1 /\ fill' = TRUE
    BY <1>2 DEF InitDone, At, SharedType, ArgInv
  <2>2. pos' \in Words
    BY <1>2, <2>1 DEF InitDone, Wrap, Words
  <2>3. size' \in [0 .. 1 -> Words]
    BY <1>2, <2>1 DEF InitDone, Words
  <2> QED
    BY <2>1, <2>2, <2>3
<1>3. CASE ChangeDone
  <2>1. /\ gData \in Words
        /\ rd' = rd /\ pipo' = pipo /\ wr' = wr /\ pos' = pos /\ fill' = TRUE
    BY <1>3 DEF ChangeDone, SharedType
  <2>2. size' \in [0 .. 1 -> Words]
    BY <1>3, <2>1 DEF ChangeDone, Words
  <2> QED
    BY <2>1, <2>2
<1>4. CASE FillBuffer
  BY <1>4 DEF FillBuffer, Goto
<1>5. CASE InputStore
  BY <1>5 DEF InputStore, At, Goto, Words
<1>6. CASE ReadPart
  BY <1>6 DEF ReadPart, At, Goto, Copy, Words, Remain, Wrap, ArgInv, MainType
<1>7. CASE ReadRest
  BY <1>7 DEF ReadRest, At, Goto, Copy, Words
<1>8. CASE Switch
  BY <1>8 DEF Switch, At, Goto, Swap, Resume, Words
<1>9. CASE SwitchEmpty
  BY <1>9 DEF SwitchEmpty, At, Goto, Swap, HifiFileRead, SendCmd, Words
<1>10. CASE SwitchDone
  BY <1>10 DEF SwitchDone, At, Goto, Resume, SharedType
<1>11. CASE SeekInBuffer
  BY <1>11, SeekWords DEF SeekInBuffer, At, Goto, NowWanted
<1>12. CASE SeekInOther
  <2>1. SeekTemp \in Words /\ size[rd] \in Words
    BY <1>12, SeekWords DEF SeekInOther, At
  <2>2. pos' \in Words
    BY <1>12, <2>1 DEF SeekInOther, Wrap, Words
  <2>3. /\ size' \in [0 .. 1 -> Words] /\ rd' \in 0 .. 1 /\ wr' \in 0 .. 1
        /\ pipo' = pipo /\ fill' = TRUE
    BY <1>12 DEF SeekInOther, Swap, Words
  <2> QED
    BY <2>2, <2>3
<1>13. CASE SeekRestart
  BY <1>13 DEF SeekRestart, At, BufferInit, HifiFileRead, SendCmd, Goto, Words
<1>14. CASE AnswerIsr
  BY <1>14 DEF AnswerIsr, Answer, LinkType
<1>15. CASE WaitTest \/ WaitSleep \/ OtherInterrupt \/ DecOpen \/ KeepBuf \/ ChangeBuf \/
     ChangeSeek \/ ChangeRead
  BY <1>15 DEF WaitTest, WaitSleep, OtherInterrupt, DecOpen, KeepBuf, ChangeBuf,
     Goto, ChangeSeek, At, HifiFileSeek, SendCmd, ChangeRead, HifiFileRead
<1>16. CASE Input \/ CodecCalls \/ TellDone \/ SeekFar \/ StreamIsr \/ StreamTake \/
     ServeSeek \/ ServeReadSome
  BY <1>16 DEF Input, At, Goto, HifiFileRead, SendCmd, CodecCalls, CodecCall, Tell,
     Read, SeekSet, SeekCur, TellDone, SeekFar, HifiFileSeek, NowWanted, StreamIsr,
     StreamTake, ServeSeek, Reply, ServeReadSome
<1>17. CASE ServeReadEnd
  BY <1>17 DEF ServeReadEnd, Reply
<1>18. CASE UNCHANGED vars
  BY <1>18 DEF vars
<1> QED
  BY <1>1, <1>2, <1>3, <1>4, <1>5, <1>6, <1>7, <1>8, <1>9, <1>10, <1>11, <1>12,
     <1>13, <1>14, <1>15, <1>16, <1>17, <1>18 DEF Next, Calls, MainStep, Serve

\* What the interrupt shares with the main thread keeps its type.
LEMMA SharedStepType == IInv /\ [Next]_vars => SharedType'
<1> SUFFICES ASSUME IInv, [Next]_vars PROVE SharedType'
  OBVIOUS
<1> USE WordFacts DEF IInv, TypeOK, SharedType, mainVars, bufVars, isrVars,
        linkVars, coreAVars, history
<1>1. CASE InitDone
  BY <1>1 DEF InitDone, At, Goto, LinkType
<1>2. CASE ChangeRead
  BY <1>2 DEF ChangeRead, At, Goto, HifiFileRead, SendCmd, LinkType
<1>3. CASE ChangeDone
  BY <1>3 DEF ChangeDone, At, Goto, LinkType
<1>4. CASE FillBuffer
  BY <1>4 DEF FillBuffer, Goto
<1>5. CASE Input
  BY <1>5 DEF Input, At, Goto, HifiFileRead, SendCmd
<1>6. CASE SwitchDone
  BY <1>6 DEF SwitchDone, At, Goto, Resume, LinkType
<1>7. CASE SeekRestart
  BY <1>7 DEF SeekRestart, At, BufferInit, HifiFileRead, SendCmd, Goto, LinkType
<1>8. CASE AnswerIsr
  <2>1. gData' \in Words /\ cmdDone' = TRUE /\ bypass' = bypass
    BY <1>8 DEF AnswerIsr, LinkType
  <2>2. CASE a2b.cmd = "READ" /\ ~bypass
    <3>1. curOff' = readParam.num /\ busy' = FALSE
      BY <1>8, <2>2 DEF AnswerIsr
    <3> QED
      BY <2>1, <3>1 DEF LinkType
  <2>3. CASE ~(a2b.cmd = "READ" /\ ~bypass)
    <3>1. curOff' = curOff /\ busy' = busy
      BY <1>8, <2>3 DEF AnswerIsr
    <3> QED
      BY <2>1, <3>1
  <2> QED
    BY <2>2, <2>3
<1>9. CASE ServeSeek
  BY <1>9 DEF ServeSeek, Reply
<1>10. CASE WaitTest \/ WaitSleep \/ OtherInterrupt \/ FuncInit \/ DecOpen \/ KeepBuf \/
     ChangeBuf \/ ChangeSeek
  BY <1>10 DEF WaitTest, WaitSleep, OtherInterrupt, FuncInit, BufferInit,
     HifiFileRead, SendCmd, Goto, DecOpen, KeepBuf, ChangeBuf, ChangeSeek, At,
     HifiFileSeek
<1>11. CASE InputStore \/ CodecCalls \/ TellDone \/ ReadPart \/ ReadRest \/ Switch \/
     SwitchEmpty \/ SeekInBuffer
  BY <1>11 DEF InputStore, At, Goto, CodecCalls, CodecCall, Tell, Read, SeekSet,
     SeekCur, TellDone, ReadPart, Copy, ReadRest, Switch, Swap, Resume, SwitchEmpty,
     HifiFileRead, SendCmd, SeekInBuffer, NowWanted
<1>12. CASE SeekInOther \/ SeekFar \/ StreamIsr \/ StreamTake \/ ServeReadSome \/
     ServeReadEnd
  BY <1>12 DEF SeekInOther, At, Goto, Swap, NowWanted, SeekFar, HifiFileSeek,
     SendCmd, StreamIsr, StreamTake, ServeReadSome, Reply, ServeReadEnd
<1>13. CASE UNCHANGED vars
  BY <1>13 DEF vars
<1> QED
  BY <1>1, <1>2, <1>3, <1>4, <1>5, <1>6, <1>7, <1>8, <1>9, <1>10, <1>11, <1>12,
     <1>13 DEF Next, Calls, MainStep, Serve

\* What the cores share keeps its type.
LEMMA LinkStepType == IInv /\ [Next]_vars => LinkType'
<1> SUFFICES ASSUME IInv, [Next]_vars PROVE LinkType'
  OBVIOUS
<1> USE WordFacts DEF IInv, TypeOK, LinkType, Commands, None, Answer,
        mainVars, bufVars, isrVars, linkVars, coreAVars, history
<1>1. CASE FuncInit
  BY <1>1 DEF FuncInit, BufferInit, HifiFileRead, SendCmd, Goto, Words
<1>2. CASE ChangeSeek
  BY <1>2 DEF ChangeSeek, At, Goto, HifiFileSeek, SendCmd, Words, Wrap, BufferType,
     SharedType
<1>3. CASE ChangeRead
  BY <1>3 DEF ChangeRead, At, Goto, HifiFileRead, SendCmd, BufferType, Words
<1>4. CASE Input
  BY <1>4 DEF Input, At, Goto, HifiFileRead, SendCmd, BufferType, Words
<1>5. CASE SwitchEmpty
  BY <1>5 DEF SwitchEmpty, At, Goto, Swap, HifiFileRead, SendCmd, BufferType, Words
<1>6. CASE SeekFar
  <2>1. SeekTarget \in Words
    BY <1>6, SeekWords DEF SeekFar, At
  <2>2. SectorStart(SeekTarget) \in Words
    <3>1. SeekTarget \in Nat /\ SeekTarget < Word
      BY <2>1 DEF Words
    <3>2. SectorStart(SeekTarget) \in 0 .. SeekTarget
      BY <3>1, SectorStartFacts
    <3> QED
      BY <3>1, <3>2 DEF Words
  <2>3. seekParam' = SectorStart(SeekTarget) /\ b2a' = "SEEK"
        /\ readParam' = readParam /\ a2b' = a2b
    BY <1>6 DEF SeekFar, HifiFileSeek, SendCmd
  <2> QED
    BY <2>2, <2>3
<1>7. CASE SeekRestart
  BY <1>7 DEF SeekRestart, At, BufferInit, HifiFileRead, SendCmd, Goto, BufferType,
     Words
<1>8. CASE AnswerIsr
  BY <1>8 DEF AnswerIsr, Words
<1>9. CASE ServeSeek
  BY <1>9 DEF ServeSeek, Reply, Words
<1>10. CASE ServeReadSome
  BY <1>10 DEF ServeReadSome, Reply, CoreAType, Words, Wrap, Available
<1>11. CASE ServeReadEnd
  BY <1>11 DEF ServeReadEnd, Reply, CoreAType, Words, Wrap, RK_ERROR
<1>12. CASE WaitTest \/ WaitSleep \/ OtherInterrupt \/ InitDone \/ DecOpen \/ KeepBuf \/
     ChangeBuf \/ ChangeDone
  BY <1>12 DEF WaitTest, WaitSleep, OtherInterrupt, InitDone, At, Goto, DecOpen,
     KeepBuf, ChangeBuf, ChangeDone
<1>13. CASE FillBuffer \/ InputStore \/ CodecCalls \/ TellDone \/ ReadPart \/ ReadRest \/
     Switch \/ SwitchDone
  BY <1>13 DEF FillBuffer, Goto, InputStore, At, CodecCalls, CodecCall, Tell, Read,
     SeekSet, SeekCur, TellDone, ReadPart, Copy, ReadRest, Switch, Swap, Resume,
     SwitchDone
<1>14. CASE SeekInBuffer \/ SeekInOther \/ StreamIsr \/ StreamTake
  BY <1>14 DEF SeekInBuffer, At, Goto, NowWanted, SeekInOther, Swap, StreamIsr,
     StreamTake
<1>15. CASE UNCHANGED vars
  BY <1>15 DEF vars
<1> QED
  BY <1>1, <1>2, <1>3, <1>4, <1>5, <1>6, <1>7, <1>8, <1>9, <1>10, <1>11, <1>12,
     <1>13, <1>14, <1>15 DEF Next, Calls, MainStep, Serve

\* The A core's state keeps its type.
LEMMA CoreAStepType == IInv /\ [Next]_vars => CoreAType'
<1> SUFFICES ASSUME IInv, [Next]_vars PROVE CoreAType'
  OBVIOUS
<1> USE WordFacts DEF IInv, TypeOK, CoreAType, mainVars, bufVars, isrVars,
        linkVars, coreAVars, history
<1>1. CASE SeekRestart
  BY <1>1 DEF SeekRestart, At, BufferInit, HifiFileRead, SendCmd, Goto
<1>2. CASE AnswerIsr
  BY <1>2 DEF AnswerIsr, Answer
<1>3. CASE StreamIsr
  BY <1>3 DEF StreamIsr, LinkType, None
<1>4. CASE StreamTake
  BY <1>4 DEF StreamTake
<1>5. CASE ServeSeek
  BY <1>5 DEF ServeSeek, Reply, LinkType
<1>6. CASE ServeReadSome
  BY <1>6, SectorStartFacts DEF ServeReadSome, Reply, LinkType, Words, Wrap,
     Available
<1>7. CASE ServeReadEnd
  BY <1>7 DEF ServeReadEnd, Reply, LinkType, Words, Wrap
<1>8. CASE WaitTest \/ WaitSleep \/ OtherInterrupt \/ FuncInit \/ InitDone \/ DecOpen \/
     KeepBuf \/ ChangeBuf
  BY <1>8 DEF WaitTest, WaitSleep, OtherInterrupt, FuncInit, BufferInit,
     HifiFileRead, SendCmd, Goto, InitDone, At, DecOpen, KeepBuf, ChangeBuf
<1>9. CASE ChangeSeek \/ ChangeRead \/ ChangeDone \/ FillBuffer \/ Input \/ InputStore \/
     CodecCalls \/ TellDone
  BY <1>9 DEF ChangeSeek, At, Goto, HifiFileSeek, SendCmd, ChangeRead, HifiFileRead,
     ChangeDone, FillBuffer, Input, InputStore, CodecCalls, CodecCall, Tell, Read,
     SeekSet, SeekCur, TellDone
<1>10. CASE ReadPart \/ ReadRest \/ Switch \/ SwitchEmpty \/ SwitchDone \/ SeekInBuffer \/
     SeekInOther \/ SeekFar
  BY <1>10 DEF ReadPart, At, Goto, Copy, ReadRest, Switch, Swap, Resume,
     SwitchEmpty, HifiFileRead, SendCmd, SwitchDone, SeekInBuffer, NowWanted,
     SeekInOther, SeekFar, HifiFileSeek
<1>11. CASE UNCHANGED vars
  BY <1>11 DEF vars
<1> QED
  BY <1>1, <1>2, <1>3, <1>4, <1>5, <1>6, <1>7, <1>8, <1>9, <1>10, <1>11 DEF Next,
     Calls, MainStep, Serve

\* The history variables keep their types.
LEMMA HistoryStepType == IInv /\ [Next]_vars => HistoryType'
<1> SUFFICES ASSUME IInv, [Next]_vars PROVE HistoryType'
  OBVIOUS
<1> USE WordFacts DEF IInv, TypeOK, HistoryType, mainVars, bufVars, isrVars,
        linkVars, coreAVars, history
<1>1. CASE CodecCalls
  BY <1>1, CodecAssumption DEF CodecCalls, CodecCall, Tell, Read, SeekSet, SeekCur,
     Goto
<1>2. CASE ReadPart
  BY <1>2 DEF ReadPart, At, Goto, Copy, Piece, MainType, BufferType, CoreAType,
     Words
<1>3. CASE ReadRest
  BY <1>3 DEF ReadRest, At, Goto, Copy, Piece, MainType, BufferType, CoreAType,
     Words, Remain, Wrap
<1>4. CASE SeekInBuffer
  BY <1>4 DEF SeekInBuffer, At, Goto, NowWanted, MainType
<1>5. CASE SeekInOther
  BY <1>5 DEF SeekInOther, At, Goto, Swap, NowWanted, MainType
<1>6. CASE SeekFar
  BY <1>6 DEF SeekFar, At, Goto, HifiFileSeek, SendCmd, NowWanted, MainType
<1>7. CASE ServeSeek
  <2>1. want' = want /\ chunk' = chunk
    BY <1>7 DEF ServeSeek
  <2>2. tail' \in BOOLEAN /\ past' \in 0 .. PastEnd
    <3>1. CASE call = "SEEK_SET"
      <4>1. tail' = FALSE /\ past' = 0
        BY <1>7, <3>1 DEF ServeSeek
      <4>2. past' \in 0 .. PastEnd
        BY <4>1
      <4> QED
        BY <4>1, <4>2
    <3>2. CASE call # "SEEK_SET"
      BY <1>7, <3>2 DEF ServeSeek
    <3> QED
      BY <3>1, <3>2
  <2> QED
    BY <2>1, <2>2
<1>8. CASE WaitTest \/ WaitSleep \/ OtherInterrupt \/ FuncInit \/ InitDone \/ DecOpen \/
     KeepBuf \/ ChangeBuf
  BY <1>8 DEF WaitTest, WaitSleep, OtherInterrupt, FuncInit, BufferInit,
     HifiFileRead, SendCmd, Goto, InitDone, At, DecOpen, KeepBuf, ChangeBuf
<1>9. CASE ChangeSeek \/ ChangeRead \/ ChangeDone \/ FillBuffer \/ Input \/ InputStore \/
     TellDone \/ Switch
  BY <1>9 DEF ChangeSeek, At, Goto, HifiFileSeek, SendCmd, ChangeRead, HifiFileRead,
     ChangeDone, FillBuffer, Input, InputStore, TellDone, Switch, Swap, Resume
<1>10. CASE SwitchEmpty \/ SwitchDone \/ SeekRestart \/ AnswerIsr \/ StreamIsr \/
     StreamTake \/ ServeReadSome \/ ServeReadEnd
  BY <1>10 DEF SwitchEmpty, At, Goto, Swap, HifiFileRead, SendCmd, SwitchDone,
     Resume, SeekRestart, BufferInit, AnswerIsr, Answer, StreamIsr, StreamTake,
     ServeReadSome, Reply, ServeReadEnd
<1>11. CASE UNCHANGED vars
  BY <1>11 DEF vars
<1> QED
  BY <1>1, <1>2, <1>3, <1>4, <1>5, <1>6, <1>7, <1>8, <1>9, <1>10, <1>11 DEF Next,
     Calls, MainStep, Serve

-----------------------------------------------------------------------------
(* Arguments, phases and the hand-shake *)

\* A call's argument stays what it should be at each point of the call.
LEMMA ArgStep == IInv /\ [Next]_vars => ArgInv'
<1> SUFFICES ASSUME IInv, [Next]_vars PROVE ArgInv'
  OBVIOUS
<1> USE WordFacts DEF IInv, ArgInv, mainVars, bufVars, isrVars, linkVars,
        coreAVars, history
<1>1. CASE FuncInit
  BY <1>1 DEF FuncInit, BufferInit, HifiFileRead, SendCmd, Goto
<1>2. CASE InitDone
  BY <1>2 DEF InitDone, At, Goto
<1>3. CASE CodecCalls
  BY <1>3, CodecAssumption DEF CodecCalls, CodecCall, Tell, Read, SeekSet, SeekCur,
     Goto, TypeOK, SharedType, Words
<1>4. CASE TellDone
  BY <1>4 DEF TellDone, At, Goto
<1>5. CASE ReadPart
  BY <1>5 DEF ReadPart, At, Goto, Copy, TypeOK, BufferType, Words, MainType
<1>6. CASE ReadRest
  BY <1>6 DEF ReadRest, At, Goto, Copy, TypeOK, BufferType, Words, Remain, Wrap
<1>7. CASE Switch
  BY <1>7 DEF Switch, At, Goto, Swap, Resume
<1>8. CASE SwitchEmpty
  BY <1>8 DEF SwitchEmpty, At, Goto, Swap, HifiFileRead, SendCmd
<1>9. CASE SwitchDone
  BY <1>9 DEF SwitchDone, At, Goto, Resume
<1>10. CASE SeekInBuffer
  BY <1>10 DEF SeekInBuffer, At, Goto, NowWanted
<1>11. CASE SeekInOther
  BY <1>11 DEF SeekInOther, At, Goto, Swap, NowWanted
<1>12. CASE SeekFar
  <2>1. pc' = "seekWait" /\ arg' = SeekTarget % Sector /\ pc = "seek"
        /\ call' = call
    BY <1>12 DEF SeekFar, At, Goto
  <2>2. SeekTarget \in Nat
    BY <2>1, SeekWords DEF Words
  <2> DEFINE t == SeekTarget
  <2>4. t \in Nat
    BY <2>2
  <2> HIDE DEF t
  <2>5. t % Sector \in 0 .. Sector - 1
    BY <2>4, WordFacts
  <2>3. arg' \in 0 .. Sector - 1
    BY <2>1, <2>5 DEF t
  <2> QED
    BY <2>1, <2>3
<1>13. CASE SeekRestart
  BY <1>13 DEF SeekRestart, At, BufferInit, HifiFileRead, SendCmd, Goto
<1>14. CASE WaitTest \/ WaitSleep \/ OtherInterrupt \/ DecOpen \/ KeepBuf \/ ChangeBuf \/
     ChangeSeek \/ ChangeRead
  BY <1>14 DEF WaitTest, WaitSleep, OtherInterrupt, DecOpen, KeepBuf, ChangeBuf,
     Goto, ChangeSeek, At, HifiFileSeek, SendCmd, ChangeRead, HifiFileRead
<1>15. CASE ChangeDone \/ FillBuffer \/ Input \/ InputStore \/ AnswerIsr \/ StreamIsr \/
     StreamTake \/ ServeSeek
  BY <1>15 DEF ChangeDone, At, Goto, FillBuffer, Input, HifiFileRead, SendCmd,
     InputStore, AnswerIsr, Answer, StreamIsr, StreamTake, ServeSeek, Reply
<1>16. CASE ServeReadSome \/ ServeReadEnd
  BY <1>16 DEF ServeReadSome, Reply, ServeReadEnd
<1>17. CASE UNCHANGED vars
  BY <1>17 DEF vars
<1> QED
  BY <1>1, <1>2, <1>3, <1>4, <1>5, <1>6, <1>7, <1>8, <1>9, <1>10, <1>11, <1>12,
     <1>13, <1>14, <1>15, <1>16, <1>17 DEF Next, Calls, MainStep, Serve

\* Phases, buffer sizes and indices stay in step.
LEMMA PhaseStep == IInv /\ [Next]_vars => PhaseInv'
<1> SUFFICES ASSUME IInv, [Next]_vars PROVE PhaseInv'
  OBVIOUS
<1> USE WordFacts DEF IInv, PhaseInv, mainVars, bufVars, isrVars, linkVars,
        coreAVars, history
<1>1. CASE FuncInit
  BY <1>1 DEF FuncInit, BufferInit, HifiFileRead, SendCmd, Goto
<1>2. CASE InitDone
  BY <1>2 DEF InitDone, At, Goto
<1>3. CASE ChangeBuf
  BY <1>3 DEF ChangeBuf, Goto
<1>4. CASE ChangeSeek
  BY <1>4 DEF ChangeSeek, At, Goto, HifiFileSeek, SendCmd
<1>5. CASE ChangeRead
  BY <1>5 DEF ChangeRead, At, Goto, HifiFileRead, SendCmd
<1>6. CASE ChangeDone
  BY <1>6 DEF ChangeDone, At, Goto
<1>7. CASE Input
  BY <1>7, LinkInv DEF Input, At, Goto, HifiFileRead, SendCmd
<1>8. CASE CodecCalls
  BY <1>8 DEF CodecCalls, CodecCall, Tell, Read, SeekSet, SeekCur, Goto
<1>9. CASE TellDone
  BY <1>9 DEF TellDone, At, Goto
<1>10. CASE ReadPart
  BY <1>10 DEF ReadPart, At, Goto, Copy
<1>11. CASE ReadRest
  BY <1>11 DEF ReadRest, At, Goto, Copy
<1>12. CASE Switch
  BY <1>12 DEF Switch, At, Goto, Swap, Resume, TypeOK, BufferType
<1>13. CASE SwitchEmpty
  BY <1>13 DEF SwitchEmpty, At, Goto, Swap, HifiFileRead, SendCmd, TypeOK,
     BufferType
<1>14. CASE SwitchDone
  BY <1>14 DEF SwitchDone, At, Goto, Resume
<1>15. CASE SeekInBuffer
  BY <1>15 DEF SeekInBuffer, At, Goto, NowWanted
<1>16. CASE SeekInOther
  BY <1>16 DEF SeekInOther, At, Goto, Swap, NowWanted, TypeOK, BufferType
<1>17. CASE SeekFar
  BY <1>17 DEF SeekFar, At, Goto, HifiFileSeek, SendCmd, NowWanted
<1>18. CASE SeekRestart
  BY <1>18 DEF SeekRestart, At, BufferInit, HifiFileRead, SendCmd, Goto
<1>19. CASE AnswerIsr
  BY <1>19 DEF AnswerIsr, Answer
<1>20. CASE ServeSeek
  BY <1>20 DEF ServeSeek, Reply, LinkInv, OneRequest, InService, Outstanding,
     AnswerWaits
<1>21. CASE ServeReadSome
  BY <1>21 DEF ServeReadSome, Reply, LinkInv, OneRequest, InService, Outstanding,
     AnswerWaits
<1>22. CASE ServeReadEnd
  BY <1>22 DEF ServeReadEnd, Reply, LinkInv, OneRequest, InService, Outstanding,
     AnswerWaits
<1>23. CASE WaitTest \/ WaitSleep \/ OtherInterrupt \/ DecOpen \/ KeepBuf \/ FillBuffer \/
     InputStore \/ StreamIsr
  BY <1>23 DEF WaitTest, WaitSleep, OtherInterrupt, DecOpen, KeepBuf, FillBuffer,
     Goto, InputStore, At, StreamIsr
<1>24. CASE StreamTake
  BY <1>24 DEF StreamTake
<1>25. CASE UNCHANGED vars
  BY <1>25 DEF vars
<1> QED
  BY <1>1, <1>2, <1>3, <1>4, <1>5, <1>6, <1>7, <1>8, <1>9, <1>10, <1>11, <1>12,
     <1>13, <1>14, <1>15, <1>16, <1>17, <1>18, <1>19, <1>20, <1>21, <1>22, <1>23,
     <1>24, <1>25 DEF Next, Calls, MainStep, Serve

\* The hand-shake between the cores: every action starts, passes on or ends the one
\* request under way, or leaves it alone.
LEMMA LinkStep == ~AnswerCanOvertake /\ IInv /\ [Next]_vars => LinkInv'
<1> SUFFICES ASSUME ~AnswerCanOvertake, IInv, [Next]_vars PROVE LinkInv'
  OBVIOUS
<1> USE DEF IInv, LinkInv, OneRequest, InMailbox, InSlot, InService,
        Answered, Outstanding, AnswerWaits, SyncReads, SyncSeeks, Unserved, Kind,
        None, Answer, mainVars, bufVars, isrVars, linkVars, coreAVars, history
<1>1. CASE FuncInit
  BY <1>1 DEF FuncInit, BufferInit, HifiFileRead, SendCmd, Goto, PhaseInv
<1>2. CASE InitDone
  BY <1>2 DEF InitDone, At, Goto, Ready, PhaseInv
<1>3. CASE ChangeBuf
  BY <1>3 DEF ChangeBuf, Goto
<1>4. CASE ChangeSeek
  BY <1>4 DEF ChangeSeek, At, Goto, HifiFileSeek, SendCmd, Ready
<1>5. CASE ChangeRead
  BY <1>5 DEF ChangeRead, At, Goto, HifiFileRead, SendCmd, Ready
<1>6. CASE ChangeDone
  BY <1>6 DEF ChangeDone, At, Goto, Ready
<1>7. CASE FillBuffer
  BY <1>7 DEF FillBuffer, Goto
<1>8. CASE Input
  BY <1>8 DEF Input, At, Goto, HifiFileRead, SendCmd, Ready
<1>9. CASE InputStore
  BY <1>9 DEF InputStore, At, Goto, Ready
<1>10. CASE CodecCalls
  BY <1>10 DEF CodecCalls, CodecCall, Tell, Read, SeekSet, SeekCur, Goto
<1>11. CASE TellDone
  BY <1>11 DEF TellDone, At, Goto, Ready
<1>12. CASE ReadPart
  BY <1>12 DEF ReadPart, At, Goto, Copy, Ready
<1>13. CASE ReadRest
  BY <1>13 DEF ReadRest, At, Goto, Copy, Ready
<1>14. CASE Switch
  BY <1>14 DEF Switch, At, Goto, Swap, Resume, Ready, PhaseInv
<1>15. CASE SwitchEmpty
  BY <1>15 DEF SwitchEmpty, At, Goto, Swap, HifiFileRead, SendCmd, Ready, PhaseInv
<1>16. CASE SwitchDone
  BY <1>16 DEF SwitchDone, At, Goto, Resume, Ready
<1>17. CASE SeekInBuffer
  BY <1>17 DEF SeekInBuffer, At, Goto, NowWanted, Ready
<1>18. CASE SeekInOther
  BY <1>18 DEF SeekInOther, At, Goto, Swap, NowWanted, Ready, PhaseInv
<1>19. CASE SeekFar
  BY <1>19 DEF SeekFar, At, Goto, HifiFileSeek, SendCmd, NowWanted, Ready
<1>20. CASE SeekRestart
  BY <1>20 DEF SeekRestart, At, BufferInit, HifiFileRead, SendCmd, Goto, Ready,
     PhaseInv
<1>21. CASE AnswerIsr
  BY <1>21 DEF AnswerIsr
<1>22. CASE StreamIsr
  BY <1>22 DEF StreamIsr
<1>23. CASE StreamTake
  BY <1>23 DEF StreamTake
<1>24. CASE ServeSeek
  BY <1>24 DEF ServeSeek, Reply
<1>25. CASE ServeReadSome
  BY <1>25 DEF ServeReadSome, Reply
<1>26. CASE ServeReadEnd
  BY <1>26 DEF ServeReadEnd, Reply
<1>27. CASE WaitTest \/ WaitSleep \/ OtherInterrupt \/ DecOpen \/ KeepBuf
  BY <1>27 DEF WaitTest, WaitSleep, OtherInterrupt, DecOpen, KeepBuf
<1>28. CASE UNCHANGED vars
  BY <1>28 DEF vars
<1> QED
  BY <1>1, <1>2, <1>3, <1>4, <1>5, <1>6, <1>7, <1>8, <1>9, <1>10, <1>11, <1>12,
     <1>13, <1>14, <1>15, <1>16, <1>17, <1>18, <1>19, <1>20, <1>21, <1>22, <1>23,
     <1>24, <1>25, <1>26, <1>27, <1>28 DEF Next, Calls, MainStep, Serve
=============================================================================
