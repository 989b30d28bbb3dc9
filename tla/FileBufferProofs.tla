-------------------------- MODULE FileBufferProofs --------------------------
(*****************************************************************************)
(* The theorems about FileBuffer: its invariant is inductive, the properties *)
(* its runs check follow from it for every value of the constants, and the   *)
(* file layer implements the sequential file of AudioFile.                   *)
(*                                                                           *)
(* Every theorem assumes ~AnswerCanOvertake, that an answer does not reach   *)
(* the B core before AudioFileInput2 has stored the result of its request.   *)
(*****************************************************************************)
EXTENDS FileBufferSteps

(* The window of the buffers on the file *)

\* What IsWindow depends on, the program counter and the hand-shake aside.
windowVars == <<pos, rd, wr, size, content, curOff, want, busy, aPos, readParam, gData,
                a2b, pipo>>

\* A step that leaves the buffers and the hand-shake alone leaves the window alone.
LEMMA WindowKept ==
  ASSUME IInv, UNCHANGED <<windowVars, tail>>, phase # "closed", pc \in Settled,
         pc = "switch" <=> pc' = "switch",
         fill' \/ pc' = "input" => fill \/ pc = "input",
         Unserved' <=> Unserved
  PROVE  WindowInv'
<1>1. Got' = Got
  BY DEF windowVars, Got, Answered
<1>2. InRead' = InRead
  BY DEF windowVars, InRead
<1>3. ReadFrom(wr, curOff)' <=> ReadFrom(wr, curOff)
  BY <1>1 DEF windowVars, ReadFrom
<1>4. CASE tail
  BY <1>4 DEF WindowInv
<1>5. CASE ~tail
  <2>1. IsWindow
    BY <1>5 DEF IInv, WindowInv
  <2>2. /\ content'[rd'].from + InRead' = want'
        /\ InRead' <= size'[rd']
        /\ size'[rd'] \in 1 .. pipo' /\ content'[rd'].len = size'[rd']
        /\ curOff' = content'[rd'].from + size'[rd'] + size'[wr']
    BY <1>2, <2>1 DEF windowVars, IsWindow
  <2>3. CASE busy
    BY <2>1, <2>2, <2>3, <1>3 DEF IsWindow, WindowInv, windowVars
  <2>4. CASE ~busy
    <3>1. /\ aPos' = curOff'
          /\ fill' \/ pc' = "input" => size'[wr'] = 0
          /\ size'[wr'] # 0 => /\ content'[wr'].from = content'[rd'].from + size'[rd']
                               /\ content'[wr'].len = size'[wr']
                               /\ size'[wr'] \in 1 .. pipo'
          /\ ~busy'
      BY <2>1, <2>4 DEF windowVars, IsWindow
    <3> QED
      BY <2>2, <3>1 DEF IsWindow, WindowInv
  <2> QED
    BY <2>3, <2>4
<1> QED
  BY <1>4, <1>5

\* What a call finds when it starts to work on the buffers.
LEMMA WindowHere ==
  ASSUME IInv, ~tail, pc \in Settled, ~busy, phase # "closed"
  PROVE  /\ IsWindow /\ wr = 1 - rd /\ rd \in 0 .. 1
         /\ content[rd].from + InRead = want /\ InRead <= size[rd] /\ InRead \in Nat
         /\ content[rd].from \in Nat /\ size[rd] \in 1 .. pipo /\ size[wr] \in 0 .. pipo
         /\ content[rd].len = size[rd]
         /\ Buffered = size[rd] + size[wr]
         /\ curOff = content[rd].from + size[rd] + size[wr] /\ aPos = curOff
         /\ FileBuffStart = content[rd].from
         /\ curOff <= FileLen /\ ~Unserved
         /\ size[wr] # 0 => /\ content[wr].from = content[rd].from + size[rd]
                            /\ content[wr].len = size[wr]
<1>1. IsWindow /\ wr = 1 - rd
  BY DEF IInv, WindowInv, PhaseInv, Settled
<1>2. rd \in 0 .. 1 /\ InRead \in Nat /\ content[rd].from \in Nat
      /\ size[0] \in Nat /\ size[1] \in Nat /\ curOff \in Nat /\ pipo \in {512, PlayPipo}
  BY TypeFacts DEF InRead
<1>3. /\ content[rd].from + InRead = want /\ InRead <= size[rd]
      /\ size[rd] \in 1 .. pipo /\ content[rd].len = size[rd]
      /\ curOff = content[rd].from + size[rd] + size[wr] /\ aPos = curOff
      /\ size[wr] # 0 => /\ content[wr].from = content[rd].from + size[rd]
                         /\ content[wr].len = size[wr]
                         /\ size[wr] \in 1 .. pipo
  BY <1>1 DEF IsWindow
<1>4. curOff <= FileLen
  BY <1>3 DEF IInv, StorageInv
<1>5. size[wr] \in 0 .. pipo
  BY <1>1, <1>2, <1>3, WordFacts
<1>6. size[0] + size[1] = size[rd] + size[wr]
  BY <1>1, <1>2
<1>7. Buffered = size[rd] + size[wr]
  <2>1. size[rd] + size[wr] \in 0 .. Word - 1
    BY <1>2, <1>3, <1>5, WordFacts
  <2>2. Wrap(size[0] + size[1]) = size[0] + size[1]
    BY <2>1, <1>6, WrapWord DEF Words
  <2> QED
    BY <2>2, <1>6 DEF Buffered
<1>8. FileBuffStart = content[rd].from
  <2>1. curOff - Buffered = content[rd].from
    BY <1>1, <1>2, <1>3, <1>7
  <2>2. content[rd].from \in 0 .. Word - 1
    BY <1>1, <1>2, <1>3, <1>4, WordFacts
  <2>3. Wrap(content[rd].from) = content[rd].from
    BY <2>2, WrapWord DEF Words
  <2> QED
    BY <2>1, <2>3 DEF FileBuffStart
<1>9. ~Unserved
  <2>1. pc \notin AnswerWaits
    BY DEF Settled, AnswerWaits
  <2> QED
    BY <2>1, Quiet
<1> QED
  BY <1>1, <1>2, <1>3, <1>4, <1>5, <1>7, <1>8, <1>9

\* The parts a step has to bring together to make a window.
LEMMA MakesWindow ==
  ASSUME ~busy', aPos' = curOff', size'[wr'] = 0 \/ ~(fill' \/ pc' = "input"),
         content'[rd'].from + InRead' = want', InRead' <= size'[rd'],
         size'[rd'] \in 1 .. pipo', content'[rd'].len = size'[rd'],
         curOff' = content'[rd'].from + size'[rd'] + size'[wr'],
         size'[wr'] # 0 => /\ content'[wr'].from = content'[rd'].from + size'[rd']
                           /\ content'[wr'].len = size'[wr']
                           /\ size'[wr'] \in 1 .. pipo'
  PROVE  WindowInv'
BY DEF IsWindow, WindowInv

\* A read that storage serves in full or up to the end of the file.
LEMMA ReadServed ==
  ASSUME IInv, ServeReadSome, ~tail'
  PROVE  /\ ~tail /\ aPos < FileLen
         /\ content'[readParam.buf].from = aPos /\ content'[readParam.buf].len = Got'
         /\ readParam'.buf = readParam.buf /\ readParam'.num = aPos'
         /\ ~Unserved'
         /\ Got' = (IF aPos + pipo <= FileLen THEN pipo ELSE FileLen - aPos)
         /\ Got' \in 1 .. pipo
         /\ aPos' = aPos + Got' /\ aPos \in Nat
<1> DEFINE got == Available(readParam.num)
<1>1. readParam.num = pipo /\ readParam.buf \in 0 .. 1 /\ pipo >= 512 /\ pipo \in Nat
  BY Serving, TypeFacts DEF ServeReadSome, Kind
<1>2. tail' = (tail \/ (Backend = "file" /\ got < readParam.num))
  BY DEF ServeReadSome
<1>3. ~tail /\ ~(Backend = "file" /\ got < readParam.num)
  BY <1>2
<1>4. aPos < FileLen /\ aOff = aPos /\ aPos % Sector = 0 /\ aPos \in Nat
  BY <1>3, TypeFacts, WordFacts DEF IInv, StorageInv, ServeReadSome
<1>5. got = IF aPos + pipo <= FileLen THEN pipo ELSE FileLen - aPos
  BY <1>1 DEF Available
<1>6. got \in 1 .. pipo /\ aPos + got <= FileLen
  BY <1>1, <1>4, <1>5, WordFacts
<1>7. SectorStart(aPos) = aPos
  BY <1>4 DEF SectorStart
<1>8. /\ content' = [content EXCEPT ![readParam.buf] = [from |-> aPos, len |-> got]]
      /\ aPos' = aPos + got
      /\ aOff' = IF Backend = "file" THEN Wrap(aOff + readParam.num) ELSE aPos + got
      /\ a2b' = [cmd |-> "READ", data |-> got] /\ apc' = "take"
      /\ readParam' = [readParam EXCEPT !.num = aOff'] /\ UNCHANGED <<b2a, sem, pipo>>
  BY <1>7 DEF ServeReadSome, Reply, Answer, coreAVars, linkVars, bufVars
<1>9. aOff' = aPos'
  <2>1. CASE Backend = "file"
    <3>1. got = pipo
      BY <2>1, <1>1, <1>3, <1>5, <1>6
    <3>2. Wrap(aPos + pipo) = aPos + pipo
      BY <3>1, <1>1, <1>4, <1>6, WordFacts DEF Wrap
    <3> QED
      BY <2>1, <3>1, <3>2, <1>1, <1>4, <1>8
  <2>2. CASE Backend # "file"
    BY <2>2, <1>8
  <2> QED
    BY <2>1, <2>2
<1>10. ~Unserved'
  <2>1. b2a = None /\ ~sem
    BY DEF IInv, LinkInv, OneRequest, ServeReadSome, InService, InMailbox, InSlot
  <2> QED
    BY <2>1, <1>8 DEF Unserved, InMailbox, InSlot, InService
<1>11. Got' = got
  BY <1>8 DEF Got, Answered, None
<1>12. /\ readParam'.num = aPos' /\ readParam'.buf = readParam.buf
       /\ content'[readParam.buf] = [from |-> aPos, len |-> got]
  BY <1>1, <1>8, <1>9, TypeFacts
<1> QED
  BY <1>3, <1>4, <1>5, <1>6, <1>8, <1>10, <1>11, <1>12

-----------------------------------------------------------------------------
(* Seeks *)

\* Where a seek goes.
Target == IF call = "SEEK_SET" THEN arg ELSE want + arg

\* What AudioFileSeek2 finds.
LEMMA SeekHere ==
  ASSUME IInv, ~tail, pc = "seek", ~busy
  PROVE  /\ pos \in Nat /\ size[rd] \in 1 .. pipo /\ size[wr] \in 0 .. pipo
         /\ content[rd].from \in Nat /\ content[rd].from + pos = want /\ pos <= size[rd]
         /\ Buffered = size[rd] + size[wr] /\ Buffered < Word - FileLen
         /\ curOff = content[rd].from + Buffered /\ curOff <= FileLen
         /\ FileBuffStart = content[rd].from
         /\ Target \in 0 .. FileLen - 1
         /\ size[wr] # 0 => content[wr].from = content[rd].from + size[rd]
<1>1. pc \in Settled /\ phase # "closed" /\ InRead = pos
  BY DEF Settled, IInv, PhaseInv, InRead
<1>2. /\ size[rd] \in 1 .. pipo /\ size[wr] \in 0 .. pipo /\ content[rd].from \in Nat
      /\ content[rd].from + pos = want /\ pos <= size[rd]
      /\ Buffered = size[rd] + size[wr] /\ curOff = content[rd].from + size[rd] + size[wr]
      /\ curOff <= FileLen /\ FileBuffStart = content[rd].from
      /\ size[wr] # 0 => content[wr].from = content[rd].from + size[rd]
  BY <1>1, WindowHere
<1>3. pos \in Nat /\ pipo \in {512, PlayPipo}
  BY TypeFacts
<1>4. Buffered < Word - FileLen
  BY <1>2, <1>3, WordFacts DEF Sector
<1>5. Target \in 0 .. FileLen - 1
  BY DEF Target, IInv, ArgInv
<1> QED
  BY <1>2, <1>3, <1>4, <1>5, WordFacts

\* A relative target inside the window was not wrapped around.
LEMMA SeekCurTemp ==
  ASSUME IInv, ~tail, pc = "seek", ~busy, call # "SEEK_SET"
  PROVE  /\ SeekTemp = (IF pos + arg >= 0 THEN pos + arg ELSE pos + arg + Word)
         /\ SeekTemp < Buffered => SeekTemp = pos + arg
<1>1. /\ pos \in Nat /\ size[rd] \in 1 .. pipo /\ pos <= size[rd] /\ Buffered < Word - FileLen
      /\ size[wr] \in 0 .. pipo /\ Buffered = size[rd] + size[wr]
  BY SeekHere
<1>2. arg \in -FileLen .. FileLen /\ pipo \in Nat
  BY TypeFacts DEF IInv, ArgInv
<1>3. pos + arg < Word
  BY <1>1, <1>2, WordFacts
<1>4. SeekTemp = (IF pos + arg >= 0 THEN pos + arg ELSE pos + arg + Word)
  BY <1>1, <1>2, <1>3, WordFacts DEF SeekTemp, Wrap
<1> QED
  BY <1>1, <1>2, <1>4, WordFacts

\* A seek inside the read buffer gets where it should.
LEMMA SeekInRead ==
  ASSUME IInv, ~tail, pc = "seek", ~busy, InWindow, InReadBuffer
  PROVE  SeekTemp \in Nat /\ content[rd].from + SeekTemp = Target /\ SeekTemp <= size[rd]
<1>1. CASE call = "SEEK_SET"
  <2>1. /\ Target = arg /\ content[rd].from <= arg /\ SeekTemp = Wrap(arg - content[rd].from)
        /\ SeekTemp < size[rd]
    BY <1>1, SeekHere DEF Target, InWindow, InReadBuffer, SeekTemp
  <2>2. Wrap(arg - content[rd].from) = arg - content[rd].from
    BY <2>1, SeekHere, WordFacts DEF Wrap
  <2> QED
    BY <2>1, <2>2, SeekHere, TypeFacts
<1>2. CASE call # "SEEK_SET"
  <2>1. Target = want + arg /\ SeekTemp < Buffered /\ (arg <= 0 \/ SeekTemp <= size[rd])
    BY <1>2 DEF Target, InWindow, InReadBuffer
  <2>2. SeekTemp = pos + arg /\ arg \in Int
    BY <1>2, <2>1, SeekCurTemp, TypeFacts
  <2>3. SeekTemp \in Nat
    <3>1. SeekTemp \in Words
      BY SeekWords
    <3> QED
      BY <3>1 DEF Words
  <2> QED
    BY <2>1, <2>2, <2>3, SeekHere, TypeFacts
<1> QED
  BY <1>1, <1>2

\* So does a seek into the other buffer.
LEMMA SeekInWritten ==
  ASSUME IInv, ~tail, pc = "seek", ~busy, InWindow, ~InReadBuffer
  PROVE  /\ Wrap(SeekTemp - size[rd]) \in Nat /\ size[wr] # 0
         /\ content[wr].from + Wrap(SeekTemp - size[rd]) = Target
         /\ Wrap(SeekTemp - size[rd]) <= size[wr]
<1> DEFINE s == SeekTemp
<1>1. s >= size[rd] /\ s < Buffered /\ content[rd].from + s = Target /\ s \in Int
  <2>1. CASE call = "SEEK_SET"
    <3>1. /\ Target = arg /\ content[rd].from <= arg /\ s = Wrap(arg - content[rd].from)
          /\ ~(s < size[rd]) /\ arg < curOff
      BY <2>1, SeekHere DEF Target, InWindow, InReadBuffer, SeekTemp
    <3>2. Wrap(arg - content[rd].from) = arg - content[rd].from
      BY <3>1, SeekHere, WordFacts DEF Wrap
    <3> QED
      BY <3>1, <3>2, SeekHere, TypeFacts
  <2>2. CASE call # "SEEK_SET"
    <3>1. Target = want + arg /\ s < Buffered /\ ~(s <= size[rd])
      BY <2>2 DEF Target, InWindow, InReadBuffer
    <3>2. s = pos + arg /\ arg \in Int
      BY <2>2, <3>1, SeekCurTemp, TypeFacts
    <3> QED
      BY <3>1, <3>2, SeekHere, TypeFacts
  <2> QED
    BY <2>1, <2>2
<1> HIDE DEF s
<1>2. /\ size[rd] \in Nat /\ size[wr] \in Nat /\ Buffered = size[rd] + size[wr]
      /\ content[rd].from \in Nat /\ Buffered < Word
      /\ size[wr] # 0 => content[wr].from = content[rd].from + size[rd]
  BY SeekHere, TypeFacts, WordFacts
<1>3. size[wr] # 0
  BY <1>1, <1>2
<1>4. Wrap(s - size[rd]) = s - size[rd]
  <2>1. s - size[rd] \in 0 .. Word - 1
    BY <1>1, <1>2, WordFacts
  <2> QED
    BY <2>1, WrapWord DEF Words
<1> QED
  BY <1>1, <1>2, <1>3, <1>4 DEF s

\* And a seek out of the window.
LEMMA SeekGoesThere ==
  ASSUME IInv, ~tail, pc = "seek", ~busy
  PROVE  SeekTarget = Target
<1>1. CASE call = "SEEK_SET"
  BY <1>1 DEF SeekTarget, Target
<1>2. CASE call # "SEEK_SET"
  <2>1. SeekTarget = Wrap(content[rd].from + SeekTemp) /\ Target = want + arg
    BY <1>2, SeekHere DEF SeekTarget, Target
  <2>2. arg \in Int /\ content[rd].from \in Nat /\ pos \in Nat /\ content[rd].from + pos = want
        /\ want + arg \in 0 .. Word - 1
    BY <2>1, SeekHere, TypeFacts, WordFacts
  <2>3. CASE pos + arg >= 0
    <3>1. SeekTemp = pos + arg
      BY <1>2, <2>3, SeekCurTemp
    <3>2. content[rd].from + SeekTemp = want + arg
      BY <2>2, <3>1
    <3>3. Wrap(want + arg) = want + arg
      BY <2>2, WrapWord DEF Words
    <3> QED
      BY <2>1, <3>2, <3>3
  <2>4. CASE ~(pos + arg >= 0)
    <3>1. SeekTemp = pos + arg + Word
      BY <1>2, <2>4, SeekCurTemp
    <3>2. content[rd].from + SeekTemp = want + arg + Word
      BY <2>2, <3>1, WordFacts
    <3> QED
      BY <2>1, <2>2, <3>2, WordFacts DEF Wrap
  <2> QED
    BY <2>3, <2>4
<1> QED
  BY <1>1, <1>2

\* AudioFileChangeBuf2 seeks to the start of the read buffer.
LEMMA ChangeFrom ==
  ASSUME IInv, ~tail, ChangeSeek
  PROVE  /\ content[rd].from + pos = want /\ pos <= size[rd] /\ size[rd] \in 1 .. 512
         /\ want <= FileLen /\ content[rd].from < FileLen
         /\ Wrap(Wrap(curOff - size[0]) - size[1]) = content[rd].from
<1>1. pc = "change" /\ ~busy /\ phase = "codec" /\ pipo = 512
  BY DEF ChangeSeek, At, Ready, IInv, PhaseInv, OpenPipo
<1>2. pc \in Settled /\ InRead = pos
  BY <1>1 DEF Settled, InRead
<1>3. /\ content[rd].from + pos = want /\ pos <= size[rd] /\ size[rd] \in 1 .. 512
      /\ size[wr] \in 0 .. 512 /\ wr = 1 - rd /\ rd \in 0 .. 1
      /\ content[rd].from \in Nat /\ pos \in Nat
      /\ curOff = content[rd].from + size[rd] + size[wr] /\ curOff <= FileLen
  BY <1>1, <1>2, WindowHere
<1>9. size[rd] \in Nat /\ size[wr] \in Nat /\ curOff \in Nat /\ want \in Int
  BY <1>3, TypeFacts
<1>4. want <= FileLen /\ content[rd].from < FileLen
  <2>1. content[rd].from + size[rd] <= FileLen
    BY <1>3, <1>9, WordFacts
  <2>2. want = content[rd].from + pos /\ pos <= size[rd] /\ size[rd] >= 1
    BY <1>3, <1>9
  <2>3. want <= FileLen
    BY <2>1, <2>2, <1>3, <1>9, WordFacts
  <2>4. content[rd].from < FileLen
    BY <2>1, <2>2, <1>3, <1>9, WordFacts
  <2> QED
    BY <2>3, <2>4
<1>5. size[0] + size[1] = size[rd] + size[wr] /\ size[0] \in 0 .. 512 /\ size[1] \in 0 .. 512
  <2>1. CASE rd = 0
    BY <2>1, <1>3, <1>9
  <2>2. CASE rd = 1
    BY <2>2, <1>3, <1>9
  <2> QED
    BY <2>1, <2>2, <1>3
<1>6. /\ curOff - size[0] \in 0 .. Word - 1
      /\ curOff - size[0] - size[1] = content[rd].from
      /\ content[rd].from \in 0 .. Word - 1
  BY <1>3, <1>4, <1>5, <1>9, WordFacts
<1>7. Wrap(curOff - size[0]) = curOff - size[0]
  BY <1>6, WrapWord DEF Words
<1>8. Wrap(content[rd].from) = content[rd].from
  BY <1>6, WrapWord DEF Words
<1> QED
  BY <1>3, <1>4, <1>6, <1>7, <1>8

-----------------------------------------------------------------------------
(* The steps *)

\* Buffers hold sectors, and seeks go to them.
LEMMA SectorStep == ~AnswerCanOvertake /\ IInv /\ [Next]_vars => SectorInv'
<1> SUFFICES ASSUME ~AnswerCanOvertake, IInv, [Next]_vars PROVE SectorInv'
  OBVIOUS
<1> USE WordFacts, TypeFacts DEF IInv, SectorInv, mainVars, bufVars,
        isrVars, linkVars, coreAVars, history
<1>1. CASE ChangeSeek
  <2>1. pc' = "changeSeekWait" /\ content' = content /\ tail' = tail
        /\ seekParam' = Wrap(Wrap(curOff - size[0]) - size[1])
    BY <1>1 DEF ChangeSeek, Goto, HifiFileSeek
  <2>2. CASE tail
    BY <2>1, <2>2
  <2>3. CASE ~tail
    <3>1. seekParam' = content[rd].from
      BY <1>1, <2>1, <2>3, ChangeFrom DEF ChangeSeek
    <3> QED
      BY <2>1, <3>1
  <2> QED
    BY <2>2, <2>3
<1>2. CASE ChangeRead
  BY <1>2 DEF ChangeRead, At, Goto, HifiFileRead, SendCmd
<1>3. CASE CodecCalls
  BY <1>3 DEF CodecCalls, CodecCall, Tell, Read, SeekSet, SeekCur, Goto
<1>4. CASE ReadPart
  BY <1>4 DEF ReadPart, At, Goto, Copy
<1>5. CASE ReadRest
  BY <1>5 DEF ReadRest, At, Goto, Copy
<1>6. CASE SeekFar
  <2>1. /\ seekParam' = SectorStart(SeekTarget) /\ arg' = SeekTarget % Sector
        /\ pc = "seek" /\ pc' = "seekWait" /\ content' = content /\ call' = call
        /\ want' = IF call = "SEEK_SET" THEN arg ELSE want + arg
    BY <1>6 DEF SeekFar, At, Goto, HifiFileSeek, NowWanted
  <2>2. SeekTarget \in Nat
    BY <2>1, SeekWords DEF Words
  <2>3. seekParam' % Sector = 0 /\ seekParam' = SeekTarget - arg'
    <3> DEFINE t == SeekTarget
    <3>1. t \in Nat
      BY <2>2
    <3> HIDE DEF t
    <3>2. /\ SectorStart(t) \in 0 .. t /\ SectorStart(t) % Sector = 0
          /\ t - SectorStart(t) = t % Sector
      BY <3>1, SectorStartFacts
    <3>3. SectorStart(t) = t - (t % Sector)
      BY <3>1, <3>2
    <3> QED
      BY <2>1, <3>2, <3>3 DEF t
  <2>4. call = "SEEK_SET" => SeekTarget = want' /\ want' \in 0 .. FileLen - 1
    BY <2>1 DEF SeekTarget, ArgInv
  <2> QED
    BY <2>1, <2>3, <2>4
<1>7. CASE SeekRestart
  BY <1>7 DEF SeekRestart, At, BufferInit, HifiFileRead, SendCmd, Goto
<1>8. CASE AnswerIsr
  BY <1>8 DEF AnswerIsr, Answer
<1>9. CASE ServeSeek
  <2>1. UNCHANGED <<pc, call, seekParam, want, arg, content>>
    BY <1>9 DEF ServeSeek
  <2>2. pc = "changeSeekWait" => tail' = tail
    BY <1>9 DEF ServeSeek, ArgInv
  <2> QED
    BY <2>1, <2>2
<1>10. CASE ServeReadSome
  <2>1. content' = [content EXCEPT ![readParam.buf] =
                      [from |-> SectorStart(aPos), len |-> Available(readParam.num)]]
    BY <1>10 DEF ServeReadSome
  <2>2. SectorStart(aPos) % Sector = 0 /\ readParam.buf \in 0 .. 1
    BY SectorStartFacts
  <2>3. \A b \in 0 .. 1: content'[b].from % Sector = 0
    BY <2>1, <2>2
  <2>4. UNCHANGED <<pc, call, seekParam, want, arg>> /\ (~tail' => ~tail)
    BY <1>10 DEF ServeReadSome
  <2> QED
    BY <2>3, <2>4
<1>11. CASE ServeReadEnd
  BY <1>11 DEF ServeReadEnd, Reply
<1>12. CASE WaitTest \/ WaitSleep \/ OtherInterrupt \/ FuncInit \/ InitDone \/ DecOpen \/
     KeepBuf \/ ChangeBuf
  BY <1>12 DEF WaitTest, WaitSleep, OtherInterrupt, FuncInit, BufferInit,
     HifiFileRead, SendCmd, Goto, InitDone, At, DecOpen, KeepBuf, ChangeBuf
<1>13. CASE ChangeDone \/ FillBuffer \/ Input \/ InputStore \/ TellDone \/ Switch \/
     SwitchEmpty \/ SwitchDone
  BY <1>13 DEF ChangeDone, At, Goto, FillBuffer, Input, HifiFileRead, SendCmd,
     InputStore, TellDone, Switch, Swap, Resume, SwitchEmpty, SwitchDone
<1>14. CASE SeekInBuffer \/ SeekInOther \/ StreamIsr \/ StreamTake
  BY <1>14 DEF SeekInBuffer, At, Goto, NowWanted, SeekInOther, Swap, StreamIsr,
     StreamTake
<1>15. CASE UNCHANGED vars
  BY <1>15 DEF vars
<1> QED
  BY <1>1, <1>2, <1>3, <1>4, <1>5, <1>6, <1>7, <1>8, <1>9, <1>10, <1>11, <1>12,
     <1>13, <1>14, <1>15 DEF Next, Calls, MainStep, Serve

\* Storage stays at a sector boundary or at the end, and knows where it is.
LEMMA StorageStep == ~AnswerCanOvertake /\ IInv /\ [Next]_vars => StorageInv'
<1> SUFFICES ASSUME ~AnswerCanOvertake, IInv, [Next]_vars PROVE StorageInv'
  OBVIOUS
<1> USE WordFacts, TypeFacts DEF IInv, StorageInv, mainVars, bufVars,
        isrVars, linkVars, coreAVars, history
<1>1. CASE CodecCalls
  BY <1>1 DEF CodecCalls, CodecCall, Tell, Read, SeekSet, SeekCur, Goto
<1>2. CASE AnswerIsr
  BY <1>2 DEF AnswerIsr, Answer
<1>3. CASE ServeSeek
  <2>1. aPos' = seekParam /\ aOff' = seekParam /\ pc \in {"seekWait", "changeSeekWait"}
    BY <1>3, Serving DEF ServeSeek, Kind, SyncSeeks
  <2>2. CASE tail'
    BY <2>2
  <2>3. CASE ~tail'
    <3>1. CASE pc = "seekWait"
      <4>1. seekParam % Sector = 0
        BY <3>1 DEF SectorInv
      <4>2. CASE call = "SEEK_SET"
        BY <2>1, <3>1, <4>1, <4>2 DEF SectorInv, ArgInv
      <4>3. CASE call # "SEEK_SET"
        <5>1. ~tail
          BY <1>3, <2>3, <4>3 DEF ServeSeek
        <5>2. seekParam = want - arg /\ want \in 0 .. FileLen - 1 /\ arg \in 0 .. Sector - 1
          BY <3>1, <5>1 DEF RestartInv, SeekTo, ArgInv
        <5> QED
          BY <2>1, <4>1, <5>2
      <4> QED
        BY <4>2, <4>3
    <3>2. CASE pc = "changeSeekWait"
      <4>1. ~tail
        BY <1>3, <2>3, <3>2 DEF ServeSeek, ArgInv
      <4>2. seekParam % Sector = 0 /\ seekParam = want - pos /\ want - pos \in 0 .. FileLen - 1
        BY <3>2, <4>1 DEF SectorInv, ChangeInv, SeekTo
      <4> QED
        BY <2>1, <4>2
    <3> QED
      BY <2>1, <3>1, <3>2
  <2> QED
    BY <2>2, <2>3
<1>4. CASE ServeReadSome
  <2> DEFINE got == Available(readParam.num)
  <2>1. CASE tail'
    BY <2>1
  <2>2. CASE ~tail'
    <3>9. tail' = (tail \/ (Backend = "file" /\ got < readParam.num))
      BY <1>4 DEF ServeReadSome
    <3>10. ~tail /\ ~(Backend = "file" /\ got < readParam.num)
      BY <2>2, <3>9
    <3>1. aPos < FileLen /\ aOff = aPos /\ aPos % Sector = 0
      BY <1>4, <3>10 DEF ServeReadSome
    <3>2. readParam.num = pipo
      BY <1>4, Serving DEF ServeReadSome, Kind
    <3>3. /\ aPos' = aPos + got
          /\ aOff' = IF Backend = "file" THEN Wrap(aOff + readParam.num) ELSE aPos + got
      BY <1>4 DEF ServeReadSome
    <3>4. got = IF aPos + pipo <= FileLen THEN pipo ELSE FileLen - aPos
      BY <3>2 DEF Available
    <3>5. Backend = "file" => got = pipo
      BY <3>1, <3>2, <3>4, <3>10
    <3>6. aPos' <= FileLen
      BY <3>1, <3>3, <3>4
    <3>7. aOff' = aPos'
      <4>1. CASE Backend = "file"
        <5>1. aPos + pipo \in 0 .. Word - 1
          BY <4>1, <3>3, <3>5, <3>6, WordFacts
        <5> QED
          BY <4>1, <5>1, <3>1, <3>2, <3>3, <3>5 DEF Wrap
      <4>2. CASE Backend # "file"
        BY <4>2, <3>3
      <4> QED
        BY <4>1, <4>2
    <3>8. aPos' % Sector = 0 \/ aPos' = FileLen
      <4>1. CASE got = pipo
        BY <4>1, <3>1, <3>3 DEF Sector
      <4>2. CASE got # pipo
        BY <4>2, <3>1, <3>3, <3>4
      <4> QED
        BY <4>1, <4>2
    <3> QED
      BY <3>6, <3>7, <3>8
  <2> QED
    BY <2>1, <2>2
<1>5. CASE ServeReadEnd
  BY <1>5 DEF ServeReadEnd, Reply
<1>6. CASE WaitTest \/ WaitSleep \/ OtherInterrupt \/ FuncInit \/ InitDone \/ DecOpen \/
     KeepBuf \/ ChangeBuf
  BY <1>6 DEF WaitTest, WaitSleep, OtherInterrupt, FuncInit, BufferInit,
     HifiFileRead, SendCmd, Goto, InitDone, At, DecOpen, KeepBuf, ChangeBuf
<1>7. CASE ChangeSeek \/ ChangeRead \/ ChangeDone \/ FillBuffer \/ Input \/ InputStore \/
     TellDone \/ ReadPart
  BY <1>7 DEF ChangeSeek, At, Goto, HifiFileSeek, SendCmd, ChangeRead, HifiFileRead,
     ChangeDone, FillBuffer, Input, InputStore, TellDone, ReadPart, Copy
<1>8. CASE ReadRest \/ Switch \/ SwitchEmpty \/ SwitchDone \/ SeekInBuffer \/ SeekInOther
     \/ SeekFar \/ SeekRestart
  BY <1>8 DEF ReadRest, At, Goto, Copy, Switch, Swap, Resume, SwitchEmpty,
     HifiFileRead, SendCmd, SwitchDone, SeekInBuffer, NowWanted, SeekInOther,
     SeekFar, HifiFileSeek, SeekRestart, BufferInit
<1>9. CASE StreamIsr \/ StreamTake
  BY <1>9 DEF StreamIsr, StreamTake
<1>10. CASE UNCHANGED vars
  BY <1>10 DEF vars
<1> QED
  BY <1>1, <1>2, <1>3, <1>4, <1>5, <1>6, <1>7, <1>8, <1>9, <1>10 DEF Next, Calls,
     MainStep, Serve

\* An empty second buffer is never forgotten.
LEMMA FillStep == ~AnswerCanOvertake /\ IInv /\ [Next]_vars => FillInv'
<1> SUFFICES ASSUME ~AnswerCanOvertake, IInv, [Next]_vars PROVE FillInv'
  OBVIOUS
<1> USE WordFacts, TypeFacts DEF IInv, FillInv, AnswerWaits, Answered, None,
        mainVars, bufVars, isrVars, linkVars, coreAVars, history
<1>1. CASE FillBuffer
  BY <1>1 DEF FillBuffer, Goto
<1>2. CASE Input
  BY <1>2 DEF Input, At, Goto, HifiFileRead, SendCmd
<1>3. CASE InputStore
  BY <1>3 DEF InputStore, At, Goto, LinkInv
<1>4. CASE CodecCalls
  BY <1>4 DEF CodecCalls, CodecCall, Tell, Read, SeekSet, SeekCur, Goto
<1>5. CASE ReadPart
  BY <1>5 DEF ReadPart, At, Goto, Copy
<1>6. CASE ReadRest
  BY <1>6 DEF ReadRest, At, Goto, Copy
<1>7. CASE SeekRestart
  BY <1>7 DEF SeekRestart, At, BufferInit, HifiFileRead, SendCmd, Goto
<1>8. CASE AnswerIsr
  <2>1. /\ UNCHANGED <<phase, pc, wr, fill>>
        /\ a2b'.cmd = None
    BY <1>8 DEF AnswerIsr, Answer
  <2>2. CASE a2b.cmd = "READ" /\ ~bypass
    <3>1. size' = [size EXCEPT ![wr] = a2b.data] /\ a2b.data # 0
      BY <1>8, <2>2 DEF AnswerIsr
    <3>2. size'[wr'] # 0
      BY <2>1, <3>1
    <3> QED
      BY <2>1, <3>2
  <2>3. CASE ~(a2b.cmd = "READ" /\ ~bypass)
    <3>1. size' = size /\ busy' = busy
      BY <1>8, <2>3 DEF AnswerIsr
    <3> QED
      BY <2>1, <3>1
  <2> QED
    BY <2>2, <2>3
<1>9. CASE ServeSeek
  BY <1>9 DEF ServeSeek, Reply, Answer
<1>10. CASE ServeReadSome
  <2>1. readParam.num = pipo
    BY <1>10, Serving DEF ServeReadSome, Kind
  <2>2. Available(readParam.num) # 0
    BY <1>10, <2>1 DEF ServeReadSome, Available
  <2>3. a2b'.data # 0
    BY <1>10, <2>2 DEF ServeReadSome, Reply, Answer
  <2>4. UNCHANGED <<phase, pc, size, wr, fill, busy>>
    BY <1>10 DEF ServeReadSome
  <2> QED
    BY <2>3, <2>4
<1>11. CASE ServeReadEnd
  <2>1. RK_ERROR # 0
    BY WordFacts DEF RK_ERROR
  <2>2. a2b'.data # 0 /\ UNCHANGED <<phase, pc, size, wr, fill, busy>>
    BY <1>11, <2>1 DEF ServeReadEnd, Reply, Answer
  <2> QED
    BY <2>2
<1>12. CASE WaitTest \/ WaitSleep \/ OtherInterrupt \/ FuncInit \/ InitDone \/ DecOpen \/
     KeepBuf \/ ChangeBuf
  BY <1>12 DEF WaitTest, WaitSleep, OtherInterrupt, FuncInit, BufferInit,
     HifiFileRead, SendCmd, Goto, InitDone, At, DecOpen, KeepBuf, ChangeBuf
<1>13. CASE ChangeSeek \/ ChangeRead \/ ChangeDone \/ TellDone \/ Switch \/ SwitchEmpty \/
     SwitchDone \/ SeekInBuffer
  BY <1>13 DEF ChangeSeek, At, Goto, HifiFileSeek, SendCmd, ChangeRead,
     HifiFileRead, ChangeDone, TellDone, Switch, Swap, Resume, SwitchEmpty,
     SwitchDone, SeekInBuffer, NowWanted
<1>14. CASE SeekInOther \/ SeekFar \/ StreamIsr \/ StreamTake
  BY <1>14 DEF SeekInOther, At, Goto, Swap, NowWanted, SeekFar, HifiFileSeek,
     SendCmd, StreamIsr, StreamTake
<1>15. CASE UNCHANGED vars
  BY <1>15 DEF vars
<1> QED
  BY <1>1, <1>2, <1>3, <1>4, <1>5, <1>6, <1>7, <1>8, <1>9, <1>10, <1>11, <1>12,
     <1>13, <1>14, <1>15 DEF Next, Calls, MainStep, Serve

\* A prefetch that completes while AudioFileTell2 runs changes what it will return.
LEMMA TellAnswer ==
  ASSUME IInv, AnswerIsr
  PROVE  TellInv'
<1>1. UNCHANGED <<phase, pc, call, arg, want, wr, tail>>
  BY DEF AnswerIsr, mainVars, history
<1>2. CASE tail
  BY <1>1, <1>2 DEF TellInv
<1>4. CASE pc \notin {"main", "tell"}
  BY <1>1, <1>4 DEF TellInv
<1>5. CASE pc = "main" /\ call # "tell"
  BY <1>1, <1>5 DEF TellInv
<1>3. CASE ~tail /\ (pc = "tell" \/ (pc = "main" /\ call = "tell"))
  <2>1. pc \notin AnswerWaits /\ pc \notin SyncSeeks /\ pc \in Settled
    BY <1>3 DEF AnswerWaits, SyncSeeks, Settled
  <2>2. busy /\ ~Unserved /\ a2b.cmd = "READ" /\ Got = a2b.data
    BY <2>1, Answering DEF AnswerIsr, Kind, None
  <2>3. ~bypass /\ phase # "closed"
    BY <2>2 DEF IInv, LinkInv, PhaseInv
  <2>4. IsWindow
    BY <1>3, <2>1, <2>3 DEF IInv, WindowInv
  <2>5. readParam.num = curOff + a2b.data
    BY <2>2, <2>4 DEF IsWindow, ReadFrom
  <2>6. /\ curOff' = curOff + a2b.data /\ size' = [size EXCEPT ![wr] = a2b.data]
        /\ busy' = FALSE
    BY <2>2, <2>3, <2>5 DEF AnswerIsr
  <2>7. size'[wr'] = a2b.data /\ curOff \in Int /\ a2b.data \in Int
    BY <1>1, <2>6, TypeFacts
  <2>8. pc = "tell" => arg' = curOff' - size'[wr']
    BY <1>1, <1>3, <2>2, <2>6, <2>7 DEF IInv, TellInv
  <2>9. pc = "main" /\ call = "tell" => arg' = want'
    BY <1>1, <1>3, <2>2 DEF IInv, TellInv
  <2> QED
    BY <1>1, <2>6, <2>8, <2>9 DEF TellInv
<1> QED
  BY <1>2, <1>3, <1>4, <1>5

\* What AudioFileTell2 has read and returned.
LEMMA TellStep == ~AnswerCanOvertake /\ IInv /\ [Next]_vars => TellInv'
<1> SUFFICES ASSUME ~AnswerCanOvertake, IInv, [Next]_vars PROVE TellInv'
  OBVIOUS
<1> USE WordFacts, TypeFacts DEF IInv, TellInv, mainVars, bufVars, isrVars,
        linkVars, coreAVars, history
<1>1. CASE FuncInit
  BY <1>1 DEF FuncInit, BufferInit, HifiFileRead, SendCmd, Goto
<1>2. CASE InitDone
  BY <1>2 DEF InitDone, At, Goto, ArgInv
<1>3. CASE ChangeDone
  BY <1>3 DEF ChangeDone, At, Goto, ArgInv
<1>4. CASE FillBuffer
  BY <1>4 DEF FillBuffer, Goto
<1>5. CASE Input
  BY <1>5 DEF Input, At, Goto, HifiFileRead, SendCmd
<1>6. CASE InputStore
  BY <1>6 DEF InputStore, At, Goto, ArgInv
<1>7. CASE CodecCalls
  BY <1>7 DEF CodecCalls, CodecCall, Tell, Read, SeekSet, SeekCur, Goto
<1>8. CASE TellDone
  <2>0. SUFFICES ASSUME ~tail PROVE TellInv'
    BY <1>8 DEF TellDone
  <2>1. IsWindow /\ pc = "tell" /\ pc' = "main" /\ wr = 1 - rd
        /\ UNCHANGED <<want, busy, size, wr, tail>> /\ arg' = Wrap(arg - Wrap(Buffered - pos))
    BY <1>8, <2>0 DEF TellDone, At, Goto, WindowInv, Settled, PhaseInv
  <2>2. pos \in Nat /\ pos <= size[rd] /\ content[rd].from + pos = want
        /\ content[rd].from \in Nat
    BY <2>1 DEF IsWindow, InRead
  <2>3. size[0] \in Words /\ size[1] \in Words /\ arg \in Words
    BY <2>1 DEF TypeOK, BufferType, ArgInv
  <2>4. curOff = content[rd].from + size[rd] + size[wr] /\ curOff < Word
    BY <2>1 DEF IsWindow, TypeOK, SharedType, Words
  <2>5. Buffered = size[rd] + size[wr]
    BY <2>1, <2>2, <2>3, <2>4 DEF Buffered, Wrap, Words
  <2>6. Wrap(Buffered - pos) = size[rd] + size[wr] - pos
    BY <2>1, <2>2, <2>3, <2>4, <2>5 DEF Wrap, Words
  <2>7. CASE arg = curOff
    <3>1. arg' = Wrap(want)
      BY <2>1, <2>2, <2>4, <2>6, <2>7
    <3>2. want \in 0 .. Word - 1
      BY <2>1, <2>2, <2>4
    <3>3. arg' = want
      BY <3>1, <3>2 DEF Wrap
    <3> QED
      BY <2>1, <3>3
  <2>8. CASE ~busy /\ arg = curOff - size[wr]
    <3>1. arg' = Wrap(want - size[wr])
      BY <2>1, <2>2, <2>4, <2>6, <2>8
    <3> QED
      BY <2>1, <2>8, <3>1
  <2> QED
    BY <2>0, <2>1, <2>7, <2>8 DEF TellInv
<1>9. CASE ReadPart
  BY <1>9 DEF ReadPart, At, Goto, Copy, ArgInv
<1>10. CASE ReadRest
  BY <1>10 DEF ReadRest, At, Goto, Copy
<1>11. CASE Switch
  BY <1>11 DEF Switch, At, Goto, Swap, Resume, ArgInv
<1>12. CASE SwitchDone
  BY <1>12 DEF SwitchDone, At, Goto, Resume, ArgInv
<1>13. CASE SeekInBuffer
  BY <1>13 DEF SeekInBuffer, At, Goto, NowWanted, ArgInv
<1>14. CASE SeekInOther
  BY <1>14 DEF SeekInOther, At, Goto, Swap, NowWanted, ArgInv
<1>15. CASE SeekRestart
  BY <1>15 DEF SeekRestart, At, BufferInit, HifiFileRead, SendCmd, Goto
<1>16. CASE AnswerIsr
  BY <1>16, TellAnswer DEF AnswerIsr, Answer
<1>17. CASE ServeSeek
  <2>1. pc \in {"seekWait", "changeSeekWait"}
    BY <1>17, Serving DEF ServeSeek, Kind, SyncSeeks
  <2> QED
    BY <1>17, <2>1 DEF ServeSeek
<1>18. CASE ServeReadSome
  BY <1>18 DEF ServeReadSome, Reply
<1>19. CASE ServeReadEnd
  BY <1>19 DEF ServeReadEnd, Reply
<1>20. CASE WaitTest \/ WaitSleep \/ OtherInterrupt \/ DecOpen \/ KeepBuf \/ ChangeBuf \/
     ChangeSeek \/ ChangeRead
  BY <1>20 DEF WaitTest, WaitSleep, OtherInterrupt, DecOpen, KeepBuf, ChangeBuf,
     Goto, ChangeSeek, At, HifiFileSeek, SendCmd, ChangeRead, HifiFileRead
<1>21. CASE SwitchEmpty \/ SeekFar \/ StreamIsr \/ StreamTake
  BY <1>21 DEF SwitchEmpty, At, Goto, Swap, HifiFileRead, SendCmd, SeekFar,
     HifiFileSeek, NowWanted, StreamIsr, StreamTake
<1>22. CASE UNCHANGED vars
  BY <1>22 DEF vars
<1> QED
  BY <1>1, <1>2, <1>3, <1>4, <1>5, <1>6, <1>7, <1>8, <1>9, <1>10, <1>11, <1>12,
     <1>13, <1>14, <1>15, <1>16, <1>17, <1>18, <1>19, <1>20, <1>21, <1>22 DEF Next,
     Calls, MainStep, Serve

\* The buffers stay a window on the file.
LEMMA WindowStep == ~AnswerCanOvertake /\ IInv /\ [Next]_vars => WindowInv'
<1> SUFFICES ASSUME ~AnswerCanOvertake, IInv, [Next]_vars PROVE WindowInv'
  OBVIOUS
<1> USE TypeFacts DEF IInv, mainVars, bufVars, isrVars, linkVars,
        coreAVars, history
<1>1. CASE WaitTest \/ WaitSleep \/ OtherInterrupt \/ UNCHANGED vars
  <2>1. UNCHANGED <<windowVars, tail, phase, pc, fill, b2a, sem, apc>>
    BY <1>1 DEF WaitTest, WaitSleep, OtherInterrupt, vars, windowVars
  <2>2. Unserved' <=> Unserved
    BY <2>1 DEF Unserved, InMailbox, InSlot, InService
  <2>3. CASE phase # "closed" /\ pc \in Settled
    BY <2>1, <2>2, <2>3, WindowKept
  <2>4. CASE ~(phase # "closed" /\ pc \in Settled)
    BY <2>1, <2>4 DEF WindowInv
  <2> QED
    BY <2>3, <2>4
<1>2. CASE FuncInit \/ ChangeSeek \/ ChangeRead \/ SwitchEmpty \/ SeekFar \/ SeekRestart
  <2>1. pc' \notin Settled
        BY <1>2 DEF FuncInit, BufferInit, HifiFileRead, SendCmd, Goto, ChangeSeek,
        At, HifiFileSeek, ChangeRead, SwitchEmpty, Swap, SeekFar, NowWanted, SeekRestart,
        Settled
  <2> QED
    BY <2>1 DEF WindowInv
<1>3. CASE DecOpen \/ KeepBuf \/ ChangeBuf \/ FillBuffer \/ CodecCalls \/ TellDone
  <2>1. /\ UNCHANGED <<windowVars, tail>> /\ phase # "closed" /\ pc \in Settled
                /\ pc # "switch" /\ pc' # "switch" /\ (fill' \/ pc' = "input" =>
            fill \/ pc = "input")
        /\ UNCHANGED <<b2a, sem, apc>>
        BY <1>3 DEF DecOpen, KeepBuf, ChangeBuf, Goto, FillBuffer, CodecCalls,
        CodecCall, Tell, Read, SeekSet, SeekCur, TellDone, At, PhaseInv, windowVars, Settled
  <2>2. Unserved' <=> Unserved
    BY <2>1 DEF Unserved, InMailbox, InSlot, InService
  <2> QED
    BY <2>1, <2>2, WindowKept
<1>4. CASE StreamIsr \/ StreamTake
  <2>1. UNCHANGED <<windowVars, tail, phase, pc, fill>>
    BY <1>4 DEF StreamIsr, StreamTake, windowVars
  <2>2. Unserved /\ Unserved'
    BY <1>4 DEF StreamIsr, StreamTake, Unserved, InMailbox, InSlot, InService, None
  <2>3. CASE phase # "closed" /\ pc \in Settled
    BY <2>1, <2>2, <2>3, WindowKept
  <2>4. CASE ~(phase # "closed" /\ pc \in Settled)
    BY <2>1, <2>4 DEF WindowInv
  <2> QED
    BY <2>3, <2>4
<1>5. CASE InitDone
  <2>2. CASE tail
    BY <1>5, <2>2 DEF InitDone, WindowInv
  <2>3. CASE ~tail
    <3>1. /\ pc = "initWait" /\ cmdDone /\ pc' = "main"
          /\ curOff' = readParam.num /\ wr' = 1 /\ pos' = Wrap(pos + arg)
          /\ size' = [size EXCEPT ![rd] = gData, ![1] = 0]
          /\ UNCHANGED <<rd, busy, aPos, content, want, pipo>>
      BY <1>5 DEF InitDone, At, Ready, Goto
    <3>2. ~busy /\ ~Unserved /\ Got = gData /\ rd = 0
      BY <3>1, Taken DEF AnswerWaits, PhaseInv
    <3>3. pos = 0 /\ ReadFrom(0, want - arg) /\ arg <= Got /\ arg \in 0 .. Sector - 1
      BY <2>3, <3>1, <3>2 DEF RestartInv, ArgInv
    <3>4. /\ content[0].from = want - arg /\ content[0].len = gData
          /\ gData \in 1 .. pipo /\ aPos = want - arg + gData /\ readParam.num = aPos
          /\ arg <= gData
      BY <3>2, <3>3 DEF ReadFrom
    <3>5. pos' = arg
      BY <3>1, <3>3, WordFacts DEF Wrap
    <3>6. size'[rd'] = gData /\ size'[wr'] = 0 /\ InRead' = arg /\ content[0].from \in Nat
      BY <3>1, <3>2, <3>5 DEF InRead
    <3> QED
      BY <3>1, <3>2, <3>3, <3>4, <3>6, MakesWindow
  <2> QED
    BY <2>2, <2>3
<1>6. CASE ChangeDone
  <2>2. CASE tail
    BY <1>6, <2>2 DEF ChangeDone, WindowInv
  <2>3. CASE ~tail
    <3>1. /\ pc = "changeWait" /\ cmdDone /\ pc' = "main"
          /\ curOff' = readParam.num
          /\ size' = [size EXCEPT ![rd] = gData, ![wr] = 0]
          /\ UNCHANGED <<rd, wr, pos, busy, aPos, content, want, pipo>>
      BY <1>6 DEF ChangeDone, At, Ready, Goto
    <3>2. ~busy /\ ~Unserved /\ Got = gData /\ wr = 1 - rd
      BY <3>1, Taken DEF AnswerWaits, PhaseInv
    <3>3. ReadFrom(rd, want - pos) /\ pos <= Got
      BY <2>3, <3>1, <3>2 DEF ChangeInv
    <3>4. /\ content[rd].from = want - pos /\ content[rd].len = gData
          /\ gData \in 1 .. pipo /\ aPos = want - pos + gData /\ readParam.num = aPos
          /\ pos <= gData
      BY <3>2, <3>3 DEF ReadFrom
    <3>6. size'[rd'] = gData /\ size'[wr'] = 0 /\ InRead' = pos /\ content[rd].from \in Nat
      BY <3>1, <3>2 DEF InRead
    <3> QED
      BY <3>1, <3>2, <3>4, <3>6, MakesWindow
  <2> QED
    BY <2>2, <2>3
<1>7. CASE Input
  <2>2. CASE tail
    BY <1>7, <2>2 DEF Input, WindowInv
  <2>3. CASE ~tail
    <3>1. /\ pc = "input" /\ ~busy /\ pc' = "inputStore" /\ busy' = TRUE
          /\ readParam' = [num |-> pipo, buf |-> wr] /\ b2a' = "READ"
          /\ UNCHANGED <<rd, wr, size, pos, aPos, content, pipo, curOff, want>>
          /\ phase # "closed"
      BY <1>7 DEF Input, At, Ready, Goto, HifiFileRead, SendCmd, PhaseInv
    <3>2. /\ pc \in Settled /\ InRead = pos /\ InRead' = pos
      BY <3>1 DEF Settled, InRead
    <3>3. size[wr] = 0 /\ aPos = curOff
      BY <2>3, <3>1, <3>2, WindowHere DEF IsWindow
    <3>4. /\ content[rd].from + pos = want /\ pos <= size[rd] /\ size[rd] \in 1 .. pipo
          /\ content[rd].len = size[rd]
          /\ curOff = content[rd].from + size[rd] + size[wr]
      BY <2>3, <3>1, <3>2, WindowHere
    <3>5. ReadFrom(wr, curOff)'
      BY <3>1, <3>3 DEF ReadFrom, Unserved, InMailbox, None
    <3> QED
      BY <3>1, <3>2, <3>3, <3>4, <3>5 DEF IsWindow, WindowInv
  <2> QED
    BY <2>2, <2>3
<1>8. CASE InputStore
  <2>1. /\ pc = "inputStore" /\ pc' = "main" /\ size' = [size EXCEPT ![wr] = 0]
        /\ UNCHANGED <<pos, rd, wr, content, curOff, want, busy, aPos, readParam, gData,
                       a2b, pipo, tail, fill, b2a, sem, apc>> /\ phase # "closed"
        /\ busy
    BY <1>8 DEF InputStore, At, Goto, PhaseInv, LinkInv
  <2>2. CASE tail
    BY <1>8, <2>2 DEF InputStore, WindowInv
  <2>3. CASE ~tail
    <3>1. IsWindow
      BY <2>1, <2>3 DEF WindowInv, Settled
    <3>2. size' = size
      BY <2>1, <3>1 DEF IsWindow
    <3>3. Unserved' <=> Unserved
      BY <2>1 DEF Unserved, InMailbox, InSlot, InService
    <3> QED
      BY <2>1, <3>2, <3>3, WindowKept DEF windowVars, Settled
  <2> QED
    BY <2>2, <2>3
<1>9. CASE ReadPart
  <2>0. /\ pc = "read" /\ phase # "closed" /\ want' = want + arg
        /\ UNCHANGED <<rd, wr, size, fill, busy, aPos, content, pipo, curOff, readParam,
                       gData, a2b, b2a, sem, apc, tail>>
    BY <1>9 DEF ReadPart, At, Copy, PhaseInv
  <2>2. CASE tail
    BY <1>9, <2>2 DEF ReadPart, WindowInv
  <2>3. CASE ~tail
    <3>1. /\ IsWindow /\ wr = 1 - rd
      BY <2>0, <2>3 DEF WindowInv, Settled, PhaseInv
    <3>2. /\ content[rd].from + pos = want /\ pos <= size[rd] /\ size[rd] \in 1 .. pipo
          /\ content[rd].len = size[rd]
          /\ curOff = content[rd].from + size[rd] + size[wr] /\ content[rd].from \in Nat
      BY <2>0, <3>1 DEF IsWindow, InRead
    <3>3. Remain = size[rd] - pos /\ size[rd] < Word
      <4>1. size[rd] - pos \in 0 .. Word - 1 /\ size[rd] < Word
        BY <3>2, WordFacts
      <4> QED
        BY <4>1, WrapWord DEF Remain, Words
    <3>4. arg \in Nat /\ pos + arg < size[rd]
      <4>1. arg \in Nat /\ arg < Remain
        BY <1>9, <2>0 DEF ReadPart, ArgInv, Words
      <4> QED
        BY <4>1, <3>2, <3>3
    <3>5. Wrap(pos + arg) = pos + arg
      <4>1. pos + arg \in 0 .. Word - 1
        BY <3>2, <3>3, <3>4, WordFacts
      <4> QED
        BY <4>1, WrapWord DEF Words
    <3>6. pc' = "main" /\ pos' = pos + arg
      BY <1>9, <3>4, <3>5 DEF ReadPart, Goto
    <3>7. InRead' = pos + arg
      BY <3>6 DEF InRead
    <3>8. content'[rd'].from + InRead' = want' /\ InRead' <= size'[rd']
      BY <2>0, <3>2, <3>4, <3>7
    <3>9. CASE busy
      <4>1. size'[wr'] = 0 /\ ReadFrom(wr, curOff)
        BY <2>0, <3>1, <3>9 DEF IsWindow
      <4>2. ReadFrom(wr, curOff)'
        BY <2>0, <4>1 DEF ReadFrom, Unserved, InMailbox, InSlot, InService, Got, Answered
      <4> QED
        BY <2>0, <3>2, <3>8, <3>9, <4>1, <4>2 DEF IsWindow, WindowInv
    <3>10. CASE ~busy
      <4>1. /\ aPos = curOff /\ (fill \/ pc = "input" => size[wr] = 0)
            /\ size[wr] # 0 => /\ content[wr].from = content[rd].from + size[rd]
                               /\ content[wr].len = size[wr]
                               /\ size[wr] \in 1 .. pipo
        BY <3>1, <3>10 DEF IsWindow
      <4> QED
        BY <2>0, <3>2, <3>6, <3>8, <3>10, <4>1, MakesWindow
    <3> QED
      BY <3>9, <3>10
  <2> QED
    BY <2>2, <2>3
<1>10. CASE ReadRest
  <2>0. /\ pc = "read" /\ phase # "closed" /\ want' = want + Remain
        /\ UNCHANGED <<rd, wr, size, fill, busy, aPos, content, pipo, curOff, readParam,
                       gData, a2b, b2a, sem, apc, tail>>
    BY <1>10 DEF ReadRest, At, Copy, PhaseInv
  <2>2. CASE tail
    BY <1>10, <2>2 DEF ReadRest, WindowInv
  <2>3. CASE ~tail
    <3>1. /\ IsWindow /\ wr = 1 - rd
      BY <2>0, <2>3 DEF WindowInv, Settled, PhaseInv
    <3>2. /\ content[rd].from + pos = want /\ pos <= size[rd] /\ size[rd] \in 1 .. pipo
          /\ content[rd].len = size[rd]
          /\ curOff = content[rd].from + size[rd] + size[wr] /\ content[rd].from \in Nat
      BY <2>0, <3>1 DEF IsWindow, InRead
    <3>3. Remain = size[rd] - pos /\ size[rd] < Word
      <4>1. size[rd] - pos \in 0 .. Word - 1 /\ size[rd] < Word
        BY <3>2, WordFacts
      <4> QED
        BY <4>1, WrapWord DEF Remain, Words
    <3>6. pc' = "switch"
      BY <1>10 DEF ReadRest, Goto
    <3>7. InRead' = size[rd]
      BY <2>0, <3>6 DEF InRead
    <3>8. content'[rd'].from + InRead' = want' /\ InRead' <= size'[rd']
      BY <2>0, <3>2, <3>3, <3>7
    <3>9. CASE busy
      <4>1. size'[wr'] = 0 /\ ReadFrom(wr, curOff)
        BY <2>0, <3>1, <3>9 DEF IsWindow
      <4>2. ReadFrom(wr, curOff)'
        BY <2>0, <4>1 DEF ReadFrom, Unserved, InMailbox, InSlot, InService, Got, Answered
      <4> QED
        BY <2>0, <3>2, <3>8, <3>9, <4>1, <4>2 DEF IsWindow, WindowInv
    <3>10. CASE ~busy
      <4>1. /\ aPos = curOff /\ (fill \/ pc = "input" => size[wr] = 0)
            /\ size[wr] # 0 => /\ content[wr].from = content[rd].from + size[rd]
                               /\ content[wr].len = size[wr]
                               /\ size[wr] \in 1 .. pipo
        BY <3>1, <3>10 DEF IsWindow
      <4> QED
        BY <2>0, <3>2, <3>6, <3>8, <3>10, <4>1, MakesWindow
    <3> QED
      BY <3>9, <3>10
  <2> QED
    BY <2>2, <2>3
<1>11. CASE Switch
  <2>2. CASE tail
    BY <1>11, <2>2 DEF Switch, WindowInv
  <2>3. CASE ~tail
    <3>1. /\ pc = "switch" /\ ~busy /\ pc' \in {"main", "read"} /\ size[1 - rd] # 0
          /\ size' = [size EXCEPT ![rd] = 0] /\ wr' = rd /\ rd' = 1 - rd /\ pos' = 0
          /\ UNCHANGED <<busy, aPos, content, want, pipo, curOff>> /\ phase # "closed"
      BY <1>11 DEF Switch, At, Ready, Goto, Resume, Swap, PhaseInv
    <3>2. /\ wr = 1 - rd /\ rd \in 0 .. 1 /\ content[rd].from + size[rd] = want
          /\ curOff = content[rd].from + size[rd] + size[wr] /\ aPos = curOff
          /\ content[wr].from = content[rd].from + size[rd] /\ content[wr].len = size[wr]
          /\ size[wr] \in 1 .. pipo /\ content[rd].from \in Nat /\ size[rd] \in Nat
      <4>1. pc \in Settled /\ InRead = size[rd] /\ wr = 1 - rd
        BY <3>1 DEF Settled, InRead, PhaseInv
      <4> QED
        BY <2>3, <3>1, <4>1, WindowHere
    <3>3. size'[rd'] = size[wr] /\ size'[wr'] = 0 /\ InRead' = 0
      BY <3>1, <3>2 DEF InRead
    <3> QED
      BY <3>1, <3>2, <3>3, MakesWindow
  <2> QED
    BY <2>2, <2>3
<1>12. CASE SwitchDone
  <2>2. CASE tail
    BY <1>12, <2>2 DEF SwitchDone, WindowInv
  <2>3. CASE ~tail
    <3>1. /\ pc = "switchWait" /\ cmdDone /\ pc' \in {"main", "read"}
          /\ curOff' = readParam.num
          /\ size' = [size EXCEPT ![rd] = gData]
          /\ UNCHANGED <<rd, wr, pos, busy, aPos, content, want, pipo>>
      BY <1>12 DEF SwitchDone, At, Ready, Goto, Resume
    <3>2. ~busy /\ ~Unserved /\ Got = gData
      BY <3>1, Taken DEF AnswerWaits
    <3>3. ReadFrom(rd, want) /\ pos = 0 /\ size[wr] = 0 /\ wr = 1 - rd
      BY <2>3, <3>1 DEF SwitchInv, PhaseInv
    <3>4. /\ content[rd].from = want /\ content[rd].len = gData
          /\ gData \in 1 .. pipo /\ aPos = want + gData /\ readParam.num = aPos
      BY <3>2, <3>3 DEF ReadFrom
    <3>6. size'[rd'] = gData /\ size'[wr'] = 0 /\ InRead' = 0 /\ content[rd].from \in Nat
      BY <3>1, <3>3 DEF InRead
    <3> QED
      BY <3>1, <3>2, <3>3, <3>4, <3>6, MakesWindow
  <2> QED
    BY <2>2, <2>3
<1>13. CASE SeekInBuffer
  <2>2. CASE tail
    BY <1>13, <2>2 DEF SeekInBuffer, WindowInv
  <2>3. CASE ~tail
    <3>1. /\ pc = "seek" /\ ~busy /\ pc' = "main" /\ InWindow /\ InReadBuffer
          /\ pos' = SeekTemp /\ want' = Target
          /\ UNCHANGED <<rd, wr, size, fill, busy, aPos, content, pipo, curOff>>
          /\ phase # "closed"
      BY <1>13 DEF SeekInBuffer, At, Ready, Goto, NowWanted, PhaseInv, Target
    <3>2. pc \in Settled /\ InRead = pos /\ InRead' = pos'
      BY <3>1 DEF Settled, InRead
    <3>3. SeekTemp \in Nat /\ content[rd].from + SeekTemp = want' /\ SeekTemp <= size[rd]
      BY <2>3, <3>1, SeekInRead
    <3>4. fill \/ pc = "input" => size[wr] = 0
      BY <2>3, <3>1, <3>2, WindowHere DEF IsWindow
    <3>5. size[wr] # 0 => size[wr] \in 1 .. pipo
      BY <2>3, <3>1, <3>2, WindowHere DEF IsWindow
    <3>6. /\ aPos = curOff /\ size[rd] \in 1 .. pipo /\ content[rd].len = size[rd]
          /\ curOff = content[rd].from + size[rd] + size[wr]
          /\ size[wr] # 0 => /\ content[wr].from = content[rd].from + size[rd]
                             /\ content[wr].len = size[wr]
      BY <2>3, <3>1, <3>2, WindowHere
    <3>7. /\ ~busy' /\ aPos' = curOff' /\ (size'[wr'] = 0 \/ ~(fill' \/ pc' = "input"))
          /\ content'[rd'].from + InRead' = want' /\ InRead' <= size'[rd']
      BY <3>1, <3>2, <3>3, <3>4, <3>6
    <3> QED
      BY <3>1, <3>5, <3>6, <3>7, MakesWindow
  <2> QED
    BY <2>2, <2>3
<1>14. CASE SeekInOther
  <2>2. CASE tail
    BY <1>14, <2>2 DEF SeekInOther, WindowInv
  <2>3. CASE ~tail
    <3>1. /\ pc = "seek" /\ ~busy /\ pc' = "main" /\ InWindow /\ ~InReadBuffer
          /\ pos' = Wrap(SeekTemp - size[rd])
          /\ want' = Target
          /\ size' = [size EXCEPT ![rd] = 0] /\ wr' = rd /\ rd' = 1 - rd
          /\ UNCHANGED <<busy, aPos, content, pipo, curOff>>
          /\ phase # "closed"
      BY <1>14 DEF SeekInOther, At, Ready, Goto, NowWanted, PhaseInv, Target, Swap
    <3>2. pc \in Settled /\ InRead' = pos'
      BY <3>1 DEF Settled, InRead
    <3>3. pos' \in Nat /\ content[wr].from + pos' = want' /\ pos' <= size[wr] /\ size[wr] # 0
      BY <2>3, <3>1, SeekInWritten
    <3>5. /\ wr = 1 - rd /\ rd \in 0 .. 1 /\ size[wr] \in 0 .. pipo
          /\ size[rd] \in Nat /\ content[rd].from \in Nat
          /\ aPos = curOff /\ curOff = content[rd].from + size[rd] + size[wr]
          /\ content[wr].from = content[rd].from + size[rd]
          /\ content[wr].len = size[wr]
      BY <2>3, <3>1, <3>2, <3>3, WindowHere
    <3>6. size[wr] \in 1 .. pipo
      BY <3>3, <3>5
    <3>7. size'[rd'] = size[wr] /\ size'[wr'] = 0
      BY <3>1, <3>5
    <3> QED
      BY <3>1, <3>2, <3>3, <3>5, <3>6, <3>7, MakesWindow
  <2> QED
    BY <2>2, <2>3
<1>15. CASE AnswerIsr
  <2>1. /\ UNCHANGED <<pos, rd, wr, content, want, aPos, pipo, tail, fill, pc, phase>>
        /\ pc # "inputStore" /\ a2b.cmd # None
    BY <1>15 DEF AnswerIsr
  <2>2. CASE tail
    BY <1>15, <2>2 DEF AnswerIsr, WindowInv
  <2>3. CASE ~tail
    <3>1. CASE phase = "closed" \/ pc \notin Settled
      BY <2>1, <3>1 DEF WindowInv
    <3>2. CASE phase # "closed" /\ pc \in Settled
      <4>1. IsWindow
        BY <2>3, <3>2 DEF WindowInv
      <4>2. busy /\ ~Unserved /\ a2b.cmd = Kind /\ Got = a2b.data /\ pc \notin SyncSeeks
        BY <2>1, <3>2, Answering DEF AnswerWaits, Settled, SyncSeeks
      <4>3. a2b.cmd = "READ" /\ ~bypass /\ ~fill /\ pc # "input"
        BY <4>2 DEF Kind, LinkInv
      <4>4. /\ curOff' = readParam.num /\ size' = [size EXCEPT ![wr] = a2b.data]
            /\ busy' = FALSE
        BY <1>15, <4>3 DEF AnswerIsr
      <4>5. /\ content[wr].from = curOff /\ content[wr].len = a2b.data
            /\ a2b.data \in 1 .. pipo /\ aPos = curOff + a2b.data /\ readParam.num = aPos
            /\ size[wr] = 0
        BY <4>1, <4>2 DEF IsWindow, ReadFrom
      <4>6. /\ content[rd].from + InRead = want /\ InRead <= size[rd]
            /\ size[rd] \in 1 .. pipo /\ content[rd].len = size[rd]
            /\ curOff = content[rd].from + size[rd] + size[wr]
        BY <4>1 DEF IsWindow
      <4>7. wr = 1 - rd
        BY <3>2 DEF PhaseInv, Settled
      <4>8. size'[wr'] = a2b.data /\ size'[rd'] = size[rd]
        BY <2>1, <4>4, <4>7
      <4>9. InRead' = InRead
        BY <2>1, <4>8 DEF InRead
      <4>10. content[rd].from \in Nat /\ size[rd] \in Nat
        OBVIOUS
      <4>11. /\ aPos' = curOff' /\ curOff' = content'[rd'].from + size'[rd'] + size'[wr']
             /\ content'[wr'].from = content'[rd'].from + size'[rd']
        BY <2>1, <4>4, <4>5, <4>6, <4>8, <4>10
      <4> QED
        BY <2>1, <4>3, <4>4, <4>5, <4>6, <4>8, <4>9, <4>11, MakesWindow
    <3> QED
      BY <3>1, <3>2
  <2> QED
    BY <2>2, <2>3
<1>16. CASE ServeSeek
  <2>1. pc \in SyncSeeks
    BY <1>16, Serving DEF ServeSeek, Kind
  <2>2. pc' \notin Settled
    BY <1>16, <2>1 DEF ServeSeek, SyncSeeks, Settled
  <2> QED
    BY <2>2 DEF WindowInv
<1>17. CASE ServeReadSome
  <2>1. UNCHANGED <<pos, rd, wr, size, curOff, want, busy, pipo, fill, pc, phase>>
    BY <1>17 DEF ServeReadSome
  <2>2. CASE tail' \/ phase = "closed" \/ pc \notin Settled
    BY <2>1, <2>2 DEF WindowInv
  <2>3. CASE ~tail' /\ phase # "closed" /\ pc \in Settled
    <3>1. ~tail
      BY <1>17, <2>3, ReadServed
    <3>2. IsWindow /\ wr = 1 - rd
      BY <2>3, <3>1 DEF WindowInv, PhaseInv, Settled
    <3>3. Unserved /\ busy
      BY <1>17, <2>3, Serving DEF ServeReadSome, AnswerWaits, Settled
    <3>4. readParam.buf = wr /\ aPos = curOff /\ size[wr] = 0
      BY <3>2, <3>3 DEF IsWindow, ReadFrom
    <3>5. ReadFrom(wr, curOff)'
      BY <1>17, <2>1, <2>3, <3>4, ReadServed DEF ReadFrom
    <3>6. content'[rd] = content[rd]
      BY <1>17, <3>2, <3>4 DEF ServeReadSome
    <3>7. InRead' = InRead
      BY <2>1 DEF InRead
    <3>8. /\ content[rd].from + InRead = want /\ InRead <= size[rd]
          /\ size[rd] \in 1 .. pipo /\ content[rd].len = size[rd]
          /\ curOff = content[rd].from + size[rd] + size[wr]
      BY <3>2 DEF IsWindow
    <3> QED
      BY <2>1, <3>3, <3>4, <3>5, <3>6, <3>7, <3>8 DEF IsWindow, WindowInv
  <2> QED
    BY <2>2, <2>3
<1>18. CASE ServeReadEnd
  <2>1. tail' = TRUE
    BY <1>18 DEF ServeReadEnd
  <2> QED
    BY <2>1 DEF WindowInv
<1> QED
  BY <1>1, <1>2, <1>3, <1>4, <1>5, <1>6, <1>7, <1>8, <1>9, <1>10, <1>11, <1>12,
     <1>13, <1>14, <1>15, <1>16, <1>17, <1>18 DEF Next, Calls, MainStep, Serve

\* The synchronous read of a switch reads the wanted byte on.
LEMMA SwitchStep == ~AnswerCanOvertake /\ IInv /\ [Next]_vars => SwitchInv'
<1> SUFFICES ASSUME ~AnswerCanOvertake, IInv, [Next]_vars PROVE SwitchInv'
  OBVIOUS
<1> USE TypeFacts DEF IInv, SwitchInv, mainVars, bufVars, isrVars, linkVars,
        coreAVars, history
<1>1. CASE WaitTest \/ WaitSleep \/ OtherInterrupt \/ UNCHANGED vars
    <2>1. UNCHANGED <<tail, pc, size, pos, rd, wr, busy, content, aPos, readParam,
      seekParam, want, arg,
                       pipo, gData, a2b, b2a, sem, apc>>
    BY <1>1 DEF WaitTest, WaitSleep, OtherInterrupt, vars
  <2>2. Got' = Got /\ (Unserved' <=> Unserved)
    BY <2>1 DEF Got, Answered, Unserved, InMailbox, InSlot, InService
  <2> QED
    BY <2>1, <2>2 DEF SwitchInv, ReadFrom
<1>2. CASE StreamIsr \/ StreamTake
    <2>1. UNCHANGED <<tail, pc, size, pos, rd, wr, busy, content, aPos, readParam,
      seekParam, want, arg,
                       pipo, gData, a2b>>
    BY <1>2 DEF StreamIsr, StreamTake
  <2>2. Got' = Got /\ Unserved /\ Unserved'
        BY <1>2, <2>1 DEF StreamIsr, StreamTake, None, Got, Answered, Unserved,
        InMailbox, InSlot, InService
  <2> QED
    BY <2>1, <2>2 DEF SwitchInv, ReadFrom
<1>3. CASE SwitchEmpty
  <2>2. CASE tail
    BY <1>3, <2>2 DEF SwitchEmpty, SwitchInv
  <2>3. CASE ~tail
    <3>1. /\ pc = "switch" /\ ~busy /\ size[1 - rd] = 0 /\ pos' = 0
          /\ size' = [size EXCEPT ![rd] = 0] /\ wr' = rd /\ rd' = 1 - rd
          /\ UNCHANGED <<busy, aPos, want>> /\ readParam' = [num |-> pipo, buf |-> 1 - rd]
          /\ b2a' = "READ" /\ phase # "closed"
      BY <1>3 DEF SwitchEmpty, At, Ready, Swap, HifiFileRead, SendCmd, PhaseInv
    <3>2. pc \in Settled /\ InRead = size[rd] /\ wr = 1 - rd
      BY <3>1 DEF Settled, InRead, PhaseInv
    <3>3. aPos = want
      <4>1. /\ content[rd].from + size[rd] = want /\ aPos = curOff
            /\ curOff = content[rd].from + size[rd] + size[wr] /\ size[wr] = 0
            /\ content[rd].from \in Nat /\ size[rd] \in 1 .. pipo
        BY <2>3, <3>1, <3>2, WindowHere
      <4> QED
        BY <4>1
    <3>4. Unserved'
      BY <3>1 DEF Unserved, InMailbox, None
    <3>5. size'[rd'] = 0 /\ size'[wr'] = 0
      BY <3>1, <3>2
    <3>6. ReadFrom(rd, want)'
      BY <3>1, <3>3, <3>4 DEF ReadFrom
    <3> QED
      BY <3>1, <3>5, <3>6 DEF SwitchInv
  <2> QED
    BY <2>2, <2>3
<1>4. CASE AnswerIsr
  <2>1. UNCHANGED <<tail, pc, pos, rd, wr, content, aPos, readParam, seekParam, want, arg,
                    pipo, b2a, sem, apc>> /\ a2b.cmd # None /\ gData' = a2b.data
        /\ a2b'.cmd = None
    BY <1>4 DEF AnswerIsr, Answer
  <2>2. CASE pc = "switchWait"
    <3>1. a2b.cmd = "READ" => bypass
      BY <2>1, <2>2, Answering DEF Kind, SyncSeeks, SyncReads, LinkInv
    <3>2. UNCHANGED <<size, busy>>
      BY <1>4, <3>1 DEF AnswerIsr
    <3>3. Got' = Got /\ (Unserved' <=> Unserved)
      BY <2>1 DEF Got, Answered, Unserved, InMailbox, InSlot, InService
    <3> QED
      BY <2>1, <3>2, <3>3 DEF SwitchInv, ReadFrom
  <2>3. CASE ~(pc = "switchWait")
    BY <2>1, <2>3 DEF SwitchInv
  <2> QED
    BY <2>2, <2>3
<1>5. CASE ServeSeek
  <2>1. pc \in SyncSeeks /\ pc' = pc
    BY <1>5, Serving DEF ServeSeek, Kind
  <2> QED
    BY <2>1 DEF SyncSeeks, SwitchInv
<1>6. CASE ServeReadSome
  <2>1. UNCHANGED <<pc, size, rd, wr, pos, busy, want, pipo>>
    BY <1>6 DEF ServeReadSome
  <2>2. CASE tail' \/ pc # "switchWait"
    BY <2>1, <2>2 DEF SwitchInv
  <2>3. CASE ~tail' /\ pc = "switchWait"
    <3>1. ~tail /\ Unserved
      BY <1>6, <2>3, ReadServed, Serving DEF ServeReadSome
    <3>2. readParam.buf = rd /\ aPos = want
      BY <2>3, <3>1 DEF SwitchInv, ReadFrom
    <3>3. ReadFrom(rd, want)'
      BY <1>6, <2>1, <2>3, <3>2, ReadServed DEF ReadFrom
    <3> QED
      BY <2>1, <2>3, <3>1, <3>3 DEF SwitchInv
  <2> QED
    BY <2>2, <2>3
<1>7. CASE ServeReadEnd
  <2>1. tail' = TRUE
    BY <1>7 DEF ServeReadEnd
  <2> QED
    BY <2>1 DEF SwitchInv
<1>8. CASE FuncInit \/ InitDone \/ DecOpen \/ KeepBuf \/ ChangeBuf \/ ChangeSeek \/
     ChangeRead \/ ChangeDone
  BY <1>8 DEF FuncInit, BufferInit, HifiFileRead, SendCmd, Goto, InitDone, At,
     DecOpen, KeepBuf, ChangeBuf, ChangeSeek, HifiFileSeek, ChangeRead, ChangeDone
<1>9. CASE FillBuffer \/ Input \/ InputStore \/ CodecCalls \/ TellDone \/ ReadPart \/
     ReadRest \/ Switch
  BY <1>9 DEF FillBuffer, Goto, Input, At, HifiFileRead, SendCmd, InputStore,
     CodecCalls, CodecCall, Tell, Read, SeekSet, SeekCur, TellDone, ReadPart, Copy,
     ReadRest, Switch, Swap, Resume
<1>10. CASE SwitchDone \/ SeekInBuffer \/ SeekInOther \/ SeekFar \/ SeekRestart
  BY <1>10 DEF SwitchDone, At, Goto, Resume, SeekInBuffer, NowWanted, SeekInOther,
     Swap, SeekFar, HifiFileSeek, SendCmd, SeekRestart, BufferInit, HifiFileRead
<1> QED
  BY <1>1, <1>2, <1>3, <1>4, <1>5, <1>6, <1>7, <1>8, <1>9, <1>10 DEF Next, Calls,
     MainStep, Serve

\* A restart reads the sector of the wanted byte.
LEMMA RestartStep == ~AnswerCanOvertake /\ IInv /\ [Next]_vars => RestartInv'
<1> SUFFICES ASSUME ~AnswerCanOvertake, IInv, [Next]_vars PROVE RestartInv'
  OBVIOUS
<1> USE TypeFacts DEF IInv, RestartInv, mainVars, bufVars, isrVars,
        linkVars, coreAVars, history
<1>1. CASE WaitTest \/ WaitSleep \/ OtherInterrupt \/ UNCHANGED vars
    <2>1. UNCHANGED <<tail, pc, size, pos, rd, wr, busy, content, aPos, readParam,
      seekParam, want, arg,
                       pipo, gData, a2b, b2a, sem, apc>>
    BY <1>1 DEF WaitTest, WaitSleep, OtherInterrupt, vars
  <2>2. Got' = Got /\ (Unserved' <=> Unserved)
    BY <2>1 DEF Got, Answered, Unserved, InMailbox, InSlot, InService
  <2> QED
    BY <2>1, <2>2 DEF RestartInv, ReadFrom, SeekTo
<1>2. CASE StreamIsr \/ StreamTake
    <2>1. UNCHANGED <<tail, pc, size, pos, rd, wr, busy, content, aPos, readParam,
      seekParam, want, arg,
                       pipo, gData, a2b>>
    BY <1>2 DEF StreamIsr, StreamTake
  <2>2. Got' = Got /\ Unserved /\ Unserved'
        BY <1>2, <2>1 DEF StreamIsr, StreamTake, None, Got, Answered, Unserved,
        InMailbox, InSlot, InService
  <2> QED
    BY <2>1, <2>2 DEF RestartInv, ReadFrom, SeekTo
<1>3. CASE FuncInit
  <2>1. /\ phase = "closed" /\ pc' = "initWait" /\ arg' = 0 /\ pos' = 0
        /\ readParam' = [num |-> OpenPipo, buf |-> 0] /\ b2a' = "READ"
        /\ UNCHANGED <<want, aPos>>
    BY <1>3 DEF FuncInit, BufferInit, HifiFileRead, SendCmd, Goto
  <2>2. want = 0 /\ aPos = 0
    BY <2>1 DEF PhaseInv
  <2>3. Unserved'
    BY <2>1 DEF Unserved, InMailbox, None
  <2>4. ReadFrom(0, want - arg)'
    BY <2>1, <2>2, <2>3 DEF ReadFrom
  <2> QED
    BY <2>1, <2>2, <2>3, <2>4, WordFacts DEF RestartInv
<1>4. CASE SeekFar
  <2>2. CASE tail
    BY <1>4, <2>2 DEF SeekFar, RestartInv
  <2>3. CASE ~tail
    <3>1. /\ pc = "seek" /\ ~busy /\ pc' = "seekWait"
          /\ seekParam' = SectorStart(SeekTarget) /\ arg' = SeekTarget % Sector
          /\ want' = Target /\ b2a' = "SEEK"
      BY <1>4 DEF SeekFar, At, Ready, Goto, HifiFileSeek, SendCmd, NowWanted, Target
    <3>2. SeekTarget = Target /\ Target \in 0 .. FileLen - 1
      BY <2>3, <3>1, SeekGoesThere, SeekHere
    <3>3. Unserved'
      BY <3>1 DEF Unserved, InMailbox, None
    <3> DEFINE t == Target
    <3>4. t \in Nat
      BY <3>2, WordFacts
    <3> HIDE DEF t
    <3>5. SectorStart(t) = t - (t % Sector)
      BY DEF SectorStart
    <3>6. seekParam' = want' - arg'
      BY <3>1, <3>2, <3>5 DEF t
    <3> QED
      BY <3>1, <3>2, <3>3, <3>6 DEF RestartInv, SeekTo
  <2> QED
    BY <2>2, <2>3
<1>5. CASE SeekRestart
  <2>2. CASE tail
    BY <1>5, <2>2 DEF SeekRestart, RestartInv
  <2>3. CASE ~tail
    <3>1. /\ pc = "seekWait" /\ cmdDone /\ pc' = "initWait" /\ pos' = 0
          /\ readParam' = [num |-> pipo, buf |-> 0] /\ b2a' = "READ"
          /\ UNCHANGED <<arg, want, aPos>>
      BY <1>5 DEF SeekRestart, At, Ready, Goto, BufferInit, HifiFileRead, SendCmd
    <3>2. ~Unserved
      BY <3>1, Taken DEF AnswerWaits
    <3>3. want \in 0 .. FileLen - 1 /\ aPos = want - arg
      BY <2>3, <3>1, <3>2 DEF RestartInv, SeekTo
    <3>4. Unserved'
      BY <3>1 DEF Unserved, InMailbox, None
    <3>5. ReadFrom(0, want - arg)'
      BY <3>1, <3>3, <3>4 DEF ReadFrom
    <3> QED
      BY <3>1, <3>3, <3>4, <3>5 DEF RestartInv
  <2> QED
    BY <2>2, <2>3
<1>6. CASE AnswerIsr
  <2>1. UNCHANGED <<tail, pc, pos, rd, wr, content, aPos, readParam, seekParam, want, arg,
                    pipo, b2a, sem, apc>> /\ a2b.cmd # None /\ gData' = a2b.data
        /\ a2b'.cmd = None
    BY <1>6 DEF AnswerIsr, Answer
  <2>2. CASE pc \in {"seekWait", "initWait"}
    <3>1. a2b.cmd = "READ" => bypass
      BY <2>1, <2>2, Answering DEF Kind, SyncSeeks, SyncReads, LinkInv
    <3>2. UNCHANGED <<size, busy>>
      BY <1>6, <3>1 DEF AnswerIsr
    <3>3. Got' = Got /\ (Unserved' <=> Unserved)
      BY <2>1 DEF Got, Answered, Unserved, InMailbox, InSlot, InService
    <3> QED
      BY <2>1, <3>2, <3>3 DEF RestartInv, ReadFrom, SeekTo
  <2>3. CASE ~(pc \in {"seekWait", "initWait"})
    BY <2>1, <2>3 DEF RestartInv
  <2> QED
    BY <2>2, <2>3
<1>7. CASE ServeSeek
  <2>1. pc \in SyncSeeks /\ UNCHANGED <<pc, call, want, arg, seekParam>> /\ aPos' = seekParam
    BY <1>7, Serving DEF ServeSeek, Kind
  <2>2. CASE tail' \/ pc = "changeSeekWait"
    BY <2>1, <2>2 DEF RestartInv
  <2>3. CASE ~tail' /\ pc = "seekWait"
    <3>1. seekParam = want - arg /\ want \in 0 .. FileLen - 1
      <4>1. CASE call = "SEEK_SET"
        BY <2>3, <4>1 DEF SectorInv
      <4>2. CASE call # "SEEK_SET"
        <5>1. ~tail
          BY <1>7, <2>3, <4>2 DEF ServeSeek
        <5> QED
          BY <2>3, <5>1 DEF RestartInv, SeekTo
      <4> QED
        BY <4>1, <4>2
    <3>2. SeekTo(want - arg)'
      BY <2>1, <3>1 DEF SeekTo
    <3> QED
      BY <2>1, <2>3, <3>1, <3>2 DEF RestartInv
  <2> QED
    BY <2>1, <2>2, <2>3 DEF SyncSeeks
<1>8. CASE ServeReadSome
  <2>1. UNCHANGED <<pc, pos, want, arg, pipo>>
    BY <1>8 DEF ServeReadSome
  <2>2. CASE tail' \/ pc # "initWait"
    <3>1. pc # "seekWait"
      BY <1>8, Serving DEF ServeReadSome, Kind, SyncSeeks
    <3> QED
      BY <2>1, <2>2, <3>1 DEF RestartInv
  <2>3. CASE ~tail' /\ pc = "initWait"
    <3>1. ~tail /\ Unserved
      BY <1>8, <2>3, ReadServed, Serving DEF ServeReadSome
    <3>2. /\ readParam.buf = 0 /\ aPos = want - arg /\ pos = 0 /\ want \in 0 .. FileLen - 1
          /\ arg \in 0 .. Sector - 1
      BY <2>3, <3>1 DEF RestartInv, ReadFrom, ArgInv
    <3>3. ReadFrom(0, want - arg)'
      BY <1>8, <2>1, <2>3, <3>2, ReadServed DEF ReadFrom
    <3>4. arg' <= Got'
      <4>1. Got' = IF aPos + pipo <= FileLen THEN pipo ELSE FileLen - aPos
        BY <1>8, <2>3, ReadServed
      <4> QED
        BY <2>1, <3>2, <4>1, WordFacts
    <3> QED
      BY <2>1, <2>3, <3>2, <3>3, <3>4 DEF RestartInv
  <2> QED
    BY <2>2, <2>3
<1>9. CASE ServeReadEnd
  <2>1. tail' = TRUE
    BY <1>9 DEF ServeReadEnd
  <2> QED
    BY <2>1 DEF RestartInv
<1>10. CASE InitDone \/ DecOpen \/ KeepBuf \/ ChangeBuf \/ ChangeSeek \/ ChangeRead \/
     ChangeDone \/ FillBuffer
  BY <1>10 DEF InitDone, At, Goto, DecOpen, KeepBuf, ChangeBuf, ChangeSeek,
     HifiFileSeek, SendCmd, ChangeRead, HifiFileRead, ChangeDone, FillBuffer
<1>11. CASE Input \/ InputStore \/ CodecCalls \/ TellDone \/ ReadPart \/ ReadRest \/ Switch
     \/ SwitchEmpty
  BY <1>11 DEF Input, At, Goto, HifiFileRead, SendCmd, InputStore, CodecCalls,
     CodecCall, Tell, Read, SeekSet, SeekCur, TellDone, ReadPart, Copy, ReadRest,
     Switch, Swap, Resume, SwitchEmpty
<1>12. CASE SwitchDone \/ SeekInBuffer \/ SeekInOther
  BY <1>12 DEF SwitchDone, At, Goto, Resume, SeekInBuffer, NowWanted, SeekInOther,
     Swap
<1> QED
  BY <1>1, <1>2, <1>3, <1>4, <1>5, <1>6, <1>7, <1>8, <1>9, <1>10, <1>11, <1>12 DEF
     Next, Calls, MainStep, Serve

\* The change of buffer size reads the read buffer again.
LEMMA ChangeStep == ~AnswerCanOvertake /\ IInv /\ [Next]_vars => ChangeInv'
<1> SUFFICES ASSUME ~AnswerCanOvertake, IInv, [Next]_vars PROVE ChangeInv'
  OBVIOUS
<1> USE TypeFacts DEF IInv, ChangeInv, mainVars, bufVars, isrVars, linkVars,
        coreAVars, history
<1>1. CASE WaitTest \/ WaitSleep \/ OtherInterrupt \/ UNCHANGED vars
    <2>1. UNCHANGED <<tail, pc, size, pos, rd, wr, busy, content, aPos, readParam,
      seekParam, want, arg,
                       pipo, gData, a2b, b2a, sem, apc>>
    BY <1>1 DEF WaitTest, WaitSleep, OtherInterrupt, vars
  <2>2. Got' = Got /\ (Unserved' <=> Unserved)
    BY <2>1 DEF Got, Answered, Unserved, InMailbox, InSlot, InService
  <2> QED
    BY <2>1, <2>2 DEF ChangeInv, ReadFrom, SeekTo
<1>2. CASE StreamIsr \/ StreamTake
    <2>1. UNCHANGED <<tail, pc, size, pos, rd, wr, busy, content, aPos, readParam,
      seekParam, want, arg,
                       pipo, gData, a2b>>
    BY <1>2 DEF StreamIsr, StreamTake
  <2>2. Got' = Got /\ Unserved /\ Unserved'
        BY <1>2, <2>1 DEF StreamIsr, StreamTake, None, Got, Answered, Unserved,
        InMailbox, InSlot, InService
  <2> QED
    BY <2>1, <2>2 DEF ChangeInv, ReadFrom, SeekTo
<1>3. CASE ChangeSeek
  <2>2. CASE tail
    BY <1>3, <2>2 DEF ChangeSeek, ChangeInv
  <2>3. CASE ~tail
    <3>1. /\ pc' = "changeSeekWait" /\ b2a' = "SEEK"
          /\ seekParam' = Wrap(Wrap(curOff - size[0]) - size[1]) /\ UNCHANGED <<pos, want>>
      BY <1>3 DEF ChangeSeek, Goto, HifiFileSeek, SendCmd
    <3>2. /\ content[rd].from + pos = want /\ pos <= size[rd] /\ size[rd] \in 1 .. 512
          /\ want <= FileLen /\ content[rd].from < FileLen
          /\ seekParam' = content[rd].from
          /\ content[rd].from \in Nat /\ pos \in Nat
      BY <1>3, <2>3, <3>1, ChangeFrom
    <3>3. Unserved'
      BY <3>1 DEF Unserved, InMailbox, None
    <3>4. pos \in 0 .. 512 /\ want \in 0 .. FileLen /\ want - pos \in 0 .. FileLen - 1
          /\ seekParam' = want - pos
      BY <3>2, WordFacts
    <3> QED
      BY <3>1, <3>3, <3>4 DEF ChangeInv, SeekTo, OpenPipo
  <2> QED
    BY <2>2, <2>3
<1>4. CASE ChangeRead
  <2>2. CASE tail
    BY <1>4, <2>2 DEF ChangeRead, ChangeInv
  <2>3. CASE ~tail
    <3>1. /\ pc = "changeSeekWait" /\ cmdDone /\ pc' = "changeWait"
          /\ readParam' = [num |-> pipo, buf |-> rd] /\ b2a' = "READ"
          /\ UNCHANGED <<rd, pos, want, aPos>>
      BY <1>4 DEF ChangeRead, At, Ready, Goto, HifiFileRead, SendCmd
    <3>2. ~Unserved
      BY <3>1, Taken DEF AnswerWaits
    <3>3. /\ pos \in 0 .. OpenPipo /\ want \in 0 .. FileLen
          /\ want - pos \in 0 .. FileLen - 1 /\ aPos = want - pos
      BY <2>3, <3>1, <3>2 DEF ChangeInv, SeekTo
    <3>4. Unserved'
      BY <3>1 DEF Unserved, InMailbox, None
    <3>5. ReadFrom(rd, want - pos)'
      BY <3>1, <3>3, <3>4 DEF ReadFrom
    <3> QED
      BY <3>1, <3>3, <3>4, <3>5 DEF ChangeInv
  <2> QED
    BY <2>2, <2>3
<1>5. CASE AnswerIsr
  <2>1. UNCHANGED <<tail, pc, pos, rd, wr, content, aPos, readParam, seekParam, want, arg,
                    pipo, b2a, sem, apc>> /\ a2b.cmd # None /\ gData' = a2b.data
        /\ a2b'.cmd = None
    BY <1>5 DEF AnswerIsr, Answer
  <2>2. CASE pc \in {"changeSeekWait", "changeWait"}
    <3>1. a2b.cmd = "READ" => bypass
      BY <2>1, <2>2, Answering DEF Kind, SyncSeeks, SyncReads, LinkInv
    <3>2. UNCHANGED <<size, busy>>
      BY <1>5, <3>1 DEF AnswerIsr
    <3>3. Got' = Got /\ (Unserved' <=> Unserved)
      BY <2>1 DEF Got, Answered, Unserved, InMailbox, InSlot, InService
    <3> QED
      BY <2>1, <3>2, <3>3 DEF ChangeInv, ReadFrom, SeekTo
  <2>3. CASE ~(pc \in {"changeSeekWait", "changeWait"})
    BY <2>1, <2>3 DEF ChangeInv
  <2> QED
    BY <2>2, <2>3
<1>6. CASE ServeSeek
  <2>1. pc \in SyncSeeks /\ UNCHANGED <<pc, pos, want, seekParam>> /\ aPos' = seekParam
    BY <1>6, Serving DEF ServeSeek, Kind
  <2>2. CASE tail' \/ pc = "seekWait"
    BY <2>1, <2>2 DEF ChangeInv
  <2>3. CASE ~tail' /\ pc = "changeSeekWait"
    <3>1. ~tail
      BY <1>6, <2>3 DEF ServeSeek, ArgInv
    <3>2. /\ pos \in 0 .. OpenPipo /\ want \in 0 .. FileLen
          /\ want - pos \in 0 .. FileLen - 1 /\ seekParam = want - pos
      BY <2>3, <3>1 DEF ChangeInv, SeekTo
    <3>3. SeekTo(want - pos)'
      BY <2>1, <3>2 DEF SeekTo
    <3> QED
      BY <2>1, <2>3, <3>2, <3>3 DEF ChangeInv
  <2> QED
    BY <2>1, <2>2, <2>3 DEF SyncSeeks
<1>7. CASE ServeReadSome
  <2>1. UNCHANGED <<pc, pos, want, rd, pipo>>
    BY <1>7 DEF ServeReadSome
  <2>2. CASE tail' \/ pc # "changeWait"
    <3>1. pc # "changeSeekWait"
      BY <1>7, Serving DEF ServeReadSome, Kind, SyncSeeks
    <3> QED
      BY <2>1, <2>2, <3>1 DEF ChangeInv
  <2>3. CASE ~tail' /\ pc = "changeWait"
    <3>1. ~tail /\ Unserved
      BY <1>7, <2>3, ReadServed, Serving DEF ServeReadSome
    <3>2. /\ readParam.buf = rd /\ aPos = want - pos /\ pos \in 0 .. OpenPipo
          /\ want \in 0 .. FileLen /\ want - pos \in 0 .. FileLen - 1
      BY <2>3, <3>1 DEF ChangeInv, ReadFrom
    <3>3. ReadFrom(rd, want - pos)'
      BY <1>7, <2>1, <2>3, <3>2, ReadServed DEF ReadFrom
    <3>4. pos' <= Got'
      <4>1. Got' = IF aPos + pipo <= FileLen THEN pipo ELSE FileLen - aPos
        BY <1>7, <2>3, ReadServed
      <4> QED
        BY <2>1, <3>2, <4>1, WordFacts
    <3> QED
      BY <2>1, <2>3, <3>2, <3>3, <3>4 DEF ChangeInv
  <2> QED
    BY <2>2, <2>3
<1>8. CASE ServeReadEnd
  <2>1. tail' = TRUE
    BY <1>8 DEF ServeReadEnd
  <2> QED
    BY <2>1 DEF ChangeInv
<1>9. CASE FuncInit \/ InitDone \/ DecOpen \/ KeepBuf \/ ChangeBuf \/ ChangeDone \/
     FillBuffer \/ Input
  BY <1>9 DEF FuncInit, BufferInit, HifiFileRead, SendCmd, Goto, InitDone, At,
     DecOpen, KeepBuf, ChangeBuf, ChangeDone, FillBuffer, Input
<1>10. CASE InputStore \/ CodecCalls \/ TellDone \/ ReadPart \/ ReadRest \/ Switch \/
     SwitchEmpty \/ SwitchDone
  BY <1>10 DEF InputStore, At, Goto, CodecCalls, CodecCall, Tell, Read, SeekSet,
     SeekCur, TellDone, ReadPart, Copy, ReadRest, Switch, Swap, Resume, SwitchEmpty,
     HifiFileRead, SendCmd, SwitchDone
<1>11. CASE SeekInBuffer \/ SeekInOther \/ SeekFar \/ SeekRestart
  BY <1>11 DEF SeekInBuffer, At, Goto, NowWanted, SeekInOther, Swap, SeekFar,
     HifiFileSeek, SendCmd, SeekRestart, BufferInit, HifiFileRead
<1> QED
  BY <1>1, <1>2, <1>3, <1>4, <1>5, <1>6, <1>7, <1>8, <1>9, <1>10, <1>11 DEF Next,
     Calls, MainStep, Serve

-----------------------------------------------------------------------------
(* The theorems *)

\* The state the program starts in.
LEMMA InitInv == Init => IInv
<1> SUFFICES ASSUME Init PROVE IInv
  OBVIOUS
<1>1. /\ phase = "closed" /\ pc = "main" /\ call = None /\ arg = 0 /\ wfi = "run"
      /\ pos = 0 /\ rd = 0 /\ wr = 0 /\ pipo = OpenPipo /\ fill = FALSE
      /\ busy = FALSE /\ bypass = FALSE /\ cmdDone = FALSE /\ gData = 0 /\ curOff = 0
      /\ seekParam = 0 /\ b2a = None
      /\ slot = None /\ sem = FALSE /\ apc = "take" /\ aPos = 0 /\ aOff = 0
      /\ want = 0 /\ tail = FALSE /\ past = 0
  BY DEF Init
<1>2. /\ size = [b \in 0 .. 1 |-> 0] /\ readParam = [num |-> 0, buf |-> 0]
      /\ a2b = [cmd |-> None, data |-> 0]
      /\ content = [b \in 0 .. 1 |-> [from |-> 0, len |-> 0]]
      /\ chunk = [from |-> 0, len |-> 0, fresh |-> TRUE]
  BY DEF Init, Answer, Piece
<1>3. 0 \in Words
  BY WordFacts DEF Words
<1>4. TypeOK
  <2>1. MainType
    BY <1>1 DEF MainType, None
  <2>2. BufferType
    <3>1. size \in [0 .. 1 -> Words]
      BY <1>2, <1>3
    <3>2. pipo \in {OpenPipo, PlayPipo} /\ pos \in Words /\ rd \in 0 .. 1 /\ wr \in 0 .. 1
      BY <1>1, <1>3
    <3> QED
      BY <1>1, <3>1, <3>2 DEF BufferType
  <2>3. SharedType
    BY <1>1, <1>3 DEF SharedType
  <2>4. LinkType
    BY <1>1, <1>2, <1>3 DEF LinkType
  <2>5. CoreAType
    <3>1. content \in [0 .. 1 -> [from: Words, len: Words]]
      <4>1. [from |-> 0, len |-> 0] \in [from: Words, len: Words]
        BY <1>3
      <4> QED
        BY <1>2, <4>1
    <3>2. slot \in Commands \cup {None} /\ aPos \in Words /\ aOff \in Words
      BY <1>1, <1>3
    <3>3. sem \in BOOLEAN /\ apc \in {"take", "serve"}
      BY <1>1
    <3> QED
      BY <3>1, <3>2, <3>3 DEF CoreAType
  <2>6. HistoryType
    <3>1. chunk \in [from: Int, len: Int, fresh: BOOLEAN]
      BY <1>2
    <3>2. past \in 0 .. PastEnd /\ want \in Int
      BY <1>1, WordFacts
    <3>3. tail \in BOOLEAN
      BY <1>1
    <3> QED
      BY <3>1, <3>2, <3>3 DEF HistoryType
  <2> QED
    BY <2>1, <2>2, <2>3, <2>4, <2>5, <2>6 DEF TypeOK
<1>5. ArgInv /\ PhaseInv
  BY <1>1 DEF ArgInv, PhaseInv, None
<1>6. a2b.cmd = None
  BY <1>2
<1>7. LinkInv
  BY <1>1, <1>6 DEF LinkInv, OneRequest, InMailbox, InSlot, InService, Answered,
     Outstanding, Unserved, AnswerWaits, SyncReads
<1>8. SectorInv
  <2>1. \A b \in 0 .. 1: content[b].from = 0
    BY <1>2
  <2>2. 0 % Sector = 0
    BY WordFacts
  <2> QED
    BY <1>1, <2>1, <2>2 DEF SectorInv
<1>9. StorageInv
  BY <1>1, WordFacts DEF StorageInv
<1>10. FillInv /\ TellInv
  BY <1>1, <1>6 DEF FillInv, TellInv, Answered, None
<1>11. WindowInv /\ SwitchInv /\ RestartInv /\ ChangeInv
  BY <1>1 DEF WindowInv, SwitchInv, RestartInv, ChangeInv
<1> QED
  BY <1>4, <1>5, <1>7, <1>8, <1>9, <1>10, <1>11 DEF IInv

\* Every step of either core keeps the invariant.
LEMMA NextInv == ~AnswerCanOvertake /\ IInv /\ [Next]_vars => IInv'
<1> SUFFICES ASSUME ~AnswerCanOvertake, IInv, [Next]_vars PROVE IInv'
  OBVIOUS
<1>1. TypeOK'
  BY MainStepType, BufferStepType, SharedStepType, LinkStepType, CoreAStepType,
     HistoryStepType DEF TypeOK
<1>2. ArgInv' /\ PhaseInv' /\ LinkInv'
  BY ArgStep, PhaseStep, LinkStep
<1>3. SectorInv' /\ StorageInv' /\ FillInv' /\ TellInv'
  BY SectorStep, StorageStep, FillStep, TellStep
<1>4. WindowInv' /\ SwitchInv' /\ RestartInv' /\ ChangeInv'
  BY WindowStep, SwitchStep, RestartStep, ChangeStep
<1> QED
  BY <1>1, <1>2, <1>3, <1>4 DEF IInv

\* The inductive invariant holds of every reachable state, for every file
\* length, buffer size, word size and codec, when answers do not overtake the
\* store of AudioFileInput2.
THEOREM Invariant ==
  ASSUME ~AnswerCanOvertake
  PROVE  Spec => []IInv
<1>1. IInv /\ [Next]_vars => IInv'
  BY NextInv
<1> QED
  BY InitInv, <1>1, PTL DEF Spec

\* Every variable keeps its type: no unsigned quantity of the file layer ever
\* leaves its word.
THEOREM TypeCorrect ==
  ASSUME ~AnswerCanOvertake
  PROVE  Spec => []TypeOK
<1>1. IInv => TypeOK
  BY DEF IInv
<1> QED
  BY Invariant, <1>1, PTL

\* One request at most is between the cores, and one exactly while the B core
\* waits or prefetches: the unprotected slot, mailbox and parameter blocks are
\* never overwritten before they are used.
THEOREM AtMostOneRequest ==
  ASSUME ~AnswerCanOvertake
  PROVE  Spec => []OneRequest
<1>1. IInv => OneRequest
  BY DEF IInv, LinkInv
<1> QED
  BY Invariant, <1>1, PTL

\* Storage never fills the buffer a codec is copying from.
THEOREM ReadBufferIsQuiet ==
  ASSUME ~AnswerCanOvertake
  PROVE  Spec => []NoReadWhileFilled
<1>1. IInv => NoReadWhileFilled
  <2> SUFFICES ASSUME IInv, pc = "read", Unserved PROVE readParam.buf # rd
    BY DEF NoReadWhileFilled, Unserved
  <2>1. busy
    BY Quiet DEF AnswerWaits
  <2>2. readParam.buf = wr /\ wr = 1 - rd /\ rd \in 0 .. 1
    BY <2>1, TypeFacts DEF IInv, LinkInv, PhaseInv
  <2> QED
    BY <2>2
<1> QED
  BY Invariant, <1>1, PTL

\* Until the end of the file is reported, the buffers are a window on the file
\* between any two calls.
THEOREM BuffersAreWindow ==
  ASSUME ~AnswerCanOvertake
  PROVE  Spec => []Window
<1>1. IInv => Window
  <2> SUFFICES ASSUME IInv, pc = "main", phase # "closed", ~busy, ~tail PROVE Window
    BY DEF Window
  <2>1. pc \in Settled /\ InRead = pos
    BY DEF Settled, InRead
  <2>2. /\ wr = 1 - rd /\ content[rd].from + pos = want /\ pos <= size[rd]
        /\ size[rd] \in Nat /\ content[rd].len = size[rd]
        /\ size[wr] # 0 => /\ content[wr].from = content[rd].from + size[rd]
                           /\ content[wr].len = size[wr]
        /\ curOff = content[rd].from + size[rd] + size[wr] /\ aPos = curOff
        /\ size[wr] \in Nat
    BY <2>1, WindowHere, TypeFacts
  <2> QED
    BY <2>2 DEF Window
<1> QED
  BY Invariant, <1>1, PTL

\* An empty second buffer is being filled or about to be, at the end of the
\* file too.
THEOREM SecondBufferIsFilled ==
  ASSUME ~AnswerCanOvertake
  PROVE  Spec => []EmptyBufferIsFilled
<1>1. IInv => EmptyBufferIsFilled
  BY DEF IInv, FillInv, EmptyBufferIsFilled, AnswerWaits
<1> QED
  BY Invariant, <1>1, PTL

\* Storage reads start at a sector, or at the end of the file.
THEOREM ReadsStartAtSectors ==
  ASSUME ~AnswerCanOvertake
  PROVE  Spec => []ReadsAligned
<1>1. IInv => ReadsAligned
  BY DEF IInv, StorageInv, ReadsAligned
<1> QED
  BY Invariant, <1>1, PTL

\* AudioFileTell2 is right, or behind by the prefetch that completed under it.
THEOREM TellIsNearlyRight ==
  ASSUME ~AnswerCanOvertake
  PROVE  Spec => []TellIsNear
<1>1. IInv => TellIsNear
  BY DEF IInv, TellInv, TellIsNear
<1> QED
  BY Invariant, <1>1, PTL

-----------------------------------------------------------------------------
(* The file layer implements a sequential file *)

\* Initially the codec is at the start of a file that has not ended.
LEMMA FileInit == Init => File!Init
BY DEF Init, File!Init, Piece, File!Piece

\* The rest of the read buffer is inside the file.
LEMMA RestInFile ==
  ASSUME IInv, ~tail, pc = "read"
  PROVE  /\ content[rd].from + pos = want /\ pos \in 0 .. size[rd]
         /\ content[rd].len = size[rd] /\ size[rd] \in Nat /\ content[rd].from \in Nat
         /\ content[rd].from + size[rd] <= FileLen /\ Remain = size[rd] - pos
<1>1. IsWindow /\ InRead = pos
  BY DEF IInv, WindowInv, PhaseInv, Settled, InRead
<1>2. /\ content[rd].from \in Nat /\ size[rd] \in Nat /\ size[wr] \in Nat /\ pos \in Nat
      /\ aPos \in Nat /\ pipo \in {512, PlayPipo}
  BY TypeFacts
<1>3. /\ content[rd].from + pos = want /\ pos <= size[rd] /\ size[rd] \in 1 .. pipo
      /\ content[rd].len = size[rd]
      /\ curOff = content[rd].from + size[rd] + size[wr]
  BY <1>1 DEF IsWindow
<1>4. aPos <= FileLen
  BY DEF IInv, StorageInv
<1>5. curOff <= aPos
  <2>1. CASE busy
    <3>1. ReadFrom(wr, curOff)
      BY <1>1, <2>1 DEF IsWindow
    <3>2. CASE Unserved
      BY <3>1, <3>2, <1>2, <1>3 DEF ReadFrom
    <3>3. CASE ~Unserved
      <4>1. Got \in 1 .. pipo /\ aPos = curOff + Got
        BY <3>1, <3>3 DEF ReadFrom
      <4> QED
        BY <4>1, <1>2, <1>3
    <3> QED
      BY <3>2, <3>3
  <2>2. CASE ~busy
    BY <1>1, <2>2, <1>2 DEF IsWindow
  <2> QED
    BY <2>1, <2>2
<1>6. content[rd].from + size[rd] <= FileLen
  BY <1>2, <1>3, <1>4, <1>5, WordFacts
<1>7. Remain = size[rd] - pos
  <2>1. size[rd] - pos \in 0 .. Word - 1
    BY <1>2, <1>3, WordFacts
  <2> QED
    BY <2>1, WrapWord DEF Remain, Words
<1> QED
  BY <1>2, <1>3, <1>6, <1>7

\* A read delivers the next bytes of the file.
LEMMA ReadDelivers ==
  ASSUME IInv, IInv', ReadPart \/ ReadRest
  PROVE  File!Next
<1>1. pc = "read" /\ tail' = tail
  BY DEF ReadPart, ReadRest, At
<1>2. PICK k : /\ k = arg \/ k = Remain
               /\ k = arg => arg < Remain \/ Remain = arg
               /\ chunk' = Piece(content[rd].from + pos, k, pos + k <= content[rd].len)
               /\ want' = want + k
  BY DEF ReadPart, ReadRest, Copy
<1>3. CASE tail
  <2>1. want' \in Int /\ tail' = TRUE
    BY <1>1, <1>3 DEF IInv, TypeOK, HistoryType
  <2> QED
    BY <1>3, <2>1 DEF File!Next, File!Adrift
<1>4. CASE ~tail
  <2>1. /\ content[rd].from + pos = want /\ pos \in 0 .. size[rd]
        /\ content[rd].len = size[rd] /\ size[rd] \in Nat /\ content[rd].from \in Nat
        /\ content[rd].from + size[rd] <= FileLen /\ Remain = size[rd] - pos
    BY <1>1, <1>4, RestInFile
  <2>2. arg \in Nat
    BY <1>1 DEF IInv, ArgInv, Words
  <2>3. k \in Nat /\ pos + k <= size[rd]
    BY <1>2, <2>1, <2>2
  <2>4. /\ chunk'.from = want /\ chunk'.len = k
        /\ chunk'.fresh = (pos + k <= content[rd].len)
    BY <1>2, <2>1 DEF Piece
  <2>5. want + k <= FileLen
    BY <2>1, <2>3, WordFacts
  <2>6. File!Deliver
    BY <1>1, <1>2, <1>4, <2>1, <2>3, <2>4, <2>5 DEF File!Deliver
  <2> QED
    BY <2>6 DEF File!Next
<1> QED
  BY <1>3, <1>4

\* A seek is a seek of the sequential file.
LEMMA SeekSeeks ==
  ASSUME IInv, IInv', SeekInBuffer \/ SeekInOther \/ SeekFar
  PROVE  File!Next
<1>1. /\ pc = "seek" /\ chunk' = chunk /\ tail' = tail
      /\ want' = IF call = "SEEK_SET" THEN arg ELSE want + arg
  BY DEF SeekInBuffer, SeekInOther, SeekFar, At, NowWanted
<1>2. CASE tail
  <2>1. want' \in Int /\ tail' = TRUE
    BY <1>1, <1>2 DEF IInv, TypeOK, HistoryType
  <2> QED
    BY <1>2, <2>1 DEF File!Next, File!Adrift
<1>3. CASE ~tail
  <2>1. want' \in 0 .. FileLen
    <3>1. want' \in 0 .. FileLen - 1
      BY <1>1 DEF IInv, ArgInv
    <3> QED
      BY <3>1, WordFacts
  <2> QED
    BY <1>1, <1>3, <2>1 DEF File!Next, File!Seek
<1> QED
  BY <1>2, <1>3

\* Storage reaches the end, or a seek restarts the buffers.
LEMMA ServeIsEndOrRestart ==
  ASSUME IInv, Serve
  PROVE  File!Next \/ UNCHANGED File!vars
<1>1. UNCHANGED <<want, chunk>>
  BY DEF Serve, ServeSeek, ServeReadSome, ServeReadEnd
<1>2. tail \in BOOLEAN /\ tail' \in BOOLEAN
  BY DEF IInv, TypeOK, HistoryType, Serve, ServeSeek, ServeReadSome, ServeReadEnd
<1>3. CASE tail' = tail
  BY <1>1, <1>3 DEF File!vars
<1>4. CASE tail' = TRUE
  BY <1>1, <1>4 DEF File!Next, File!ReachEnd
<1>5. CASE tail = TRUE /\ tail' = FALSE
  <2>1. ServeSeek /\ call = "SEEK_SET"
    BY <1>5 DEF Serve, ServeSeek, ServeReadSome, ServeReadEnd
  <2>2. pc = "seekWait"
    <3>1. pc \in {"seekWait", "changeSeekWait"}
      BY <2>1, Serving DEF ServeSeek, Kind, SyncSeeks
    <3> QED
      BY <2>1, <3>1 DEF IInv, ArgInv
  <2>3. want \in 0 .. FileLen
    <3>1. want \in 0 .. FileLen - 1
      BY <2>1, <2>2 DEF IInv, SectorInv
    <3> QED
      BY <3>1, WordFacts
  <2> QED
    BY <1>1, <1>5, <2>3 DEF File!Next, File!Restart
<1> QED
  BY <1>2, <1>3, <1>4, <1>5

\* Every step is a step of the sequential file, or none.
LEMMA FileStep ==
  ASSUME IInv, IInv', [Next]_vars
  PROVE  [File!Next]_(File!vars)
<1>1. CASE ReadPart \/ ReadRest
  BY <1>1, ReadDelivers
<1>2. CASE SeekInBuffer \/ SeekInOther \/ SeekFar
  BY <1>2, SeekSeeks
<1>3. CASE Serve
  BY <1>3, ServeIsEndOrRestart
<1>4. CASE Calls
  BY <1>4 DEF Calls, FuncInit, DecOpen, KeepBuf, ChangeBuf, FillBuffer, CodecCalls, Tell,
              Read, SeekSet, SeekCur, CodecCall, history, File!vars
<1>5. CASE \/ WaitTest \/ WaitSleep \/ InitDone \/ ChangeSeek \/ ChangeRead \/ ChangeDone
           \/ Input \/ InputStore \/ Switch \/ SwitchEmpty \/ SwitchDone \/ SeekRestart
           \/ TellDone
  BY <1>5 DEF WaitTest, WaitSleep, InitDone, ChangeSeek, ChangeRead, ChangeDone, Input,
              InputStore, Switch, SwitchEmpty, SwitchDone, SeekRestart, TellDone, history,
              File!vars
<1>6. CASE OtherInterrupt \/ AnswerIsr \/ StreamIsr \/ StreamTake \/ UNCHANGED vars
  BY <1>6 DEF OtherInterrupt, AnswerIsr, StreamIsr, StreamTake, vars, history, File!vars
<1> QED
  BY <1>1, <1>2, <1>3, <1>4, <1>5, <1>6 DEF Next, MainStep

\* The double-buffered, cross-core file layer implements the sequential file its
\* codecs expect, for every file length, buffer size and codec, until the end of
\* the file is reported.
THEOREM Refinement ==
  ASSUME ~AnswerCanOvertake
  PROVE  Spec => ImplementsFile
<1>1. IInv /\ IInv' /\ [Next]_vars => [File!Next]_(File!vars)
  BY FileStep
<1>2. Spec => []IInv
  BY Invariant
<1> QED
  BY <1>1, <1>2, FileInit, PTL DEF Spec, ImplementsFile, File!Spec
=============================================================================
