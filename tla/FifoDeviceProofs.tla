-------------------------- MODULE FifoDeviceProofs --------------------------
(***************************************************************************)
(* The theorems about FifoDevice, whichever comes first, the download or   *)
(* the control task that asks for its size.  The invariant is inductive; a *)
(* reader goes on without its data only after the wake-up that SetTotalSize *)
(* gave to nobody, and no wake-up is lost; and StreamControl reads the     *)
(* file as StorageFile has it.                                             *)
(***************************************************************************)
EXTENDS FifoDevice, TLAPS

\* The counters of a download are far from the end of their words.
LEMMA WordFacts ==
  /\ FileLen \in Nat /\ FileLen > 0 /\ Word \in Nat /\ 2 * FileLen < Word
  /\ Capacity \in Nat /\ 2 * Capacity < Word
BY CapacityAssumption

\* A word is what it is; a sum or difference of two words is a word.
LEMMA WrapWord ==
  /\ \A x \in -Word .. 2 * Word - 1: Wrap(x) \in Words
  /\ \A x \in Words: Wrap(x) = x
BY WordFacts DEF Wrap, Words

\* What the invariant says of the counters.
LEMMA Counters ==
  ASSUME IInv
  PROVE  /\ front \in 0 .. FileLen /\ back \in 0 .. FileLen /\ readPos \in 0 .. back
         /\ front \in Words /\ back \in Words /\ size \in Nat
         /\ left \in Nat /\ have \in Nat
         /\ back <= total /\ (total = 0 \/ total = FileLen)
         /\ control = "on" => total = FileLen
<1>1. front \in Nat /\ back \in Nat /\ left \in Nat /\ have \in Nat /\ readPos \in Nat
      /\ size \in Nat
  BY WordFacts DEF IInv, TypeOK, Words
<1>2. total = 0 \/ total = FileLen
  BY DEF IInv, TypeOK, HttpInv
<1>3. front <= FileLen /\ back <= total /\ readPos <= back
  BY <1>1, WordFacts DEF IInv, TypeOK, HttpInv, ReaderInv
<1>4. front \in Words /\ back \in Words
  BY DEF IInv, TypeOK
<1>5. control = "on" => total = FileLen
  BY DEF IInv, TypeOK, HttpInv, ControlInv
<1> QED
  BY <1>1, <1>2, <1>3, <1>4, <1>5, WordFacts

\* The length of a read is not 0 and stays in the file.
LEMMA ReadSize ==
  ASSUME IInv, spc \in Asking \cup {"copy", "copyNothing"}
  PROVE  size \in 1 .. FileLen /\ back + size <= FileLen /\ back < FileLen
<1>1. PICK n \in ReadLens: size = (IF back + n <= FileLen THEN n ELSE FileLen - back)
  BY DEF IInv, ReaderInv
<1>2. back < FileLen
  BY DEF IInv, ReaderInv
<1>3. n \in 1 .. Capacity
  BY InputAssumption
<1> QED
  BY <1>1, <1>2, <1>3, Counters, WordFacts

\* The difference of the counters, as the code computes it.
LEMMA Difference ==
  ASSUME NEW f \in 0 .. FileLen, NEW b \in 0 .. FileLen
  PROVE  /\ b <= f => Wrap(f - b) = f - b
         /\ f < b => Wrap(f - b) > FileLen
         /\ Wrap(f - b) \in Words
<1>1. CASE b <= f
  <2>1. f - b \in Words /\ ~(f < b)
    BY <1>1, WordFacts DEF Words
  <2> QED
    BY <1>1, <2>1, WrapWord
<1>2. CASE f < b
  <2>1. Wrap(f - b) = f - b + Word
    BY <1>2, WordFacts DEF Wrap
  <2> QED
    BY <1>2, <2>1, WordFacts DEF Words
<1> QED
  BY <1>1, <1>2

\* What the next piece can be.
LEMMA PieceSize ==
  ASSUME NEW bytes \in Nat, NEW more \in Nat
  PROVE  /\ Piece(bytes, more) \in 0 .. bytes
         /\ HttpNext(bytes, more) = "recv" => more > 0
         /\ HttpNext(bytes, more) = "disk" => Piece(bytes, more) \in 1 .. bytes
         /\ HttpNext(bytes, more) = "over" => more = 0 /\ bytes = 0
         /\ HttpNext(bytes, more) \in {"recv", "disk", "over"}
<1>1. CASE bytes >= LargePiece
  BY <1>1 DEF Piece, HttpNext, LargePiece, SmallPiece
<1>2. CASE bytes < LargePiece /\ more > 0
  <2>1. Piece(bytes, more) = 0
    BY <1>2 DEF Piece, LargePiece, SmallPiece
  <2> QED
    BY <1>2, <2>1 DEF HttpNext
<1>3. CASE bytes \in SmallPiece .. LargePiece - 1 /\ more = 0
  <2>1. Piece(bytes, more) = SmallPiece
    BY <1>3 DEF Piece, LargePiece, SmallPiece
  <2> QED
    BY <1>3, <2>1 DEF HttpNext, SmallPiece
<1>4. CASE bytes < SmallPiece /\ more = 0
  <2>1. Piece(bytes, more) = bytes
    BY <1>4 DEF Piece, LargePiece, SmallPiece
  <2> QED
    BY <1>4, <2>1 DEF HttpNext
<1> QED
  BY <1>1, <1>2, <1>3, <1>4 DEF LargePiece, SmallPiece

-----------------------------------------------------------------------------
(* Each group of steps keeps the invariant *)

\* Asking for the size, and taking the wake-up that says it is known.
LEMMA ControlKeeps ==
  ASSUME IInv, Control
  PROVE  IInv'
<1>1. CASE AskSize
  <2>1. /\ control = "off" /\ At("idle") /\ readReq = 0
        /\ control' = (IF total = 0 THEN "asks" ELSE "on")
        /\ UNCHANGED <<deviceVars, httpVars, streamVars, history>>
    BY <1>1 DEF AskSize, IInv, ControlInv
  <2>2. total = 0 <=> dpc = "start"
    BY WordFacts DEF IInv, HttpInv
  <2>3. ~surplus => dpc = "start" /\ ~readSem
    BY <2>1 DEF IInv, ControlInv, WakeupInv
  <2>4. dpc = "start" => ~surplus
    BY DEF IInv, HttpInv
  <2>5. TypeOK'
    BY <2>1 DEF IInv, TypeOK, deviceVars, sizeVars, waitVars, httpVars, streamVars, history, marks
  <2>6. HttpInv' /\ ReaderInv' /\ RequestInv'
    BY <2>1 DEF IInv, HttpInv, ReaderInv, RequestInv, At, deviceVars, sizeVars, waitVars, httpVars,
       streamVars, history, marks
  <2>7. ControlInv'
    BY <2>1, <2>2, <2>3, <2>4 DEF IInv, TypeOK, ControlInv, At, deviceVars, waitVars, httpVars,
       streamVars, history, marks
  <2>8. WakeupInv'
    BY <2>1, <2>3 DEF IInv, WakeupInv, At, deviceVars, sizeVars, waitVars, streamVars, history,
       marks
  <2> QED
    BY <2>5, <2>6, <2>7, <2>8 DEF IInv
<1>2. CASE LearnSize
  <2>1. TypeOK'
    BY <1>2 DEF LearnSize, IInv, TypeOK, sizeVars, httpVars, streamVars, history, marks
  <2>2. dpc # "start" /\ At("idle") /\ readReq = 0 /\ ~surplus
    BY <1>2 DEF LearnSize, IInv, ControlInv
  <2>3. HttpInv' /\ ReaderInv' /\ RequestInv'
    BY <1>2, <2>2 DEF LearnSize, IInv, HttpInv, ReaderInv, RequestInv, At, sizeVars, httpVars,
       streamVars, history, marks
  <2>4. ControlInv' /\ WakeupInv'
    BY <1>2, <2>2 DEF LearnSize, ControlInv, WakeupInv, At, httpVars, streamVars, history, marks
  <2> QED
    BY <2>1, <2>3, <2>4 DEF IInv
<1> QED
  BY <1>1, <1>2 DEF Control

\* The download's start gives the wake-up the control task waits for; it is a
\* surplus one when the control task does not wait.
LEMMA StartKeeps ==
  ASSUME IInv, StartDownload
  PROVE  IInv'
<1> USE DEF StartDownload, streamVars
<1>1. control \in {"off", "asks"} /\ At("idle") /\ readReq' = 0 /\ dpc = "start"
  BY DEF IInv, TypeOK, ControlInv
<1>2. ~spoiled /\ readPos = 0
  <2>1. back = 0 /\ ~surplus
    BY <1>1 DEF IInv, HttpInv
  <2> QED
    BY <2>1, Counters DEF IInv, ReaderInv
<1>3. have' \in 0 .. FileLen - 1 /\ left' = FileLen - have'
  BY InputAssumption
<1>4. TypeOK'
  BY <1>3, WordFacts DEF IInv, TypeOK, Words
<1>5. HttpInv'
  BY <1>3, WordFacts DEF IInv, HttpInv
<1>6. ControlInv'
  BY <1>1 DEF IInv, ControlInv, At
<1>7. ReaderInv'
  BY <1>1, <1>2, WordFacts DEF ReaderInv, At, Asking, Seeking
<1>8. RequestInv' /\ WakeupInv'
  BY <1>1 DEF RequestInv, WakeupInv, At
<1> QED
  BY <1>4, <1>5, <1>6, <1>7, <1>8 DEF IInv

\* What is received is cut into pieces that add up to the file.
LEMMA ReceiveKeeps ==
  ASSUME IInv, NEW n \in Packets, Receive(n)
  PROVE  IInv'
<1> DEFINE got == IF n <= left THEN n ELSE left
<1>1. /\ left' = left - got /\ have' = have + got /\ dpc = "recv"
      /\ dpc' = HttpNext(have + got, left - got)
      /\ UNCHANGED <<deviceVars, streamVars, control, history>>
  BY DEF Receive
<1>2. n \in Nat /\ left \in Nat /\ have \in Nat
  BY InputAssumption, Counters
<1>3. got \in 0 .. left
  BY <1>2
<1> HIDE DEF got
<1>4. left' \in Nat /\ have' \in Nat /\ have' + left' = have + left
  BY <1>1, <1>2, <1>3
<1>5. /\ dpc' = "recv" => left' > 0
      /\ dpc' = "disk" => Piece(have', left') \in 1 .. have'
      /\ dpc' = "over" => left' = 0 /\ have' = 0
      /\ dpc' \in {"recv", "disk", "over"}
  BY <1>1, <1>4, PieceSize
<1>6. front' = front /\ total' = total /\ onDisk' = onDisk /\ back' = back
  BY <1>1 DEF deviceVars, sizeVars
<1>7. total = FileLen /\ front + have + left = FileLen /\ onDisk = front /\ front \in Nat
  BY <1>1, Counters DEF IInv, HttpInv
<1>8. HttpInv'
  <2>1. front' + have' + left' = FileLen /\ total' = FileLen /\ onDisk' = front'
    BY <1>1, <1>2, <1>3, <1>6, <1>7, WordFacts
  <2>2. dpc' # "start"
    BY <1>5
  <2> QED
    BY <1>5, <2>1, <2>2 DEF HttpInv
<1>9. left' \in Words /\ have' \in Words
  <2>1. left' <= FileLen /\ have' <= FileLen
    BY <1>1, <1>2, <1>3, <1>7, WordFacts
  <2> QED
    BY <1>4, <2>1, WordFacts DEF Words
<1>10. TypeOK'
  BY <1>1, <1>5, <1>9 DEF IInv, TypeOK, deviceVars, sizeVars, waitVars, streamVars, history, marks
<1>11. ControlInv'
  BY <1>1, <1>5 DEF IInv, ControlInv, At, deviceVars, waitVars, streamVars, history, marks
<1>12. ReaderInv'
  BY <1>1 DEF IInv, ReaderInv, At, deviceVars, sizeVars, streamVars, history, marks
<1>13. RequestInv' /\ WakeupInv'
  BY <1>1 DEF IInv, RequestInv, WakeupInv, At, deviceVars, sizeVars, waitVars, streamVars, history,
     marks
<1> QED
  BY <1>8, <1>10, <1>11, <1>12, <1>13 DEF IInv

\* A write wakes a reader exactly when its data is there.
LEMMA WriteKeeps ==
  ASSUME IInv, Write
  PROVE  IInv'
<1> DEFINE n == Piece(have, left)
           wakes == bufLevel /\ (Wrap(curSize + n) >= BufLevelMin \/ front + n >= total)
<1>1. /\ dpc = "disk" /\ onDisk' = onDisk + n /\ front' = front + n
      /\ curSize' = Wrap(curSize + n)
      /\ readReq' = (IF Enough(n) THEN 0 ELSE readReq)
      /\ readSem' = (readSem \/ Enough(n))
      /\ have' = have - n /\ dpc' = HttpNext(have - n, left)
      /\ UNCHANGED <<back, total, readPos, left, streamVars, control, history>>
  BY DEF Write
<1>2. bufLevel' = (bufLevel /\ ~wakes) /\ levelSem' = (levelSem \/ wakes)
  BY DEF Write
<1>3. bufLevel' \in BOOLEAN /\ levelSem' \in BOOLEAN
  BY <1>2 DEF IInv, TypeOK
<1>4. n \in 1 .. have /\ have \in Nat /\ left \in Nat
  BY <1>1, Counters DEF IInv, HttpInv
<1> HIDE DEF n, wakes
<1>5. /\ total = FileLen /\ front + have + left = FileLen /\ onDisk = front
      /\ front \in Nat /\ back \in Nat /\ back <= FileLen /\ size \in Nat /\ readReq \in Nat
  BY <1>1, Counters, WordFacts DEF IInv, HttpInv, TypeOK, Words
<1>6. have' \in Nat /\ have' + n = have
  BY <1>1, <1>4
<1>7. /\ dpc' = "recv" => left > 0
      /\ dpc' = "disk" => Piece(have', left) \in 1 .. have'
      /\ dpc' = "over" => left = 0 /\ have' = 0
      /\ dpc' \in {"recv", "disk", "over"}
  BY <1>1, <1>4, <1>6, PieceSize
<1>8. HttpInv'
  BY <1>1, <1>4, <1>5, <1>6, <1>7 DEF HttpInv
<1>9. front' \in front + 1 .. FileLen /\ front' \in Nat /\ front' = front + n
  BY <1>1, <1>4, <1>5, WordFacts
<1>10. UNCHANGED <<spc, size, control, back, late, surplus, spoiled>>
  BY <1>1 DEF streamVars, history, marks
<1>11. back <= front => (Enough(n) <=> readReq # 0 /\ front' - back >= readReq)
  <2>1. front + n - back = front' - back
    BY <1>4, <1>5, <1>9
  <2>2. back <= front => Wrap(front' - back) = front' - back
    BY <1>5, <1>9, WordFacts, Difference
  <2>3. Enough(n) <=> readReq # 0 /\ Wrap(front + n - back) >= readReq
    BY DEF Enough
  <2> QED
    BY <2>1, <2>2, <2>3
<1>12. TypeOK'
  <2>1. curSize' \in Words
    <3>1. curSize + n \in -Word .. 2 * Word - 1
      BY <1>4, <1>5, WordFacts DEF IInv, TypeOK, Words
    <3> QED
      BY <1>1, <3>1, WrapWord
  <2>2. front' \in Words /\ onDisk' \in Words /\ have' \in Words
    BY <1>1, <1>4, <1>5, <1>6, <1>9, WordFacts DEF Words
  <2>3. readReq' \in Words
    BY <1>1, WordFacts DEF IInv, TypeOK, Words
  <2>4. readSem' \in BOOLEAN
    BY <1>1 DEF IInv, TypeOK, Enough
  <2> QED
    BY <1>1, <1>3, <1>7, <2>1, <2>2, <2>3, <2>4 DEF IInv, TypeOK, streamVars, history, marks
<1>13. Enough(n) => readReq # 0 /\ readReq' = 0 /\ readSem'
  BY <1>1 DEF Enough
<1>14. ~Enough(n) => readReq' = readReq /\ readSem' = readSem
  BY <1>1 DEF IInv, TypeOK
<1>15. ControlInv'
  BY <1>1, <1>7, <1>10, <1>13, <1>14 DEF IInv, ControlInv, At
<1>16. ReaderInv'
  <2>1. readPos' = readPos /\ total' = total
    BY <1>1
  <2>2. back <= front => back' <= front'
    BY <1>5, <1>9, <1>10
  <2>3. front >= back + size => front' >= back' + size'
    BY <1>5, <1>9, <1>10
  <2> QED
    BY <1>10, <2>1, <2>2, <2>3 DEF IInv, ReaderInv, At
<1>17. RequestInv'
  <2>1. ASSUME spc = "suspend"
        PROVE  /\ readReq' \in {0, size}
               /\ readReq' = 0 => readSem' /\ front' >= back + size
               /\ readReq' # 0 /\ ~late => front' < back + size
    <3>1. back <= front /\ readReq \in {0, size}
          /\ (readReq = 0 => readSem /\ front >= back + size)
      BY <2>1 DEF IInv, ReaderInv, RequestInv, At
    <3>2. CASE Enough(n)
      <4>1. readReq = size /\ front' - back >= size
        BY <1>11, <1>13, <3>1, <3>2
      <4> QED
        BY <1>5, <1>9, <1>13, <3>2, <4>1, WordFacts
    <3>3. CASE ~Enough(n)
      <4>1. readReq = 0 => front' >= back + size
        BY <1>5, <1>9, <3>1, WordFacts
      <4>2. readReq # 0 => front' < back + size
        BY <1>5, <1>9, <1>11, <3>1, <3>3, WordFacts
      <4> QED
        BY <1>14, <3>1, <3>3, <4>1, <4>2
    <3> QED
      BY <3>2, <3>3
  <2>2. ASSUME spc = "compare", front' < back + size
        PROVE  readReq' = size /\ ~readSem'
    <3>1. front < back + size /\ back <= front
      BY <1>5, <1>9, <2>2 DEF IInv, ReaderInv
    <3>2. readReq = size /\ ~readSem
      BY <2>2, <3>1 DEF IInv, RequestInv, At
    <3>3. ~Enough(n)
      BY <1>5, <1>9, <1>11, <2>2, <3>1, <3>2, WordFacts
    <3> QED
      BY <1>14, <3>2, <3>3
  <2>3. ASSUME spc = "seekSuspend", ~late, ~spoiled, size # back
        PROVE  /\ readReq' = 0 => readSem'
               /\ readReq' # 0 => front' <= size /\ readReq' = size - back
    <3>1. /\ back <= front /\ (readReq = 0 => readSem)
          /\ (readReq # 0 => front <= size /\ readReq = size - back)
      BY <2>3 DEF IInv, ReaderInv, RequestInv, At
    <3>2. CASE Enough(n)
      BY <1>13, <3>2
    <3>3. CASE ~Enough(n)
      <4>1. readReq # 0 => front' <= size
        BY <1>5, <1>9, <1>11, <3>1, <3>3, WordFacts
      <4> QED
        BY <1>14, <3>1, <3>3, <4>1
    <3> QED
      BY <3>2, <3>3
  <2> QED
    BY <1>10, <2>1, <2>2, <2>3 DEF RequestInv, At
<1>18. WakeupInv'
  <2> SUFFICES ASSUME ~surplus
               PROVE  /\ readReq' # 0 => ~readSem' /\ spc \in {"suspend", "seekSuspend"}
                      /\ readSem' /\ control = "on" => spc \in {"suspend", "seekSuspend"}
                      /\ readSem' /\ spc = "suspend" => front' >= back + size
                      /\ spc = "compare" => front' >= back + size
                      /\ readSem' => control # "off"
    BY <1>10 DEF WakeupInv, At
  <2>1. /\ readReq # 0 => ~readSem /\ spc \in {"suspend", "seekSuspend"}
        /\ readSem /\ control = "on" => spc \in {"suspend", "seekSuspend"}
        /\ readSem /\ spc = "suspend" => front >= back + size
        /\ spc = "compare" => front >= back + size
        /\ readSem => control # "off"
    BY DEF IInv, WakeupInv, At
  <2>2. front >= back + size => front' >= back + size
    BY <1>5, <1>9
  <2>3. CASE Enough(n)
    <3>1. readReq # 0 /\ readReq' = 0 /\ spc \in {"suspend", "seekSuspend"}
      BY <1>13, <2>1, <2>3
    <3>2. control = "on"
      BY <3>1 DEF IInv, TypeOK, ControlInv
    <3>3. spc = "suspend" => front' >= back + size
      <4>1. spc = "suspend" => readReq = size /\ back <= front
        BY <3>1 DEF IInv, RequestInv, ReaderInv, At
      <4> QED
        BY <1>5, <1>9, <1>11, <2>3, <4>1, WordFacts
    <3> QED
      BY <3>1, <3>2, <3>3
  <2>4. CASE ~Enough(n)
    BY <1>14, <2>1, <2>2, <2>4
  <2> QED
    BY <2>3, <2>4
<1> QED
  BY <1>8, <1>12, <1>15, <1>16, <1>17, <1>18 DEF IInv

\* A read is clipped at the end of the file; a seek stays inside it.
LEMMA RequestKeeps ==
  ASSUME IInv, Request
  PROVE  IInv'
<1>1. CASE ReadAtEnd
  <2>1. answer' \in [kind: {"data", "error"}, from: Words, len: Words, fresh: BOOLEAN]
    BY <1>1, WordFacts DEF ReadAtEnd, Error, Words
  <2>2. TypeOK'
    BY <1>1, <2>1 DEF ReadAtEnd, IInv, TypeOK, deviceVars, sizeVars, waitVars, httpVars,
       streamVars, marks
  <2> QED
    BY <1>1, <2>2 DEF ReadAtEnd, IInv, HttpInv, ControlInv, ReaderInv, RequestInv, WakeupInv, At,
       deviceVars, sizeVars, waitVars, httpVars, streamVars, marks
<1>2. ASSUME NEW n \in ReadLens, Read(n)
      PROVE  IInv'
  <2>1. n \in 1 .. Capacity /\ total = FileLen /\ control = "on" /\ back < FileLen
    BY <1>2, InputAssumption, Counters DEF Read, Idle
  <2>2. size' = (IF back + n <= FileLen THEN n ELSE FileLen - back)
    BY <1>2, <2>1, Counters, WordFacts DEF Read
  <2>3. size' \in Words
    BY <2>1, <2>2, Counters, WordFacts DEF Words
  <2>4. spc = "idle" /\ spc' = "level" /\ late' = FALSE
        /\ UNCHANGED <<deviceVars, httpVars, level, control, answer, marks>>
    BY <1>2 DEF Read, Idle, At, Goto
  <2>5. TypeOK'
    BY <2>3, <2>4 DEF IInv, TypeOK, Asking, deviceVars, sizeVars, waitVars, httpVars, marks
  <2>6. HttpInv'
    BY <2>4 DEF IInv, HttpInv, deviceVars, sizeVars, httpVars, marks
  <2>7. ControlInv'
    BY <2>1, <2>4 DEF IInv, ControlInv, At, deviceVars, sizeVars, waitVars, httpVars, marks
  <2>8. ReaderInv'
    BY <2>1, <2>2, <2>4 DEF IInv, ReaderInv, At, Asking, Seeking, deviceVars, sizeVars, marks
  <2>9. RequestInv' /\ WakeupInv'
    BY <2>1, <2>4 DEF IInv, RequestInv, WakeupInv, At, deviceVars, sizeVars, waitVars, marks
  <2> QED
    BY <2>5, <2>6, <2>7, <2>8, <2>9 DEF IInv
<1>3. ASSUME NEW offset \in SeekOffsets, Seek(offset)
      PROVE  IInv'
  <2>1. offset \in 0 .. FileLen - 1 /\ control = "on"
    BY <1>3, InputAssumption DEF Seek, Idle
  <2>2. offset \in Words /\ offset < FileLen
    BY <2>1, WordFacts DEF Words
  <2>3. size' = offset /\ spc = "idle" /\ spc' = "seek" /\ late' = FALSE
        /\ UNCHANGED <<deviceVars, httpVars, level, control, answer, marks>>
    BY <1>3 DEF Seek, Idle, At, Goto
  <2>4. TypeOK'
    BY <2>2, <2>3 DEF IInv, TypeOK, Seeking, deviceVars, sizeVars, waitVars, httpVars, marks
  <2>5. HttpInv'
    BY <2>3 DEF IInv, HttpInv, deviceVars, sizeVars, httpVars, marks
  <2>6. ControlInv'
    BY <2>1, <2>3 DEF IInv, ControlInv, At, deviceVars, sizeVars, waitVars, httpVars, marks
  <2>7. ReaderInv'
    BY <2>2, <2>3 DEF IInv, ReaderInv, At, Asking, Seeking, deviceVars, sizeVars, marks
  <2>8. RequestInv' /\ WakeupInv'
    BY <2>1, <2>3 DEF IInv, RequestInv, WakeupInv, At, deviceVars, sizeVars, waitVars, marks
  <2> QED
    BY <2>4, <2>5, <2>6, <2>7, <2>8 DEF IInv
<1>4. ASSUME NEW n \in ReadLens, SeekCur(n)
      PROVE  IInv'
  <2>1. /\ spc = "idle" /\ control = "on" /\ n \in Nat /\ back - n \in 0 .. total
        /\ back - n < front /\ back' = back - n /\ readPos' = back - n
        /\ UNCHANGED <<front, total, curSize, waitVars, onDisk, httpVars, streamVars, control,
                       history>>
    BY <1>4, InputAssumption, CapacityAssumption, Counters, WordFacts DEF SeekCur, Idle, At
  <2>2. back - n \in Words /\ dpc # "start"
    BY <2>1, Counters, WordFacts DEF IInv, ControlInv, Words
  <2>3. TypeOK'
    BY <2>1, <2>2 DEF IInv, TypeOK, waitVars, httpVars, streamVars, history, marks
  <2>4. HttpInv' /\ ControlInv'
    BY <2>1, <2>2 DEF IInv, HttpInv, ControlInv, At, waitVars, httpVars, streamVars, history, marks
  <2>5. ReaderInv'
    <3>1. readPos' <= back' /\ back' <= total' /\ back' <= front'
      BY <2>1, Counters, WordFacts
    <3> QED
      BY <2>1, <3>1 DEF IInv, ReaderInv, At, Asking, Seeking, streamVars, history, marks
  <2>6. RequestInv' /\ WakeupInv'
    BY <2>1 DEF IInv, RequestInv, WakeupInv, At, waitVars, streamVars, history, marks
  <2> QED
    BY <2>3, <2>4, <2>5, <2>6 DEF IInv
<1> QED
  BY <1>1, <1>2, <1>3, <1>4 DEF Request

\* A request that is being served was made with the size known.
LEMMA Serving ==
  ASSUME IInv, ~At("idle")
  PROVE  control = "on" /\ dpc # "start" /\ total = FileLen
BY DEF IInv, ControlInv, HttpInv, At, TypeOK

\* What every step of a request leaves as it is.
Frame == UNCHANGED <<front, total, onDisk, httpVars, control, surplus>>

\* So a step of a request has the invariants of HTTP and of the control task.
LEMMA FrameKeeps ==
  ASSUME IInv, ~At("idle"), Frame
  PROVE  /\ HttpInv'
         /\ ControlInv'
BY Serving DEF Frame, IInv, HttpInv, ControlInv, httpVars

\* A read that compares the counters has its data, or was woken for nothing.
LEMMA CompareFacts ==
  ASSUME IInv, spc \in {"test", "compare"},
         spc = "test" => ~(Wrap(front - back) < size)
  PROVE  /\ Compare \in {"copy", "copyNothing", "fail"}
         /\ Compare = "copy" => front >= back + size
         /\ Compare # "copy" => surplus
<1>1. front \in 0 .. FileLen /\ back \in 0 .. FileLen /\ size \in 1 .. FileLen
  BY Counters, ReadSize DEF Asking
<1>2. Compare \in {"copy", "copyNothing", "fail"} /\ (front >= back + size <=> Compare = "copy")
  BY <1>1 DEF Compare
<1>3. ASSUME front < back + size
      PROVE  surplus
  <2>1. CASE spc = "test"
    <3>1. ~(back <= front)
      BY <1>1, <1>3, <2>1, Difference
    <3> QED
      BY <3>1 DEF IInv, ReaderInv
  <2>2. CASE spc = "compare"
    BY <1>1, <1>3, <2>2 DEF IInv, WakeupInv, At
  <2> QED
    BY <2>1, <2>2
<1> QED
  BY <1>1, <1>2, <1>3

\* The steps of a read that move it on and leave the counters alone.
LEMMA ReadStepKeeps ==
  ASSUME IInv, TestLevel \/ SetLevel \/ TakeLevel \/ TestData \/ SetReq \/ Suspend \/ CompareData
  PROVE  IInv'
<1> USE DEF At, Goto
<1>1. spc \in Asking
  BY DEF TestLevel, SetLevel, TakeLevel, TestData, SetReq, Suspend, CompareData, Asking
<1>2. control = "on" /\ size \in 1 .. FileLen /\ front \in 0 .. FileLen /\ back \in 0 .. FileLen
  BY <1>1, Serving, ReadSize, Counters DEF Asking
<1>3. /\ UNCHANGED <<front, back, total, curSize, readPos, onDisk, httpVars, size, level, control,
                     answer, surplus, spoiled>>
      /\ spc' \in Asking \cup {"copy", "copyNothing", "fail"}
      /\ spc' = "copy" => front >= back + size
      /\ spc' \in {"copyNothing", "fail"} => surplus
  <2>1. CASE TestData
    <3>1. spc' = (IF Wrap(front - back) < size THEN "setReq" ELSE Compare)
      BY <2>1 DEF TestData
    <3>2. ~(Wrap(front - back) < size) =>
            /\ spc' \in {"copy", "copyNothing", "fail"}
            /\ spc' = "copy" => front >= back + size
            /\ spc' # "copy" => surplus
      BY <2>1, <3>1, CompareFacts DEF TestData
    <3>3. Wrap(front - back) < size => spc' = "setReq"
      BY <3>1
    <3> QED
      BY <2>1, <3>2, <3>3 DEF TestData, deviceVars, sizeVars, history, marks, Asking
  <2>2. CASE CompareData
    BY <2>2, CompareFacts DEF CompareData, deviceVars, sizeVars, history, marks
  <2>3. CASE TestLevel \/ SetLevel \/ TakeLevel \/ SetReq \/ Suspend
    BY <2>3 DEF TestLevel, SetLevel, TakeLevel, SetReq, Suspend, deviceVars, sizeVars, history,
       marks, Asking
  <2> QED
    BY <2>1, <2>2, <2>3
<1>4. /\ readReq' \in Words /\ readSem' \in BOOLEAN /\ bufLevel' \in BOOLEAN
      /\ levelSem' \in BOOLEAN /\ late' \in BOOLEAN
  <2>1. /\ readReq \in Words /\ size \in Words /\ readSem \in BOOLEAN /\ bufLevel \in BOOLEAN
        /\ levelSem \in BOOLEAN /\ late \in BOOLEAN
    BY DEF IInv, TypeOK
  <2>2. readReq' \in {readReq, size}
    BY DEF TestLevel, SetLevel, TakeLevel, TestData, SetReq, Suspend, CompareData, deviceVars,
       waitVars
  <2>3. readSem' \in {readSem, FALSE} /\ bufLevel' \in {bufLevel, TRUE}
        /\ levelSem' \in {levelSem, FALSE}
    BY DEF TestLevel, SetLevel, TakeLevel, TestData, SetReq, Suspend, CompareData, deviceVars,
       waitVars
  <2>4. late' \in BOOLEAN
    <3>1. late' = late \/ late' = (front >= total) \/ late' = (front >= back + size)
      BY DEF TestLevel, SetLevel, TakeLevel, TestData, SetReq, Suspend, CompareData, history
    <3>2. (front >= total) \in BOOLEAN /\ (front >= back + size) \in BOOLEAN
      OBVIOUS
    <3> QED
      BY <2>1, <3>1, <3>2
  <2> QED
    BY <2>1, <2>2, <2>3, <2>4
<1>5. TypeOK'
  BY <1>3, <1>4 DEF IInv, TypeOK, Copying, httpVars
<1>6. HttpInv' /\ ControlInv'
  BY <1>1, <1>3, FrameKeeps DEF Frame, Asking
<1>7. ReaderInv'
  <2>1. spc' \in {"setReq", "suspend", "compare"} => back <= front
    <3>1. CASE TestData
      <4>1. spc' = "setReq" => Wrap(front - back) < size
        BY <1>2, <3>1, CompareFacts DEF TestData
      <4>2. back <= front \/ Wrap(front - back) > FileLen
        BY <1>2, WordFacts, Difference
      <4>3. Wrap(front - back) \in Nat
        <5>1. Wrap(front - back) \in Words
          BY <1>2, Difference
        <5> QED
          BY <5>1, WordFacts DEF Words
      <4>4. spc' = "setReq" => back <= front
        BY <1>2, <4>1, <4>2, <4>3, WordFacts
      <4>5. spc' \notin {"suspend", "compare"}
        BY <3>1, CompareFacts DEF TestData
      <4> QED
        BY <4>4, <4>5
    <3>2. CASE TestLevel \/ SetLevel \/ TakeLevel \/ CompareData
      BY <3>2, CompareFacts DEF TestLevel, SetLevel, TakeLevel, CompareData
    <3>3. CASE SetReq \/ Suspend
      BY <3>3 DEF SetReq, Suspend, IInv, ReaderInv
    <3> QED
      BY <3>1, <3>2, <3>3
  <2> QED
    BY <1>1, <1>3, <2>1 DEF IInv, ReaderInv, Asking, Seeking
<1>8. RequestInv'
  <2>1. CASE SetReq
    <3>1. spc' = "suspend" /\ readReq' = size /\ late' = (front >= back + size)
      BY <2>1 DEF SetReq
    <3>2. size # 0 /\ (~late' => front < back + size)
      <4>1. ~late' => ~(front >= back + size)
        BY <3>1
      <4>2. size # 0 /\ (~(front >= back + size) => front < back + size)
        BY <1>2, WordFacts
      <4> QED
        BY <4>1, <4>2
    <3> QED
      BY <1>3, <3>1, <3>2 DEF RequestInv
  <2>2. CASE Suspend
    <3>1. spc = "suspend" /\ spc' = "compare" /\ readReq' = readReq /\ readSem' = FALSE
      BY <2>2 DEF Suspend
    <3>2. front < back + size => readReq = size
      BY <1>2, <3>1 DEF IInv, RequestInv
    <3> QED
      BY <1>3, <3>1, <3>2 DEF RequestInv
  <2>3. CASE TestLevel \/ SetLevel \/ TakeLevel \/ TestData \/ CompareData
    <3>1. spc' \notin {"suspend", "compare", "seekSuspend"}
      BY <2>3, CompareFacts DEF TestLevel, SetLevel, TakeLevel, TestData, CompareData
    <3> QED
      BY <3>1 DEF RequestInv
  <2> QED
    BY <2>1, <2>2, <2>3
<1>9. WakeupInv'
  <2> SUFFICES ASSUME ~surplus
               PROVE  WakeupInv'
    BY <1>3 DEF WakeupInv
  <2>1. /\ readReq # 0 => ~readSem /\ spc = "suspend"
        /\ readSem => spc = "suspend" /\ front >= back + size
    BY <1>1, <1>2 DEF IInv, WakeupInv, Asking
  <2>2. readReq' # 0 => ~readSem' /\ spc' = "suspend"
    BY <2>1 DEF TestLevel, SetLevel, TakeLevel, TestData, SetReq, Suspend, CompareData,
       deviceVars, waitVars
  <2>3. ~readSem'
    BY <2>1 DEF TestLevel, SetLevel, TakeLevel, TestData, SetReq, Suspend, CompareData,
       deviceVars, waitVars, IInv, TypeOK
  <2>4. spc' = "compare" => front >= back + size
    <3>1. CASE Suspend
      BY <2>1, <3>1 DEF Suspend
    <3>2. CASE ~Suspend
      BY <3>2, CompareFacts DEF TestLevel, SetLevel, TakeLevel, TestData, SetReq, CompareData
    <3> QED
      BY <3>1, <3>2
  <2> QED
    BY <1>3, <2>2, <2>3, <2>4 DEF WakeupInv
<1> QED
  BY <1>5, <1>6, <1>7, <1>8, <1>9 DEF IInv

\* A read that has its data takes it; one that has not goes wrong.
LEMMA CopyKeeps ==
  ASSUME IInv, Copy \/ CopyNothing \/ ReadFails \/ StoreLevel
  PROVE  IInv'
<1> USE DEF At, Goto
<1>1. spc \in Copying /\ spc' \in {"idle", "store"}
      /\ UNCHANGED <<front, total, waitVars, onDisk, httpVars, size, control, late, surplus>>
  BY DEF Copy, CopyNothing, ReadFails, StoreLevel, Copying, deviceVars, sizeVars, history, marks
<1>2. control = "on" /\ dpc # "start" /\ total = FileLen
  BY <1>1, Serving DEF Copying
<1>3. HttpInv' /\ ControlInv'
  BY <1>1, FrameKeeps DEF Frame, Copying
<1>4. RequestInv' /\ WakeupInv'
  BY <1>1, <1>2 DEF IInv, WakeupInv, RequestInv, Copying, waitVars
<1>5. front \in 0 .. FileLen /\ back \in 0 .. FileLen /\ readPos \in 0 .. back /\ size \in Nat
  BY Counters
<1>6. CASE Copy \/ CopyNothing
  <2>1. size \in 1 .. FileLen /\ back + size <= FileLen
    BY <1>6, ReadSize DEF Copy, CopyNothing
  <2>2. back' = back + size /\ level' = Wrap(front - back - size) /\ curSize' = curSize
    BY <1>6 DEF Copy, CopyNothing
  <2>3. level' \in Words
    <3>1. Wrap(front - (back + size)) \in Words
      BY <1>5, <2>1, Difference
    <3>2. front - back - size = front - (back + size)
      BY <1>5, <2>1
    <3> QED
      BY <2>2, <3>1, <3>2
  <2>4. readPos' \in {readPos, readPos + size} /\ readPos' \in Words /\ readPos' <= back'
    <3>1. readPos' \in {readPos, readPos + size}
      BY <1>6 DEF Copy, CopyNothing
    <3>2. readPos + size \in Nat /\ readPos <= back /\ readPos + size <= back + size
      BY <1>5, <2>1, WordFacts
    <3>3. readPos' \in Nat /\ readPos' <= back + size
      BY <1>5, <2>1, <3>1, <3>2, WordFacts
    <3> QED
      BY <1>5, <2>1, <2>2, <3>1, <3>3, WordFacts DEF Words
  <2>5. back' \in Words /\ back' <= total'
    BY <1>1, <1>2, <1>5, <2>1, <2>2, WordFacts DEF Words
  <2>6. answer' \in [kind: {"data", "error"}, from: Words, len: Words, fresh: BOOLEAN]
    <3>1. readPos \in Words /\ back \in Words /\ size \in Words
      BY DEF IInv, TypeOK
    <3>2. CASE Copy
      BY <3>1, <3>2 DEF Copy, Data
    <3>3. CASE CopyNothing
      BY <3>1, <3>3 DEF CopyNothing, Data
    <3> QED
      BY <1>6, <3>2, <3>3
  <2>7. spoiled' \in BOOLEAN
    BY <1>6 DEF Copy, CopyNothing, marks, IInv, TypeOK
  <2>8. TypeOK'
    BY <1>1, <2>2, <2>3, <2>4, <2>5, <2>6, <2>7 DEF IInv, TypeOK, Copying, waitVars, httpVars
  <2>9. spoiled' => surplus'
    BY <1>1, <1>6 DEF Copy, CopyNothing, marks, IInv, ReaderInv
  <2>10. ~spoiled' => back' <= front' /\ readPos' = back'
    <3>1. CASE Copy
      <4>1. front >= back + size /\ spoiled' = spoiled /\ readPos' = readPos + size
            /\ (~spoiled => readPos = back)
        BY <3>1 DEF Copy, marks, IInv, ReaderInv
      <4> QED
        BY <1>1, <1>5, <2>1, <2>2, <4>1
    <3>2. CASE CopyNothing
      BY <3>2 DEF CopyNothing
    <3> QED
      BY <1>6, <3>1, <3>2
  <2>11. ReaderInv'
    BY <1>1, <2>4, <2>5, <2>9, <2>10 DEF ReaderInv, Asking, Seeking
  <2> QED
    BY <1>3, <1>4, <2>8, <2>11 DEF IInv
<1>7. CASE ReadFails \/ StoreLevel
  <2>1. curSize' \in Words /\ spc' = "idle" /\ UNCHANGED <<back, readPos, level, spoiled>>
    BY <1>7 DEF ReadFails, StoreLevel, deviceVars, sizeVars, history, marks, IInv, TypeOK
  <2>2. answer' \in [kind: {"data", "error"}, from: Words, len: Words, fresh: BOOLEAN]
    <3>1. CASE ReadFails
      BY <3>1, WordFacts DEF ReadFails, Error, Words
    <3>2. CASE StoreLevel
      BY <3>2 DEF StoreLevel, history, IInv, TypeOK
    <3> QED
      BY <1>7, <3>1, <3>2
  <2>3. TypeOK'
    BY <1>1, <2>1, <2>2 DEF IInv, TypeOK, waitVars, httpVars
  <2>4. ReaderInv'
    BY <1>1, <2>1 DEF IInv, ReaderInv, Asking, Seeking
  <2> QED
    BY <1>3, <1>4, <2>3, <2>4 DEF IInv
<1> QED
  BY <1>6, <1>7

\* A seek waits for one byte beyond its offset.
LEMMA SeekStepKeeps ==
  ASSUME IInv, SeekTest \/ SeekSetReq \/ SeekSuspend \/ SeekDone
  PROVE  IInv'
<1> USE DEF At, Goto
<1>1. spc \in Seeking
  BY DEF SeekTest, SeekSetReq, SeekSuspend, SeekDone, Seeking
<1>2. control = "on" /\ dpc # "start" /\ total = FileLen /\ size < FileLen
  BY <1>1, Serving DEF IInv, ReaderInv, Seeking
<1>3. size \in Nat /\ size \in Words /\ front \in 0 .. FileLen /\ back \in 0 .. FileLen
      /\ readPos \in 0 .. back
  BY Counters DEF IInv, TypeOK
<1>4. /\ UNCHANGED <<front, total, curSize, onDisk, httpVars, size, level, control, answer,
                     surplus, spoiled, bufLevel, levelSem>>
      /\ spc' \in Seeking \cup {"idle"}
      /\ UNCHANGED <<back, readPos>> \/ (back' = size /\ readPos' = size /\ front > size)
  BY DEF SeekTest, SeekSetReq, SeekSuspend, SeekDone, deviceVars, sizeVars, waitVars, history,
     marks, Seeking
<1>5. readReq' \in Words /\ readSem' \in BOOLEAN /\ late' \in BOOLEAN
  <2>1. Wrap(size - back) \in Words
    <3>1. size \in 0 .. FileLen
      BY <1>2, <1>3, WordFacts
    <3> QED
      BY <1>3, <3>1, Difference
  <2>2. readReq' \in Words
    BY <2>1 DEF SeekTest, SeekSetReq, SeekSuspend, SeekDone, deviceVars, waitVars, IInv, TypeOK
  <2>3. readSem' \in BOOLEAN
    BY DEF SeekTest, SeekSetReq, SeekSuspend, SeekDone, deviceVars, waitVars, IInv, TypeOK
  <2>4. late' \in BOOLEAN
    <3>1. late' = late \/ late' = (front > size)
      BY DEF SeekTest, SeekSetReq, SeekSuspend, SeekDone, history
    <3>2. late \in BOOLEAN /\ (front > size) \in BOOLEAN
      BY DEF IInv, TypeOK
    <3> QED
      BY <3>1, <3>2
  <2> QED
    BY <2>2, <2>3, <2>4
<1>6. back' \in Words /\ readPos' \in Words /\ readPos' <= back' /\ back' <= total'
      /\ (~spoiled => back' <= front' /\ readPos' = back')
  <2>1. readPos \in Words /\ back \in Words
        /\ (~spoiled => back <= front /\ readPos = back)
    BY DEF IInv, TypeOK, ReaderInv
  <2> QED
    BY <1>2, <1>3, <1>4, <2>1, WordFacts
<1>7. TypeOK'
  BY <1>4, <1>5, <1>6 DEF IInv, TypeOK, httpVars
<1>8. HttpInv' /\ ControlInv'
  BY <1>1, <1>4, FrameKeeps DEF Frame, Seeking
<1>9. ReaderInv'
  BY <1>2, <1>4, <1>6 DEF IInv, ReaderInv, Asking, Seeking
<1>10. RequestInv'
  <2>1. CASE SeekSetReq
    <3>1. spc' = "seekSuspend" /\ readReq' = Wrap(size - back) /\ late' = (front > size)
          /\ back' = back
      BY <2>1 DEF SeekSetReq, sizeVars
    <3>2. ASSUME ~late', ~spoiled, size # back
          PROVE  readReq' # 0 /\ front <= size /\ readReq' = size - back
      <4>1. front <= size /\ back <= front
        <5>1. ~(front > size)
          BY <3>1, <3>2
        <5>2. back <= front
          BY <3>2 DEF IInv, ReaderInv
        <5> QED
          BY <1>3, <5>1, <5>2, WordFacts
      <4>2. back <= size /\ size \in 0 .. FileLen
        BY <1>2, <1>3, <4>1, WordFacts
      <4> QED
        BY <1>3, <3>1, <3>2, <4>1, <4>2, WordFacts, Difference
    <3> QED
      BY <1>4, <3>1, <3>2 DEF RequestInv
  <2>2. CASE SeekTest \/ SeekSuspend \/ SeekDone
    <3>1. spc' \notin {"suspend", "compare", "seekSuspend"}
      BY <2>2 DEF SeekTest, SeekSuspend, SeekDone
    <3> QED
      BY <3>1 DEF RequestInv
  <2> QED
    BY <2>1, <2>2
<1>11. WakeupInv'
  <2> SUFFICES ASSUME ~surplus
               PROVE  WakeupInv'
    BY <1>4 DEF WakeupInv
  <2>1. /\ readReq # 0 => ~readSem /\ spc = "seekSuspend"
        /\ readSem => spc = "seekSuspend"
    BY <1>1, <1>2 DEF IInv, WakeupInv, Seeking
  <2>2. readReq' # 0 => ~readSem' /\ spc' = "seekSuspend"
    BY <2>1 DEF SeekTest, SeekSetReq, SeekSuspend, SeekDone, deviceVars, waitVars
  <2>3. ~readSem'
    BY <2>1 DEF SeekTest, SeekSetReq, SeekSuspend, SeekDone, deviceVars, waitVars, IInv, TypeOK
  <2> QED
    BY <1>4, <2>2, <2>3 DEF WakeupInv, Seeking
<1> QED
  BY <1>7, <1>8, <1>9, <1>10, <1>11 DEF IInv

-----------------------------------------------------------------------------
(* The theorems *)

\* The device as it is created.
LEMMA InitHolds ==
  ASSUME Init
  PROVE  IInv
<1>1. 0 \in Words
  BY WordFacts DEF Words
<1>2. TypeOK
  BY <1>1 DEF Init, TypeOK, Data
<1>3. HttpInv /\ ControlInv /\ ReaderInv /\ RequestInv /\ WakeupInv
  BY DEF Init, HttpInv, ControlInv, ReaderInv, RequestInv, WakeupInv, At, Asking, Seeking
<1> QED
  BY <1>2, <1>3 DEF IInv

\* Every step keeps the invariant.
LEMMA StepKeeps ==
  ASSUME IInv, [Next]_vars
  PROVE  IInv'
<1>1. CASE Control
  BY <1>1, ControlKeeps
<1>2. CASE Http
  BY <1>2, StartKeeps, ReceiveKeeps, WriteKeeps DEF Http
<1>3. CASE Request
  BY <1>3, RequestKeeps
<1>4. CASE StreamStep
  BY <1>4, ReadStepKeeps, CopyKeeps, SeekStepKeeps DEF StreamStep
<1>5. CASE UNCHANGED vars
  BY <1>5 DEF vars, deviceVars, sizeVars, waitVars, httpVars, streamVars, history, marks, IInv,
     TypeOK, HttpInv, ControlInv, ReaderInv, RequestInv, WakeupInv, At
<1> QED
  BY <1>1, <1>2, <1>3, <1>4, <1>5 DEF Next

\* The invariant of the download FIFO holds for every file, every way it arrives,
\* every sequence of reads and seeks, and whether the size is asked for before or
\* after the download sets it.
THEOREM FifoInvariant == Spec => []IInv
<1>1. IInv /\ [Next]_vars => IInv'
  BY StepKeeps
<1> QED
  BY <1>1, InitHolds, PTL DEF Spec

\* Every variable keeps its type: CurSize, Front and Back never leave their words.
THEOREM FifoTypes == Spec => []TypeOK
<1>1. IInv => TypeOK
  BY DEF IInv
<1> QED
  BY <1>1, FifoInvariant, PTL

\* A suspended fifoDev_Read goes on without its data only after SetTotalSize gave a
\* wake-up to nobody, and leaves no other wake-up behind.
THEOREM FifoWakeups == Spec => []EarlyWakeup
<1>1. IInv => EarlyWakeup
  <2> SUFFICES ASSUME IInv
               PROVE  EarlyWakeup
    OBVIOUS
  <2>1. spoiled => surplus
    BY DEF IInv, ReaderInv
  <2>2. ASSUME At("compare"), front < back + size
        PROVE  surplus /\ readReq = size /\ ~readSem
    <3>1. readReq = size /\ ~readSem
      BY <2>2 DEF IInv, RequestInv
    <3>2. ~surplus => front >= back + size
      BY <2>2 DEF IInv, WakeupInv
    <3> QED
      BY <2>2, <3>1, <3>2, Counters
  <2> QED
    BY <2>1, <2>2 DEF EarlyWakeup
<1> QED
  BY <1>1, FifoInvariant, PTL

\* No wake-up is lost: fifoDev_Write and fifoDev_SetTotalSize have given the
\* semaphore once what a waiting task announced is there.
THEOREM FifoNoLostWakeup == Spec => []DataMeansWakeup
<1>1. IInv => DataMeansWakeup
  <2> SUFFICES ASSUME IInv
               PROVE  DataMeansWakeup
    OBVIOUS
  <2>1. control = "asks" /\ total # 0 => readSem
    BY DEF IInv, ControlInv, HttpInv
  <2>2. At("suspend") /\ front >= back + size /\ ~late => readSem
    <3>1. ~(front >= back + size /\ front < back + size)
      BY Counters
    <3> QED
      BY <3>1 DEF IInv, RequestInv
  <2>3. At("seekSuspend") /\ front > size /\ ~late /\ size # back /\ ~spoiled => readSem
    <3>1. ~(front > size /\ front <= size)
      BY Counters
    <3> QED
      BY <3>1 DEF IInv, RequestInv
  <2> QED
    BY <2>1, <2>2, <2>3 DEF DataMeansWakeup
<1> QED
  BY <1>1, FifoInvariant, PTL

\* Every step of the device is a step of the storage file, or none.
LEMMA StorageStep ==
  ASSUME IInv, [Next]_vars
  PROVE  [Storage!Next]_(Storage!vars)
<1> USE DEF At, Goto
<1>1. CASE Copy
  <2>1. back < FileLen /\ front >= back + size /\ onDisk = front
        /\ (~spoiled => readPos = back)
    BY <1>1 DEF Copy, IInv, ReaderInv, HttpInv
  <2>2. PICK n \in ReadLens: size = (IF back + n <= FileLen THEN n ELSE FileLen - back)
    BY <1>1 DEF Copy, IInv, ReaderInv
  <2>3. answer' = Data(readPos, size, readPos + size <= onDisk) /\ back' = back + size
        /\ UNCHANGED <<surplus, spoiled>>
    BY <1>1, Counters DEF Copy, marks
  <2>4. CASE ~spoiled
    <3>1. answer' = Data(back, size, TRUE)
      <4>1. (readPos + size <= onDisk) = TRUE
        BY <2>1, <2>4, Counters
      <4> QED
        BY <2>1, <2>3, <2>4, <4>1
    <3>2. Storage!Read(n)
      BY <2>1, <2>2, <2>3, <3>1 DEF Storage!Read, Storage!Data, Data
    <3> QED
      BY <2>4, <3>2 DEF Storage!Next, Storage!Serve
  <2>5. CASE spoiled
    BY <2>3, <2>5 DEF Storage!Next, Storage!SkipsBytes, IInv, ReaderInv
  <2> QED
    BY <2>4, <2>5
<1>2. CASE CopyNothing
  BY <1>2 DEF CopyNothing, Storage!Next, Storage!SkipsBytes, IInv, ReaderInv
<1>3. ASSUME spoiled, UNCHANGED <<surplus, spoiled>>
      PROVE  [Storage!Next]_(Storage!vars)
  BY <1>3 DEF Storage!Next, Storage!SkipsBytes, IInv, ReaderInv
<1>4. CASE ReadFails
  <2>1. surplus /\ answer' = Error /\ UNCHANGED <<back, surplus, spoiled>>
    BY <1>4 DEF ReadFails, IInv, ReaderInv, deviceVars, sizeVars, marks
  <2> QED
    BY <1>3, <2>1 DEF Storage!Next, Storage!ReadFails, Storage!Error, Error
<1>5. CASE ReadAtEnd
  <2>1. total = FileLen /\ back >= FileLen
    BY <1>5, Counters DEF ReadAtEnd, Idle
  <2>2. back = FileLen
    BY <2>1, Counters, WordFacts
  <2>3. answer' = Error /\ back' = back /\ UNCHANGED <<surplus, spoiled>>
    BY <1>5 DEF ReadAtEnd, deviceVars, sizeVars, marks
  <2> QED
    BY <1>3, <2>2, <2>3 DEF Storage!Next, Storage!Serve, Storage!ReadAtEnd, Storage!Error, Error
<1>6. CASE SeekDone
  <2>1. back' = size /\ answer' = answer /\ size \in 0 .. FileLen - 1
        /\ UNCHANGED <<surplus, spoiled>>
    BY <1>6, Counters, WordFacts DEF SeekDone, history, marks, IInv, ReaderInv, Seeking
  <2> QED
    BY <1>3, <2>1 DEF Storage!Next, Storage!Serve, Storage!Seek
<1>7. CASE StartDownload
  <2>1. back' = back /\ answer' = answer /\ spoiled' = spoiled /\ ~surplus /\ ~spoiled
    BY <1>7 DEF StartDownload, IInv, HttpInv, ReaderInv
  <2>2. surplus' = TRUE \/ surplus' = surplus
    BY <1>7, <2>1 DEF StartDownload, IInv, TypeOK
  <2> QED
    BY <2>1, <2>2 DEF Storage!Next, Storage!SizeSetEarly, Storage!vars
<1>8. CASE Control \/ (\E n \in Packets: Receive(n)) \/ Write \/ UNCHANGED vars
  BY <1>8 DEF Control, AskSize, LearnSize, Receive, Write, vars, deviceVars, sizeVars, history,
     marks, Storage!vars
<1>9. CASE (\E n \in ReadLens: Read(n)) \/ (\E offset \in SeekOffsets: Seek(offset))
  BY <1>9 DEF Read, Seek, deviceVars, sizeVars, marks, Storage!vars
<1>10. CASE \/ TestLevel \/ SetLevel \/ TakeLevel \/ TestData \/ SetReq \/ Suspend \/ CompareData
            \/ StoreLevel \/ SeekTest \/ SeekSetReq \/ SeekSuspend
  BY <1>10 DEF TestLevel, SetLevel, TakeLevel, TestData, SetReq, Suspend, CompareData, StoreLevel,
     SeekTest, SeekSetReq, SeekSuspend, deviceVars, sizeVars, history, marks, Storage!vars
<1>11. ASSUME NEW n \in ReadLens, SeekCur(n)
       PROVE  [Storage!Next]_(Storage!vars)
  <2>1. n \in 1 .. Capacity /\ n <= back /\ back' = back - n /\ answer' = answer
        /\ UNCHANGED <<surplus, spoiled>>
    BY <1>11, InputAssumption DEF SeekCur, history, marks
  <2>2. back - n \in 0 .. FileLen - 1
    BY <2>1, Counters, CapacityAssumption
  <2> QED
    BY <1>3, <2>1, <2>2 DEF Storage!Next, Storage!Serve, Storage!Seek
<1> QED
  BY <1>1, <1>2, <1>4, <1>5, <1>6, <1>7, <1>8, <1>9, <1>10, <1>11
     DEF Next, Http, Request, StreamStep

\* StreamControl reads the file being downloaded as if it had been there from the
\* start: every read returns the bytes at its offset, already on the disk.  When
\* the size was set before anyone asked for it, a read may fail instead, and
\* nothing is promised once one skipped bytes.
THEOREM FifoRefinement == Spec => ImplementsStorage
<1>1. Init => Storage!Init
  BY DEF Init, Storage!Init, Storage!Data, Data
<1>2. IInv /\ [Next]_vars => [Storage!Next]_(Storage!vars)
  BY StorageStep
<1> QED
  BY <1>1, <1>2, FifoInvariant, PTL DEF Spec, ImplementsStorage, Storage!Spec
=============================================================================
