------------------------- MODULE AudioSessionProofs -------------------------
(***************************************************************************)
(* AudioSession's invariants and ShutOffAtRest, from IInv.                 *)
(***************************************************************************)
EXTENDS AudioSessionInv, SequenceTheorems, TLAPS

----------------------------------------------------------------------------
(* The programs of the control task *)

TodoInv == todo \in Seq(Steps) /\ Program(todo)

LEMMA TailProgram ==
  ASSUME NEW t \in Seq(Steps), t # <<>>, Program(t)
  PROVE  /\ Tail(t) \in Seq(Steps) /\ Program(Tail(t))
         /\ Head(t) \in Steps
         /\ (IF Tail(t) = <<>> THEN None ELSE Head(Tail(t))) \in Follow(Head(t))
<1>1. /\ Len(t) \in Nat /\ Len(t) > 0
      /\ Tail(t) \in Seq(Steps) /\ Len(Tail(t)) = Len(t) - 1
      /\ Head(t) \in Steps /\ Head(t) = t[1]
  OBVIOUS
<1>2. \A i \in 1 .. Len(t) - 1 : Tail(t)[i] = t[i + 1] BY <1>1
<1>3. Program(Tail(t))
  <2>1. SUFFICES ASSUME NEW i \in 1 .. Len(Tail(t))
                 PROVE  (IF i = Len(Tail(t)) THEN None ELSE Tail(t)[i + 1])
                          \in Follow(Tail(t)[i])
    BY DEF Program
  <2>2. i \in Nat /\ i >= 1 /\ i <= Len(t) - 1 BY <1>1
  <2>3. i + 1 \in 1 .. Len(t) /\ (i + 1 = Len(t) <=> i = Len(Tail(t))) BY <1>1, <2>2
  <2>4. Tail(t)[i] = t[i + 1] BY <1>1, <1>2
  <2>5. CASE i = Len(Tail(t)) BY <2>3, <2>4, <2>5 DEF Program
  <2>6. CASE i # Len(Tail(t))
    <3>0. Len(t) \in Nat /\ i # Len(t) - 1 BY <1>1, <2>6
    <3>1. i + 1 \in 1 .. Len(t) - 1 BY <2>2, <3>0
    <3>2. Tail(t)[i + 1] = t[i + 1 + 1] BY <1>2, <3>1
    <3> QED BY <2>3, <2>4, <2>6, <3>2 DEF Program
  <2> QED BY <2>5, <2>6
<1>4. (IF Tail(t) = <<>> THEN None ELSE Head(Tail(t))) \in Follow(Head(t))
  <2>1. 1 \in 1 .. Len(t) BY <1>1
  <2>2. (IF 1 = Len(t) THEN None ELSE t[1 + 1]) \in Follow(t[1])
    BY <2>1 DEF Program
  <2>3. Tail(t) = <<>> <=> Len(Tail(t)) = 0
    <3>1. Tail(t) \in Seq(Steps) BY <1>1
    <3> QED BY <3>1, EmptySeq
  <2>4. Tail(t) # <<>> => Head(Tail(t)) = t[1 + 1]
    <3>1. HAVE Tail(t) # <<>>
    <3>2. 1 \in 1 .. Len(t) - 1 BY <1>1, <2>3, <3>1
    <3>3. Head(Tail(t)) = Tail(t)[1] BY <1>1, <3>1
    <3> QED BY <1>2, <3>2, <3>3
  <2> QED BY <1>1, <2>2, <2>3, <2>4
<1> QED BY <1>1, <1>3, <1>4

LEMMA JoinProgram ==
  ASSUME NEW p \in Seq(Steps), NEW t \in Seq(Steps), p # <<>>, Program(t),
         \A i \in 1 .. Len(p) - 1 : p[i + 1] \in Follow(p[i]),
         (IF t = <<>> THEN None ELSE Head(t)) \in Follow(p[Len(p)])
  PROVE  /\ p \o t \in Seq(Steps) /\ Program(p \o t)
         /\ p \o t # <<>> /\ Head(p \o t) = Head(p)
<1>1. /\ Len(p) \in Nat /\ Len(p) > 0 /\ Len(t) \in Nat
      /\ p \o t \in Seq(Steps) /\ Len(p \o t) = Len(p) + Len(t)
  OBVIOUS
<1>2. /\ \A i \in 1 .. Len(p) : (p \o t)[i] = p[i]
      /\ \A j \in 1 .. Len(t) : (p \o t)[Len(p) + j] = t[j]
  BY <1>1
<1>3. Program(p \o t)
  <2>1. SUFFICES ASSUME NEW i \in 1 .. Len(p \o t)
                 PROVE  (IF i = Len(p \o t) THEN None ELSE (p \o t)[i + 1])
                          \in Follow((p \o t)[i])
    BY DEF Program
  <2>2. i \in Nat /\ i >= 1 /\ i <= Len(p) + Len(t) BY <1>1
  <2>3. CASE i < Len(p)
    <3>1. i \in 1 .. Len(p) - 1 /\ i \in 1 .. Len(p) /\ i + 1 \in 1 .. Len(p)
          /\ i # Len(p \o t)
      BY <1>1, <2>2, <2>3
    <3> QED BY <1>2, <3>1
  <2>4. CASE i = Len(p)
    <3>1. t = <<>> <=> Len(t) = 0 OBVIOUS
    <3>2. i \in 1 .. Len(p) /\ (i = Len(p \o t) <=> t = <<>>) BY <1>1, <2>2, <2>4, <3>1
    <3>3. t # <<>> => Head(t) = t[1] /\ (p \o t)[i + 1] = t[1]
      <4>1. HAVE t # <<>>
      <4>2. 1 \in 1 .. Len(t) BY <1>1, <3>1, <4>1
      <4> QED BY <1>2, <2>4, <4>1, <4>2
    <3> QED BY <1>2, <2>4, <3>2, <3>3
  <2>5. CASE i > Len(p)
    <3>1. PICK j \in 1 .. Len(t) : i = Len(p) + j
      <4>1. i - Len(p) \in 1 .. Len(t) /\ i = Len(p) + (i - Len(p)) BY <1>1, <2>2, <2>5
      <4> QED BY <4>1
    <3>2. (p \o t)[i] = t[j] /\ (j = Len(t) <=> i = Len(p \o t))
      <4>1. (p \o t)[i] = t[j] BY <1>2, <3>1
      <4>2. Len(p) \in Nat /\ Len(t) \in Nat /\ Len(p \o t) = Len(p) + Len(t) BY <1>1
      <4>3. i = Len(p) + j BY <3>1
      <4>4. j \in Nat BY <4>2
      <4>5. j = Len(t) <=> i = Len(p \o t)
        <5> DEFINE a == Len(p)  b == Len(t)  c == Len(p \o t)
        <5>1. a \in Nat /\ b \in Nat /\ c = a + b /\ i = a + j BY <4>2, <4>3
        <5> HIDE DEF a, b, c
        <5>2. j = b <=> i = c BY <5>1, <4>4
        <5> QED BY <5>2 DEF b, c
      <4> QED BY <4>1, <4>5
    <3>3. j # Len(t) => (p \o t)[i + 1] = t[j + 1]
      <4>1. HAVE j # Len(t)
      <4>2. j + 1 \in 1 .. Len(t) /\ i + 1 = Len(p) + (j + 1) BY <1>1, <3>1, <4>1
      <4> QED BY <1>2, <4>2
    <3>4. (IF j = Len(t) THEN None ELSE t[j + 1]) \in Follow(t[j]) BY DEF Program
    <3> QED BY <3>2, <3>3, <3>4
  <2>6. i < Len(p) \/ i = Len(p) \/ i > Len(p) BY <2>2
  <2> QED BY <2>3, <2>4, <2>5, <2>6
<1> QED BY <1>1, <1>3

(* Every step of the control task replaces the one at hand by what follows *)
(* it in its program.                                                      *)
LEMMA NowIs ==
  ASSUME TodoInv
  PROVE  /\ todo = <<>> => Now = None
         /\ todo # <<>> => Now = Head(todo) /\ Now \in Steps /\ Now # None
<1>1. todo # <<>> => Head(todo) \in Steps BY TailProgram DEF TodoInv
<1> QED BY <1>1 DEF Now, Steps, None

LEMMA TodoStays ==
  ASSUME TodoInv, UNCHANGED todo
  PROVE  TodoInv' /\ Now' = Now
BY DEF TodoInv, Now, Program

LEMMA DoneTodo ==
  ASSUME TodoInv, todo # <<>>, Done
  PROVE  TodoInv' /\ Now' \in Follow(Now)
<1>1. Tail(todo) \in Seq(Steps) BY TailProgram DEF TodoInv
<1>2. todo' = Tail(todo) BY <1>1, ConcatEmptySeq DEF Done, Then
<1>3. TodoInv' BY <1>2, TailProgram DEF TodoInv, Program
<1>4. Now' = IF Tail(todo) = <<>> THEN None ELSE Head(Tail(todo)) BY <1>2 DEF Now
<1> QED BY <1>3, <1>4, TailProgram, NowIs DEF TodoInv

LEMMA ThenTodo ==
  ASSUME TodoInv, todo # <<>>, NEW p \in Seq(Steps), p # <<>>, Then(p),
         \A i \in 1 .. Len(p) - 1 : p[i + 1] \in Follow(p[i]),
         Follow(Now) \subseteq Follow(p[Len(p)])
  PROVE  TodoInv' /\ Now' = Head(p)
<1> DEFINE t == Tail(todo)
<1>1. /\ t \in Seq(Steps) /\ Program(t)
      /\ (IF t = <<>> THEN None ELSE Head(t)) \in Follow(p[Len(p)])
  BY TailProgram, NowIs DEF TodoInv
<1>2. todo' = p \o t BY DEF Then
<1> HIDE DEF t
<1>3. /\ p \o t \in Seq(Steps) /\ Program(p \o t)
      /\ p \o t # <<>> /\ Head(p \o t) = Head(p)
  BY <1>1, JoinProgram
<1> QED BY <1>2, <1>3 DEF TodoInv, Now, Program

LEMMA StepNow ==
  ASSUME TodoInv, NEW n, Step(n)
  PROVE  todo # <<>> /\ Now = n /\ TaskRuns
BY NowIs DEF Step

LEMMA StepDone ==
  ASSUME TodoInv, NEW n, Step(n), Done
  PROVE  TodoInv' /\ Now' \in Follow(n)
BY StepNow, DoneTodo

(* A program whose steps fit together and that ends with the step e.       *)
Fits(p, e) ==
  /\ p \in Seq(Steps) /\ p # <<>>
  /\ \A i \in 1 .. Len(p) - 1 : p[i + 1] \in Follow(p[i])
  /\ p[Len(p)] = e

LEMMA ThenFits ==
  ASSUME TodoInv, todo # <<>>, NEW p, NEW e, Fits(p, e), Follow(Now) \subseteq Follow(e), Then(p)
  PROVE  TodoInv' /\ Now' = Head(p)
BY ThenTodo DEF Fits

LEMMA JoinFits ==
  ASSUME NEW p, NEW q, NEW e, NEW f, Fits(p, e), Fits(q, f), Head(q) \in Follow(e)
  PROVE  Fits(p \o q, f) /\ Head(p \o q) = Head(p)
<1> DEFINE r == p \o q
<1>1. /\ p \in Seq(Steps) /\ q \in Seq(Steps) /\ p # <<>> /\ q # <<>>
      /\ Len(p) \in Nat /\ Len(q) \in Nat /\ Len(p) > 0 /\ Len(q) > 0
  BY EmptySeq DEF Fits
<1>2. /\ r \in Seq(Steps) /\ Len(r) = Len(p) + Len(q) /\ r # <<>>
      /\ Head(r) = Head(p)
  BY <1>1
<1>3. /\ \A i \in 1 .. Len(p) : r[i] = p[i]
      /\ \A j \in 1 .. Len(q) : r[Len(p) + j] = q[j]
  BY <1>1
<1>4. r[Len(r)] = f
  <2>1. Len(q) \in 1 .. Len(q) BY <1>1
  <2> QED BY <1>2, <1>3, <2>1 DEF Fits
<1>5. ASSUME NEW i \in 1 .. Len(r) - 1 PROVE r[i + 1] \in Follow(r[i])
  <2> DEFINE m == Len(p)  n == Len(q)
  <2>1. m \in Nat /\ n \in Nat /\ m > 0 /\ n > 0 /\ i \in Nat /\ i >= 1 /\ i + 1 <= m + n
    BY <1>1, <1>2
  <2>2. /\ \A k \in 1 .. m : r[k] = p[k]
        /\ \A k \in 1 .. n : r[m + k] = q[k]
        /\ \A k \in 1 .. m - 1 : p[k + 1] \in Follow(p[k])
        /\ \A k \in 1 .. n - 1 : q[k + 1] \in Follow(q[k])
        /\ p[m] = e /\ q[1] \in Follow(e)
    BY <1>1, <1>3 DEF Fits
  <2> HIDE DEF m, n, r
  <2>3. CASE i < m
    <3>1. i \in 1 .. m - 1 /\ i \in 1 .. m /\ i + 1 \in 1 .. m BY <2>1, <2>3
    <3> QED BY <2>2, <3>1
  <2>4. CASE i = m
    <3>1. i \in 1 .. m /\ 1 \in 1 .. n BY <2>1, <2>4
    <3> QED BY <2>2, <2>4, <3>1
  <2>5. CASE i > m
    <3>1. PICK k \in 1 .. n - 1 : i = m + k
      <4>1. i - m \in 1 .. n - 1 /\ i = m + (i - m) BY <2>1, <2>5
      <4> QED BY <4>1
    <3>2. k \in 1 .. n /\ k + 1 \in 1 .. n /\ i + 1 = m + (k + 1) BY <2>1, <3>1
    <3> QED BY <2>2, <3>1, <3>2
  <2> QED BY <2>1, <2>3, <2>4, <2>5
<1> QED BY <1>2, <1>4, <1>5 DEF Fits

LEMMA One == ASSUME NEW a \in Steps PROVE Fits(<<a>>, a) /\ Head(<<a>>) = a
BY DEF Fits

LEMMA Three ==
  ASSUME NEW a \in Steps, NEW b \in Steps, NEW c \in Steps,
         b \in Follow(a), c \in Follow(b)
  PROVE  Fits(<<a, b, c>>, c) /\ Head(<<a, b, c>>) = a
BY DEF Fits

LEMMA Four ==
  ASSUME NEW a \in Steps, NEW b \in Steps, NEW c \in Steps, NEW d \in Steps,
         b \in Follow(a), c \in Follow(b), d \in Follow(c)
  PROVE  Fits(<<a, b, c, d>>, d) /\ Head(<<a, b, c, d>>) = a
BY DEF Fits

LEMMA StopFits ==
  /\ Fits(AudioStop(FALSE), "shutOff") /\ Head(AudioStop(FALSE)) = "stop"
  /\ \E e \in {"shutOff", "nextNormal"} : Fits(AudioStop(TRUE), e)
  /\ Head(AudioStop(TRUE)) = "stop"
<1> DEFINE p == << "stop", "codecClose", "bbStop", "shutOff" >>
<1>0. /\ "stop" \in Steps /\ "codecClose" \in Steps /\ "bbStop" \in Steps /\ "shutOff" \in Steps
      /\ "codecClose" \in Follow("stop") /\ "bbStop" \in Follow("codecClose")
      /\ "shutOff" \in Follow("bbStop")
  BY DEF Follow, Steps
<1>1. Fits(p, "shutOff") /\ Head(p) = "stop" BY <1>0, Four
<1>2. p \in Seq(Steps) BY <1>1 DEF Fits
<1> HIDE DEF p
<1>3. Fits(<< "nextNormal" >>, "nextNormal") /\ Head(<< "nextNormal" >>) = "nextNormal"
  BY One DEF Steps
<1>4. "nextNormal" \in Follow("shutOff") BY DEF Follow
<1>5. Fits(p \o << "nextNormal" >>, "nextNormal") /\ Head(p \o << "nextNormal" >>) = "stop"
  BY <1>1, <1>3, <1>4, JoinFits
<1>6. p \o <<>> = p BY <1>2, ConcatEmptySeq
<1>7. \A normal : AudioStop(normal) = p \o AudioStopped(normal) BY DEF AudioStop, p
<1>8. AudioStopped(FALSE) = <<>> /\ AudioStopped(TRUE) \in {<<>>, << "nextNormal" >>}
  BY DEF AudioStopped
<1> QED BY <1>1, <1>5, <1>6, <1>7, <1>8

LEMMA FileOpenTodo ==
  ASSUME TodoInv, Step("fileOpen"), Then(AudioStarted)
  PROVE  TodoInv' /\ Now' = "hwInit"
<1>1. todo # <<>> /\ Now = "fileOpen" BY StepNow
<1>0. /\ "hwInit" \in Steps /\ "codecOpen" \in Steps /\ "opened" \in Steps /\ "setPlay" \in Steps
      /\ "codecOpen" \in Follow("hwInit") /\ "opened" \in Follow("codecOpen")
      /\ "setPlay" \in Follow("opened")
  BY DEF Follow, Steps
<1>2. Fits(AudioStarted, "setPlay") /\ Head(AudioStarted) = "hwInit"
  BY <1>0, Four DEF AudioStarted
<1>3. Follow("fileOpen") = Follow("setPlay") BY DEF Follow
<1> QED BY <1>1, <1>2, <1>3, ThenFits

LEMMA NextMusicTodo ==
  ASSUME TodoInv, AudioGetNextMusic
  PROVE  TodoInv' /\ Now \in {"nextNormal", "nextForce"} /\ Now' = "fileOpen"
<1>1. TodoInv /\ todo # <<>> /\ Now \in {"nextNormal", "nextForce"}
  BY StepNow DEF AudioGetNextMusic
<1>2. Fits(<< "fileOpen" >>, "fileOpen") /\ Head(<< "fileOpen" >>) = "fileOpen"
  BY One DEF Steps
<1>3. Fits(AudioStart \o << "seek" >>, "seek") /\ Head(AudioStart \o << "seek" >>) = "fileOpen"
  <2>1. Fits(<< "seek" >>, "seek") /\ Head(<< "seek" >>) = "seek" BY One DEF Steps
  <2>2. "seek" \in Follow("fileOpen") BY DEF Follow
  <2> QED BY <1>2, <2>1, <2>2, JoinFits DEF AudioStart
<1> DEFINE again == AudioStart \o << "seek" >> \o AudioPauseStep
<1>4. Fits(again, "pause") /\ Head(again) = "fileOpen"
  <2>1. Fits(<< "pause" >>, "pause") /\ Head(<< "pause" >>) = "pause" BY One DEF Steps
  <2>2. "pause" \in Follow("seek") BY DEF Follow
  <2> QED BY <1>3, <2>1, <2>2, JoinFits DEF AudioPauseStep
<1>5. Follow(Now) \subseteq Follow("fileOpen") /\ (Now = "nextNormal" => Follow(Now) \subseteq Follow("pause"))
  BY <1>1 DEF Follow
<1>6. Then(<< "fileOpen" >>) \/ (Now = "nextNormal" /\ Then(again))
  BY StepNow DEF AudioGetNextMusic, AudioStart
<1> HIDE DEF again
<1> QED BY <1>1, <1>2, <1>4, <1>5, <1>6, ThenFits

LEMMA GetEndTodo ==
  ASSUME TodoInv, Step("get"), Then(AudioStop(TRUE))
  PROVE  TodoInv' /\ Now' = "stop"
<1>1. todo # <<>> /\ Now = "get" BY StepNow
<1>2. \A e \in {"shutOff", "nextNormal"} : Follow(Now) \subseteq Follow(e)
  BY <1>1 DEF Follow
<1> QED BY <1>1, <1>2, StopFits, ThenFits

LEMMA GetCopyTodo ==
  ASSUME TodoInv, Step("get"), Then(<< "copied" >>)
  PROVE  TodoInv' /\ Now' = "copied"
<1>1. todo # <<>> /\ Now = "get" BY StepNow
<1>2. Fits(<< "copied" >>, "copied") /\ Head(<< "copied" >>) = "copied" BY One DEF Steps
<1>3. Follow("get") \subseteq Follow("copied") BY DEF Follow
<1> QED BY <1>1, <1>2, <1>3, ThenFits

LEMMA OpenedTodo ==
  ASSUME TodoInv, Step("opened"), todo' = AudioStop(FALSE) \o Tail(Tail(todo))
  PROVE  TodoInv' /\ Now' = "stop"
<1>1. todo # <<>> /\ Now = "opened" /\ Head(todo) = "opened" BY StepNow DEF Step
<1> DEFINE t == Tail(todo)  u == Tail(t)  p == AudioStop(FALSE)
<1>2. t \in Seq(Steps) /\ Program(t)
      /\ (IF t = <<>> THEN None ELSE Head(t)) \in Follow("opened")
  BY <1>1, TailProgram DEF TodoInv
<1>3. t # <<>> /\ Head(t) = "setPlay" BY <1>2 DEF Follow, None
<1> HIDE DEF t
<1>4. u \in Seq(Steps) /\ Program(u)
      /\ (IF u = <<>> THEN None ELSE Head(u)) \in Follow("setPlay")
  BY <1>2, <1>3, TailProgram
<1>5. Follow("setPlay") \subseteq Follow("shutOff") BY DEF Follow
<1>6. Fits(p, "shutOff") /\ Head(p) = "stop" BY StopFits
<1>7. todo' = p \o u BY DEF t
<1> HIDE DEF p, u
<1>8. /\ p \o u \in Seq(Steps) /\ Program(p \o u)
      /\ p \o u # <<>> /\ Head(p \o u) = "stop"
  BY <1>4, <1>5, <1>6, JoinProgram DEF Fits
<1> QED BY <1>7, <1>8 DEF TodoInv, Now, Program

LEMMA FitsProgram ==
  ASSUME NEW p, NEW e, Fits(p, e), None \in Follow(e)
  PROVE  p \in Seq(Steps) /\ p # <<>> /\ Program(p)
<1>1. Len(p) \in Nat BY DEF Fits
<1>2. ASSUME NEW i \in 1 .. Len(p)
      PROVE  (IF i = Len(p) THEN None ELSE p[i + 1]) \in Follow(p[i])
  <2>1. CASE i = Len(p) BY <2>1 DEF Fits
  <2>2. CASE i # Len(p)
    <3>1. i \in 1 .. Len(p) - 1 BY <1>1, <2>2
    <3> QED BY <2>2, <3>1 DEF Fits
  <2> QED BY <2>1, <2>2
<1> QED BY <1>2 DEF Program, Fits

(* What a command of the queue asks for.                                   *)
LEMMA ProcFits ==
  ASSUME NEW cmd \in Cmds
  PROVE  \E e : /\ Fits(AudioDecodeProc(cmd), e) /\ "get" \in Follow(e)
                /\ Head(AudioDecodeProc(cmd)) \in
                     {"fileOpen", "stop", "pause", "resume", "ffd", "ffPause", "seek"}
                /\ Head(AudioDecodeProc(cmd)) = "fileOpen" => cmd = "DECSTART"
<1>1. CASE cmd = "DECSTART"
  <2>1. Fits(<< "fileOpen" >>, "fileOpen") /\ Head(<< "fileOpen" >>) = "fileOpen"
    BY One DEF Steps
  <2>2. AudioDecodeProc(cmd) = << "fileOpen" >> BY <1>1 DEF AudioDecodeProc, AudioStart
  <2> QED BY <1>1, <2>1, <2>2 DEF Follow
<1>2. CASE cmd = "STOP"
  <2>1. AudioDecodeProc(cmd) = AudioStop(FALSE) BY <1>2 DEF AudioDecodeProc
  <2> QED BY <2>1, StopFits DEF Follow
<1>3. CASE cmd = "NEXTFILE"
  <2>1. AudioDecodeProc(cmd) = AudioStop(FALSE) \o << "nextForce" >> BY <1>3 DEF AudioDecodeProc
  <2>2. Fits(<< "nextForce" >>, "nextForce") /\ Head(<< "nextForce" >>) = "nextForce"
    BY One DEF Steps
  <2>3. "nextForce" \in Follow("shutOff") /\ "get" \in Follow("nextForce") BY DEF Follow
  <2>4. Fits(AudioDecodeProc(cmd), "nextForce") /\ Head(AudioDecodeProc(cmd)) = "stop"
    BY <2>1, <2>2, <2>3, StopFits, JoinFits
  <2> QED BY <2>3, <2>4
<1>4. CASE cmd = "PAUSE"
  <2>1. Fits(<< "pause" >>, "pause") /\ Head(<< "pause" >>) = "pause" BY One DEF Steps
  <2>2. AudioDecodeProc(cmd) = << "pause" >> BY <1>4 DEF AudioDecodeProc, AudioPauseStep
  <2> QED BY <2>1, <2>2 DEF Follow
<1>5. CASE cmd = "RESUME"
  <2>1. Fits(<< "resume" >>, "resume") /\ Head(<< "resume" >>) = "resume" BY One DEF Steps
  <2>2. AudioDecodeProc(cmd) = << "resume" >> BY <1>5 DEF AudioDecodeProc
  <2> QED BY <2>1, <2>2 DEF Follow
<1>6. CASE cmd = "FFD"
  <2>1. Fits(<< "ffd" >>, "ffd") /\ Head(<< "ffd" >>) = "ffd" BY One DEF Steps
  <2>2. AudioDecodeProc(cmd) = << "ffd" >> BY <1>6 DEF AudioDecodeProc
  <2> QED BY <2>1, <2>2 DEF Follow
<1>7. CASE cmd = "FF_RESUME"
  <2>1. /\ "seek" \in Steps /\ "ffTake" \in Steps /\ "ffResumed" \in Steps
        /\ "ffTake" \in Follow("seek") /\ "ffResumed" \in Follow("ffTake")
        /\ "get" \in Follow("ffResumed")
    BY DEF Steps, Follow
  <2>2. Fits(<< "seek", "ffTake", "ffResumed" >>, "ffResumed")
        /\ Head(<< "seek", "ffTake", "ffResumed" >>) = "seek"
    BY <2>1, Three
  <2>3. AudioDecodeProc(cmd) = << "seek", "ffTake", "ffResumed" >> BY <1>7 DEF AudioDecodeProc
  <2> QED BY <2>1, <2>2, <2>3
<1>8. CASE cmd = "FF_PAUSE"
  <2>1. Fits(<< "ffPause" >>, "ffPause") /\ Head(<< "ffPause" >>) = "ffPause" BY One DEF Steps
  <2>2. AudioDecodeProc(cmd) = << "ffPause" >> BY <1>8 DEF AudioDecodeProc
  <2> QED BY <2>1, <2>2 DEF Follow
<1> QED BY <1>1, <1>2, <1>3, <1>4, <1>5, <1>6, <1>7, <1>8 DEF Cmds

LEMMA ReceiveTodo ==
  ASSUME TodoInv, Receive
  PROVE  /\ TodoInv' /\ Now = None
         /\ Now' \in {"fileOpen", "stop", "pause", "resume", "ffd", "ffPause", "seek"}
         /\ Now' = "fileOpen" => source = "dlna"
<1>1. PICK cmd \in Cmds : /\ cmd = "DECSTART" => source = "dlna"
                          /\ todo' = AudioDecodeProc(cmd) \o << "get" >>
  BY DEF Receive
<1> DEFINE p == AudioDecodeProc(cmd)
<1>2. PICK e : /\ Fits(p, e) /\ "get" \in Follow(e)
               /\ Head(p) \in {"fileOpen", "stop", "pause", "resume", "ffd", "ffPause", "seek"}
               /\ Head(p) = "fileOpen" => cmd = "DECSTART"
  BY ProcFits
<1>3. Fits(<< "get" >>, "get") /\ Head(<< "get" >>) = "get" BY One DEF Steps
<1>4. todo' = p \o << "get" >> BY <1>1
<1> HIDE DEF p
<1>5. Fits(todo', "get") /\ Head(todo') = Head(p) BY <1>2, <1>3, <1>4, JoinFits
<1>6. None \in Follow("get") BY DEF Follow
<1>7. todo' \in Seq(Steps) /\ todo' # <<>> /\ Program(todo') BY <1>5, <1>6, FitsProgram
<1>8. Now = None BY NowIs DEF Receive
<1> QED BY <1>1, <1>2, <1>5, <1>7, <1>8 DEF TodoInv, Now, Program

LEMMA NextBufferTodo ==
  ASSUME TodoInv, NextBuffer
  PROVE  TodoInv' /\ Now = None /\ Now' = "get"
<1>1. Fits(<< "get" >>, "get") /\ Head(<< "get" >>) = "get" BY One DEF Steps
<1>2. None \in Follow("get") BY DEF Follow
<1>3. todo' = << "get" >> /\ Now = None BY NowIs DEF NextBuffer
<1>4. todo' \in Seq(Steps) /\ todo' # <<>> /\ Program(todo') BY <1>1, <1>2, <1>3, FitsProgram
<1> QED BY <1>1, <1>3, <1>4 DEF TodoInv, Now, Program

----------------------------------------------------------------------------
(* The types *)

LEMMA SameControl ==
  ASSUME ControlOK, UNCHANGED <<player, todo>> PROVE ControlOK'
BY DEF ControlOK, player

LEMMA SameSync == ASSUME SyncOK, UNCHANGED sync PROVE SyncOK'
BY DEF SyncOK, sync

LEMMA SameBCore == ASSUME BCoreOK, UNCHANGED bmain PROVE BCoreOK'
BY DEF BCoreOK, bmain

LEMMA SameLink == ASSUME LinkOK, UNCHANGED <<a2b, b2a, stream, event>> PROVE LinkOK'
BY DEF LinkOK, stream

LEMMA TokenNames ==
  /\ BCoreCmds \subseteq Tokens /\ "DMA" \in Tokens
  /\ {"DEC_OPEN", "DECODE", "DECODE_SEEK", "DECODE_CLOSE"} \subseteq BCoreCmds
  /\ {"FILE_OPEN_CMPL", "FILE_CLOSE_CMPL"} \subseteq BCoreCmds
  /\ \A a \in Answers : CmdOf(a) \in BCoreCmds
BY DEF BCoreCmds, Tokens, DecodeCmds, FileCmds, Answers, CmdOf

LEMMA SendTypes ==
  ASSUME LinkOK, NEW cmd \in BCoreCmds, Send(cmd), UNCHANGED <<b2a, stream>>
  PROVE  LinkOK'
<1>1. event' \in Mishaps \cup {None} BY DEF Send, Mishaps
<1> QED BY <1>1 DEF LinkOK, Send, stream

LEMMA AwaitTypes ==
  ASSUME SyncOK, NEW cmd \in Tokens, Await(cmd),
         block' \in Blocks,
         dma' \in BOOLEAN, masked' \in BOOLEAN, UNCHANGED <<gError, sem, isr>>
  PROVE  SyncOK'
BY DEF SyncOK, Await

LEMMA ControlTypes ==
  ASSUME TypeOK, todo' \in Seq(Steps), ControlStep
  PROVE  TypeOK'
<1> ControlOK /\ SyncOK /\ BCoreOK /\ LinkOK BY DEF TypeOK
<1> USE DEF control, cores
<1>1. CASE Receive \/ NextBuffer \/ NoCodec \/ AudioGetNextMusic \/ Opened \/ GetNothing
  <2>1. UNCHANGED <<player, sync, cores, event>>
    BY <1>1 DEF Receive, NextBuffer, NoCodec, AudioGetNextMusic, Opened, GetNothing
  <2>2. ControlOK' BY <2>1 DEF ControlOK, player
  <2> QED BY <2>1, <2>2, SameSync, SameBCore, SameLink DEF TypeOK
<1>2. CASE FileOpen \/ SetPlay \/ Stop \/ Pause \/ Resume \/ FastForward \/ FFPause \/ FFResumed \/ GetEnd
  <2>1. UNCHANGED <<sync, cores, event>>
    BY <1>2 DEF FileOpen, SetPlay, Stop, Pause, Resume, FastForward, FFPause, FFResumed, GetEnd
  <2>2. /\ source' = source /\ AudioPlayState' \in {"STOP", "PLAY", "PAUSE"}
        /\ AudioPlayerState' \in {"PLAY", "PAUSE", "FF"}
        /\ CurrentCodec' \in {None, "buffered", "raw"}
    BY <1>2 DEF ControlOK, FileOpen, SetPlay, Stop, Pause, Resume, FastForward, FFPause, FFResumed, GetEnd
  <2>3. ControlOK' BY <2>2 DEF ControlOK
  <2> QED BY <2>1, <2>3, SameSync, SameBCore, SameLink DEF TypeOK
<1>3. CASE HWInit
  <2>1. ControlOK' BY <1>3 DEF HWInit, ControlOK, player
  <2>2. SyncOK' BY <1>3, AwaitTypes, TokenNames DEF HWInit, SyncOK, Blocks
  <2>3. BCoreOK' BY <1>3 DEF HWInit, BCore, BCoreOK
  <2>4. event' \in Mishaps \cup {None} BY <1>3 DEF HWInit, Mishaps
  <2>5. a2b' \in BCoreCmds /\ {req', serving', ans'} \subseteq Requests \cup {None} /\ b2a' = b2a
    BY <1>3, TokenNames DEF HWInit, BCore, LinkOK, Requests
  <2>6. LinkOK' BY <2>4, <2>5 DEF LinkOK
  <2> QED BY <2>1, <2>2, <2>3, <2>6 DEF TypeOK
<1>4. CASE CodecOpen \/ CodecClose \/ AudioWaitBBStop \/ CodecSeek
  <2>1. PICK cmd \in BCoreCmds : Send(cmd) /\ Await(cmd)
    BY <1>4, TokenNames DEF CodecOpen, CodecClose, AudioWaitBBStop, CodecSeek, SendAndAwait
  <2>2. /\ UNCHANGED <<player, gError, dma, sem, masked, isr, b2a, bmain, stream>>
        /\ block' = block \/ block' = [block EXCEPT !.needDecode = FALSE]
    BY <1>4 DEF CodecOpen, CodecClose, AudioWaitBBStop, CodecSeek
  <2>3. ControlOK' BY <2>2 DEF ControlOK, player
  <2>4. SyncOK' BY <2>1, <2>2, AwaitTypes, TokenNames DEF SyncOK, Blocks
  <2> QED BY <2>1, <2>2, <2>3, <2>4, SameBCore, SendTypes DEF TypeOK
<1>5. CASE GetDecode
  <2>1. SyncOK' BY <1>5, AwaitTypes, TokenNames DEF GetDecode, SendAndAwait, SyncOK, Blocks
  <2> QED BY <1>5, <2>1, TokenNames, SameControl, SameBCore, SendTypes DEF TypeOK, GetDecode, SendAndAwait
<1>6. CASE GetWait
  <2>1. SyncOK' BY <1>6, AwaitTypes, TokenNames DEF GetWait, SyncOK, Blocks
  <2>2. event' \in Mishaps \cup {None} BY <1>6 DEF GetWait, Mishaps
  <2>3. LinkOK' BY <1>6, <2>2 DEF GetWait, LinkOK, stream
  <2> QED BY <1>6, <2>1, <2>3, SameControl, SameBCore DEF TypeOK, GetWait
<1>7. CASE GetCopy
  <2>1. ControlOK' BY <1>7 DEF GetCopy, ControlOK, player
  <2>2. SyncOK' BY <1>7, TokenNames DEF GetCopy, SyncOK, Await, Blocks
  <2> QED BY <1>7, <2>1, <2>2, TokenNames, SameBCore, SendTypes DEF TypeOK, GetCopy
<1>8. CASE ShutOff
  <2>1. ControlOK' BY <1>8 DEF ShutOff, ControlOK, player
  <2>2. BCoreOK' BY <1>8 DEF ShutOff, BCore, BCoreOK
  <2>3. LinkOK' BY <1>8 DEF ShutOff, BCore, LinkOK
  <2> QED BY <1>8, <2>1, <2>2, <2>3, SameSync DEF TypeOK, ShutOff
<1>9. CASE FFTake
  <2>1. ControlOK' BY <1>9 DEF FFTake, ControlOK, player
  <2>2. event' \in Mishaps \cup {None} BY <1>9 DEF FFTake, Mishaps
  <2>3. LinkOK' BY <1>9, <2>2 DEF FFTake, LinkOK, stream
  <2> QED BY <1>9, <2>1, <2>3, SameSync, SameBCore DEF TypeOK, FFTake
<1>10. CASE Copied
  <2>1. ControlOK' BY <1>10 DEF Copied, ControlOK, player
  <2>2. SyncOK' BY <1>10 DEF Copied, SyncOK
  <2> QED BY <1>10, <2>1, <2>2, SameBCore, SameLink DEF TypeOK, Copied
<1> QED BY <1>1, <1>2, <1>3, <1>4, <1>5, <1>6, <1>7, <1>8, <1>9, <1>10 DEF ControlStep

LEMMA OtherTypes ==
  ASSUME TypeOK, Running => ans # "old",
         \/ Take \/ DmaDone \/ IsrRead \/ IsrClear \/ ShellSeek
         \/ MailBoxDecService \/ MailBoxFileService \/ StreamTake \/ StreamServe
  PROVE  TypeOK'
<1> ControlOK /\ SyncOK /\ BCoreOK /\ LinkOK BY DEF TypeOK
<1> USE DEF control, cores
<1>1. CASE Take
  <2>1. SyncOK' BY <1>1 DEF Take, SyncOK
  <2> QED BY <1>1, <2>1, SameControl, SameBCore, SameLink DEF TypeOK, Take
<1>2. CASE DmaDone
  <2>1. SyncOK' BY <1>2, TokenNames DEF DmaDone, SyncOK
  <2> QED BY <1>2, <2>1, SameControl, SameBCore, SameLink DEF TypeOK, DmaDone
<1>3. CASE IsrRead
  <2>1. SyncOK' BY <1>3 DEF IsrRead, SyncOK, LinkOK
  <2> QED BY <1>3, <2>1, SameControl, SameBCore, SameLink DEF TypeOK, IsrRead
<1>4. CASE IsrClear
  <2>1. block' \in Blocks
    <3>1. block' = BlockAfter(isr) BY <1>4 DEF IsrClear
    <3>2. block \in Blocks BY DEF SyncOK
    <3>3. CASE isr = "DEC_OPEN_CMPL" BY <3>1, <3>2, <3>3 DEF BlockAfter, Blocks
    <3>4. CASE isr = "DECODE_CMPL" BY <3>1, <3>4 DEF BlockAfter, Blocks
    <3>5. CASE isr = "DECODE_ERR" BY <3>1, <3>5 DEF BlockAfter, Blocks
    <3>6. CASE isr \notin {"DEC_OPEN_CMPL", "DECODE_CMPL", "DECODE_ERR"}
      BY <3>1, <3>2, <3>6 DEF BlockAfter, Blocks
    <3> QED BY <3>3, <3>4, <3>5, <3>6
  <2>2. isr \in Answers BY <1>4 DEF IsrClear, SyncOK
  <2>3. sem' \in Tokens \cup {None} BY <1>4, <2>2, TokenNames DEF IsrClear, SyncOK
  <2>4. gError' \in BOOLEAN BY <1>4 DEF IsrClear, SyncOK
  <2>5. SyncOK' BY <1>4, <2>1, <2>3, <2>4 DEF IsrClear, SyncOK
  <2>6. event' \in Mishaps \cup {None} BY <1>4 DEF IsrClear, Mishaps
  <2>7. LinkOK' BY <1>4, <2>6 DEF IsrClear, LinkOK, stream
  <2> QED BY <1>4, <2>5, <2>7, SameControl, SameBCore DEF TypeOK, IsrClear
<1>5. CASE ShellSeek
  <2>1. SyncOK' BY <1>5, TokenNames DEF ShellSeek, SyncOK
  <2>2. event' \in Mishaps \cup {None} BY <1>5 DEF ShellSeek, Send, Mishaps
  <2>3. a2b' \in BCoreCmds \cup {None} BY <1>5, TokenNames DEF ShellSeek, Send, LinkOK
  <2>4. LinkOK' BY <1>5, <2>2, <2>3 DEF ShellSeek, LinkOK, stream
  <2> QED BY <1>5, <2>1, <2>4, SameControl, SameBCore DEF TypeOK, ShellSeek
<1>6. CASE MailBoxDecService
  <2>1. a2b \in BCoreCmds BY <1>6 DEF MailBoxDecService, LinkOK
  <2>2. event' \in Mishaps \cup {None} BY <1>6 DEF MailBoxDecService, Mishaps
  <2>3. LinkOK' BY <1>6, <2>2 DEF MailBoxDecService, LinkOK, stream
  <2>4. status' \in DecodeCmds \cup {"IDLE"} BY <1>6 DEF MailBoxDecService, BCoreOK
  <2>5. gFileOpStatus' \in FileCmds \cup {"IDLE", "READ", "SEEK"}
    BY <1>6, <2>1 DEF MailBoxDecService, BCoreOK, BCoreCmds
  <2>6. gCmdDone' \in BOOLEAN BY <1>6 DEF MailBoxDecService, BCoreOK
  <2>7. BCoreOK' BY <1>6, <2>4, <2>5, <2>6 DEF MailBoxDecService, BCoreOK
  <2> QED BY <1>6, <2>3, <2>7, SameControl, SameSync DEF TypeOK, MailBoxDecService
<1>7. CASE MailBoxFileService
  <2>1. ans \in {"READ", "SEEK"} BY <1>7 DEF MailBoxFileService, LinkOK, Requests
  <2>2. BCoreOK' BY <1>7, <2>1 DEF MailBoxFileService, BCoreOK
  <2>3. event' \in Mishaps \cup {None} BY <1>7 DEF MailBoxFileService, Mishaps
  <2>4. LinkOK' BY <1>7, <2>3 DEF MailBoxFileService, LinkOK
  <2> QED BY <1>7, <2>2, <2>4, SameControl, SameSync DEF TypeOK, MailBoxFileService
<1>8. CASE StreamTake
  <2>1. LinkOK' BY <1>8 DEF StreamTake, LinkOK
  <2> QED BY <1>8, <2>1, SameControl, SameSync, SameBCore DEF TypeOK, StreamTake
<1>9. CASE StreamServe
  <2>1. event' \in Mishaps \cup {None} BY <1>9 DEF StreamServe, Mishaps
  <2>2. LinkOK' BY <1>9, <2>1 DEF StreamServe, LinkOK
  <2> QED BY <1>9, <2>2, SameControl, SameSync, SameBCore DEF TypeOK, StreamServe
<1> QED BY <1>1, <1>2, <1>3, <1>4, <1>5, <1>6, <1>7, <1>8, <1>9

LEMMA MainTypes ==
  ASSUME TypeOK, Running => OpInv, MainStep
  PROVE  TypeOK'
<1> ControlOK /\ SyncOK /\ BCoreOK /\ LinkOK BY DEF TypeOK
<1> USE DEF control, cores
<1>0. Running /\ OpInv
  BY DEF MainStep, Top, Idle, Wake, Case, Input, CodecRequest, CodecReturns, Waited, Answer,
         FillBuffer, Second, FileCase, Handshake, At
<1>1. UNCHANGED <<control, sync, a2b>>
  BY DEF MainStep, Top, Idle, Wake, Case, Input, CodecRequest, CodecReturns, Waited, Answer,
         FillBuffer, Second, FileCase, Handshake
<1>2. CASE Top \/ Idle \/ Wake \/ FillBuffer \/ Second \/ CodecReturns
  <2>1. UNCHANGED <<a2b, b2a, stream, event>>
    BY <1>2 DEF Top, Idle, Wake, FillBuffer, Second, CodecReturns
  <2>2. BCoreOK'
    <3>1. CASE Top BY <3>1 DEF Top, At, Go, BCoreOK, BCoreCmds
    <3>2. CASE Idle BY <3>2 DEF Idle, At, Go, After, BCoreOK
    <3>3. CASE Wake BY <3>3 DEF Wake, At, Go, After, BCoreOK
    <3>4. CASE FillBuffer BY <3>4 DEF FillBuffer, At, Go, BCoreOK
    <3>5. CASE Second BY <3>5 DEF Second, At, Go, BCoreOK, BCoreCmds
    <3>6. CASE CodecReturns BY <3>6 DEF CodecReturns, MayFill, At, Go, BCoreOK
    <3> QED BY <1>2, <3>1, <3>2, <3>3, <3>4, <3>5, <3>6
  <2> QED BY <1>1, <2>1, <2>2, SameControl, SameSync, SameLink DEF TypeOK
<1>3. CASE Case \/ Answer \/ Handshake
  <2>1. event' \in Mishaps \cup {None} BY <1>3 DEF Case, Answer, Handshake, Mishaps, LinkOK
  <2>2. b2a' \in Answers \cup {None} /\ UNCHANGED stream
    BY <1>3 DEF Case, Answer, Handshake, LinkOK
  <2>3. LinkOK' BY <1>1, <2>1, <2>2 DEF LinkOK, stream
  <2>4. BCoreOK'
    <3>1. CASE Case BY <3>1 DEF Case, At, Go, BCoreOK
    <3>2. CASE Answer BY <3>2 DEF Answer, At, Go, BCoreOK
    <3>3. CASE Handshake BY <3>3 DEF Handshake, At, Go, BCoreOK
    <3> QED BY <1>3, <3>1, <3>2, <3>3
  <2> QED BY <1>1, <2>3, <2>4, SameControl, SameSync DEF TypeOK
<1>4. CASE Input \/ CodecRequest \/ Waited \/ FileCase
  <2>1. event' \in Mishaps \cup {None}
    BY <1>4 DEF Input, CodecRequest, Waited, FileCase, Mishaps, LinkOK
  <2>2. req' \in Requests \cup {None} /\ UNCHANGED <<b2a, serving, ans>>
    <3>1. CASE Input BY <3>1 DEF Input, Request, Requests
    <3>2. CASE CodecRequest BY <3>2 DEF CodecRequest, Request, Requests
    <3>3. CASE Waited BY <1>0, <3>3 DEF Waited, Request, Requests, LinkOK, OpInv, At
    <3>4. CASE FileCase BY <3>4 DEF FileCase, Request, Requests, LinkOK
    <3> QED BY <1>4, <3>1, <3>2, <3>3, <3>4
  <2>3. LinkOK' BY <1>1, <2>1, <2>2 DEF LinkOK
  <2>4. BCoreOK'
    <3>1. CASE Input BY <3>1 DEF Input, Request, At, Go, After, BCoreOK
    <3>2. CASE CodecRequest BY <3>2 DEF CodecRequest, Request, At, Go, BCoreOK
    <3>3. CASE Waited BY <1>0, <3>3 DEF Waited, MayFill, Request, At, Go, BCoreOK, BCoreCmds, FileCmds, OpInv
    <3>4. CASE FileCase BY <1>0, <3>4 DEF FileCase, Request, At, Go, BCoreOK, OpInv
    <3> QED BY <1>4, <3>1, <3>2, <3>3, <3>4
  <2> QED BY <1>1, <2>3, <2>4, SameControl, SameSync DEF TypeOK
<1> QED BY <1>2, <1>3, <1>4 DEF MainStep

----------------------------------------------------------------------------
(* Steps that move no command and give no token *)

LEMMA SamePlaces ==
  ASSUME UNCHANGED <<a2b, b2a, isr, bpc, op, status, gFileOpStatus>>
  PROVE  /\ \A cmd : InWork(cmd)' <=> InWork(cmd)
         /\ \A cmd : Answered(cmd)' <=> Answered(cmd)
         /\ \A cmd : UnderWay(cmd)' <=> UnderWay(cmd)
         /\ OpInv => OpInv'
         /\ OrderInv => OrderInv'
<1>1. /\ \A cmd : InWork(cmd)' <=> InWork(cmd)
      /\ \A cmd : Answered(cmd)' <=> Answered(cmd)
      /\ \A cmd : AtWork(cmd)' <=> AtWork(cmd)
      /\ \A cmd : Unread(cmd)' <=> Unread(cmd)
  BY DEF InWork, Answered, AtWork, Unread
<1>2. \A cmd, d : Last(cmd, d)' <=> Last(cmd, d) BY <1>1 DEF Last
<1> QED BY <1>1, <1>2 DEF UnderWay, OpInv, OrderInv

(* A step of the control task that only changes what it does next and the  *)
(* state of the player.                                                    *)
LEMMA PlayerSteps ==
  ASSUME IInv, TodoInv, event' = None,
         \/ Receive \/ NextBuffer \/ FileOpen \/ Opened \/ SetPlay \/ Stop \/ NoCodec
         \/ AudioGetNextMusic \/ Pause \/ Resume \/ FastForward \/ FFPause \/ FFTake \/ FFResumed
         \/ GetNothing \/ GetEnd
  PROVE  RunInv'
<1>1. UNCHANGED <<source, sync, cores>> /\ TaskRuns /\ Running
  BY DEF Receive, NextBuffer, FileOpen, Opened, SetPlay, Stop, NoCodec, AudioGetNextMusic, Pause,
         Resume, FastForward, FFPause, FFTake, FFResumed, GetNothing, GetEnd, Get, Step, TaskRuns, player
<1>2. RunInv /\ TypeOK BY <1>1 DEF IInv, TaskRuns
<1>3. /\ UNCHANGED <<source, block, gError, waiting, byShell, dma, sem, masked, isr, a2b, b2a,
                     bpc, op, status, gFileOpStatus, hw, fill, ans>>
      /\ waiting = None \/ byShell
  BY <1>1 DEF sync, cores, bmain, stream, TaskRuns
<1>4. /\ \A cmd : UnderWay(cmd)' <=> UnderWay(cmd)
      /\ \A cmd : Answered(cmd)' <=> Answered(cmd)
      /\ OpInv' /\ OrderInv'
  BY <1>2, <1>3, SamePlaces DEF RunInv
<1>5. ans' # "old" /\ AnswerIsComing' /\ AwaitedInv'
  BY <1>1, <1>2, <1>3, <1>4 DEF RunInv, AnswerIsComing, AwaitedInv, Running
<1> DEFINE Facts == TokenInv /\ PlayerInv /\ OffInv /\ ClosedInv /\ HardwareInv /\ AheadInv
<1>6. Facts /\ ControlOK BY <1>2 DEF RunInv, TypeOK
<1>7. SUFFICES TokenInv' /\ PlayerInv' /\ OffInv' /\ ClosedInv' /\ HardwareInv' /\ AheadInv'
  BY <1>4, <1>5 DEF RunInv
<1> USE <1>1, <1>3, <1>4, <1>6 DEF None
<1>8. CASE Receive
  <2>1. /\ Now = None /\ Now' \in {"fileOpen", "stop", "pause", "resume", "ffd", "ffPause", "seek"}
        /\ UNCHANGED player /\ (Now' = "fileOpen" => source = "dlna")
    BY <1>8, ReceiveTodo DEF Receive, player
  <2>2. TokenInv' /\ PlayerInv' /\ OffInv' BY <2>1 DEF TokenInv, PlayerInv, OffInv, player
  <2>3. ClosedInv' /\ HardwareInv' BY <2>1 DEF TokenInv, ClosedInv, HardwareInv, player
  <2>4. AheadInv' BY <2>1 DEF AheadInv, OneAhead, Running, player
  <2> QED BY <2>2, <2>3, <2>4
<1>9. CASE NextBuffer
  <2>1. Now = None /\ Now' = "get" /\ UNCHANGED player
    BY <1>9, NextBufferTodo DEF NextBuffer, player
  <2>2. TokenInv' /\ PlayerInv' /\ OffInv' BY <2>1 DEF TokenInv, PlayerInv, OffInv, player
  <2>3. ClosedInv' /\ HardwareInv' BY <2>1 DEF TokenInv, ClosedInv, HardwareInv, player
  <2>4. AheadInv' BY <2>1 DEF AheadInv, OneAhead, Running, player
  <2> QED BY <2>2, <2>3, <2>4
<1>10. CASE FileOpen
  <2>1. /\ Now = "fileOpen" /\ UNCHANGED <<AudioPlayState, AudioPlayerState>>
        /\ \/ Now' = "hwInit" /\ CurrentCodec' \in {"buffered", "raw"}
           \/ source = "file" /\ Now' \in {None, "get", "seek"}
    BY <1>10, StepNow, StepDone, FileOpenTodo DEF FileOpen, Follow, player
  <2>2. TokenInv' /\ PlayerInv' /\ OffInv' BY <2>1 DEF TokenInv, PlayerInv, OffInv, player, AheadInv, ControlOK
  <2>3. ClosedInv' /\ HardwareInv' BY <2>1 DEF TokenInv, ClosedInv, HardwareInv, player
  <2>4. AheadInv' BY <2>1 DEF AheadInv, OneAhead, Running, player, PlayerInv
  <2> QED BY <2>2, <2>3, <2>4
<1>11. CASE Opened
  <2>1. /\ Now = "opened" /\ UNCHANGED player
        /\ Now' = "stop" \/ (~gError /\ Now' = "setPlay")
    BY <1>11, StepNow, StepDone, OpenedTodo DEF Opened, Follow, player
  <2>2. TokenInv' /\ PlayerInv' /\ OffInv' BY <2>1 DEF TokenInv, PlayerInv, OffInv, player
  <2>3. ClosedInv' /\ HardwareInv' BY <2>1 DEF TokenInv, ClosedInv, HardwareInv, player
  <2>4. AheadInv' BY <2>1 DEF AheadInv, OneAhead, Running, player, TokenInv, ClosedInv, PlayerInv
  <2> QED BY <2>2, <2>3, <2>4
<1>12. CASE SetPlay
  <2>1. /\ Now = "setPlay" /\ Now' \in {None, "get", "seek"}
        /\ UNCHANGED CurrentCodec
    BY <1>12, StepNow, StepDone DEF SetPlay, Follow, player
  <2>2. TokenInv' /\ PlayerInv' /\ OffInv' BY <2>1 DEF TokenInv, PlayerInv, OffInv, player
  <2>3. ClosedInv' /\ HardwareInv' BY <2>1 DEF TokenInv, ClosedInv, HardwareInv, player
  <2>4. AheadInv' BY <2>1 DEF AheadInv, OneAhead, Running, player
  <2> QED BY <2>2, <2>3, <2>4
<1>13. CASE Stop
  <2>1. /\ Now = "stop" /\ Now' = "codecClose"
        /\ UNCHANGED CurrentCodec /\ AudioPlayState' = "STOP"
    BY <1>13, StepNow, StepDone DEF Stop, Follow, player
  <2>2. TokenInv' /\ PlayerInv' /\ OffInv' BY <2>1 DEF TokenInv, PlayerInv, OffInv, player
  <2>3. ClosedInv' /\ HardwareInv' BY <2>1 DEF TokenInv, ClosedInv, HardwareInv, player
  <2>4. AheadInv' BY <2>1 DEF AheadInv, OneAhead, Running, player
  <2> QED BY <2>2, <2>3, <2>4
<1>14. CASE NoCodec
  <2>1. /\ \/ Now = "codecClose" /\ Now' = "bbStop"
           \/ Now = "bbStop" /\ Now' = "shutOff"
           \/ Now = "shutOff" /\ Now' \in {None, "get", "nextForce", "nextNormal", "seek"}
           \/ Now = "seek" /\ Now' \in {"pause", "ffTake"}
        /\ CurrentCodec = None /\ UNCHANGED player
    BY <1>14, NowIs, DoneTodo DEF NoCodec, Follow, player
  <2>2. TokenInv' /\ PlayerInv' /\ OffInv' BY <2>1 DEF TokenInv, PlayerInv, OffInv, player
  <2>3. ClosedInv' /\ HardwareInv' BY <2>1 DEF TokenInv, ClosedInv, HardwareInv, player, PlayerInv
  <2>4. AheadInv' BY <2>1 DEF AheadInv, OneAhead, Running, player, PlayerInv
  <2> QED BY <2>2, <2>3, <2>4
<1>15. CASE AudioGetNextMusic
  <2>1. Now \in {"nextNormal", "nextForce"} /\ Now' = "fileOpen" /\ UNCHANGED player
    BY <1>15, NextMusicTodo DEF AudioGetNextMusic, player
  <2>2. TokenInv' /\ PlayerInv' /\ OffInv' BY <2>1 DEF TokenInv, PlayerInv, OffInv, player
  <2>3. ClosedInv' /\ HardwareInv' BY <2>1 DEF TokenInv, ClosedInv, HardwareInv, player
  <2>4. AheadInv' BY <2>1 DEF AheadInv, OneAhead, Running, player
  <2> QED BY <2>2, <2>3, <2>4
<1>16. CASE Pause
  <2>1. /\ Now = "pause" /\ Now' \in {None, "get"} /\ UNCHANGED CurrentCodec
        /\ AudioPlayState' \in {AudioPlayState, "STOP"}
    BY <1>16, StepNow, StepDone DEF Pause, Follow, player
  <2>2. TokenInv' /\ PlayerInv' /\ OffInv' BY <2>1 DEF TokenInv, PlayerInv, OffInv, player
  <2>3. ClosedInv' /\ HardwareInv' BY <2>1 DEF TokenInv, ClosedInv, HardwareInv, player
  <2>4. AheadInv' BY <2>1 DEF AheadInv, OneAhead, Running, player
  <2> QED BY <2>2, <2>3, <2>4
<1>17. CASE Resume
  <2>1. /\ Now = "resume" /\ Now' = "get" /\ UNCHANGED CurrentCodec
    BY <1>17, StepNow, StepDone DEF Resume, Follow, player
  <2>2. TokenInv' /\ PlayerInv' /\ OffInv' BY <2>1 DEF TokenInv, PlayerInv, OffInv, player
  <2>3. ClosedInv' /\ HardwareInv' BY <2>1 DEF TokenInv, ClosedInv, HardwareInv, player
  <2>4. AheadInv' BY <2>1 DEF AheadInv, OneAhead, Running, player
  <2> QED BY <2>2, <2>3, <2>4
<1>18. CASE FastForward
  <2>1. /\ Now = "ffd" /\ Now' = "get" /\ UNCHANGED CurrentCodec
        /\ AudioPlayState' \in {AudioPlayState, "STOP"}
    BY <1>18, StepNow, StepDone DEF FastForward, Follow, player
  <2>2. TokenInv' /\ PlayerInv' /\ OffInv' BY <2>1 DEF TokenInv, PlayerInv, OffInv, player
  <2>3. ClosedInv' /\ HardwareInv' BY <2>1 DEF TokenInv, ClosedInv, HardwareInv, player
  <2>4. AheadInv' BY <2>1 DEF AheadInv, OneAhead, Running, player
  <2> QED BY <2>2, <2>3, <2>4
<1>19. CASE FFTake
  <2>1. /\ Now = "ffTake" /\ Now' = "ffResumed" /\ UNCHANGED player
    BY <1>19, StepNow, StepDone DEF FFTake, Follow, player
  <2>2. TokenInv' /\ PlayerInv' /\ OffInv' BY <2>1 DEF TokenInv, PlayerInv, OffInv, player
  <2>3. ClosedInv' /\ HardwareInv' BY <2>1 DEF TokenInv, ClosedInv, HardwareInv, player
  <2>4. AheadInv' BY <2>1 DEF AheadInv, OneAhead, Running, player
  <2> QED BY <2>2, <2>3, <2>4
<1>20. CASE FFResumed
  <2>1. /\ Now = "ffResumed" /\ Now' = "get" /\ UNCHANGED CurrentCodec
    BY <1>20, StepNow, StepDone DEF FFResumed, Follow, player
  <2>2. TokenInv' /\ PlayerInv' /\ OffInv' BY <2>1 DEF TokenInv, PlayerInv, OffInv, player
  <2>3. ClosedInv' /\ HardwareInv' BY <2>1 DEF TokenInv, ClosedInv, HardwareInv, player
  <2>4. AheadInv' BY <2>1 DEF AheadInv, OneAhead, Running, player
  <2> QED BY <2>2, <2>3, <2>4
<1>21. CASE GetNothing
  <2>1. /\ Now = "get" /\ Now' = None /\ UNCHANGED player
        /\ AudioPlayState # "PLAY" \/ CurrentCodec = None
    BY <1>21, StepNow, StepDone DEF GetNothing, Follow, player
  <2>2. TokenInv' /\ PlayerInv' /\ OffInv' BY <2>1 DEF TokenInv, PlayerInv, OffInv, player
  <2>3. ClosedInv' /\ HardwareInv' BY <2>1 DEF TokenInv, ClosedInv, HardwareInv, player
  <2>4. AheadInv' BY <2>1 DEF AheadInv, OneAhead, Running, player
  <2> QED BY <2>2, <2>3, <2>4
<1>22. CASE GetEnd
  <2>1. /\ Now = "get" /\ Now' = "stop" /\ UNCHANGED CurrentCodec
        /\ AudioPlayState' = "STOP"
    BY <1>22, GetEndTodo, StepNow DEF GetEnd, Get, player
  <2>2. TokenInv' /\ PlayerInv' /\ OffInv' BY <2>1 DEF TokenInv, PlayerInv, OffInv, player
  <2>3. ClosedInv' /\ HardwareInv' BY <2>1 DEF TokenInv, ClosedInv, HardwareInv, player
  <2>4. AheadInv' BY <2>1 DEF AheadInv, OneAhead, Running, player
  <2> QED BY <2>2, <2>3, <2>4
<1>23. CASE FFPause
  <2>1. /\ Now = "ffPause" /\ Now' = "get" /\ UNCHANGED CurrentCodec
        /\ AudioPlayState' = "STOP"
    BY <1>23, StepNow, StepDone DEF FFPause, Follow, player
  <2>2. TokenInv' /\ PlayerInv' /\ OffInv' BY <2>1 DEF TokenInv, PlayerInv, OffInv, player
  <2>3. ClosedInv' /\ HardwareInv' BY <2>1 DEF TokenInv, ClosedInv, HardwareInv, player
  <2>4. AheadInv' BY <2>1 DEF AheadInv, OneAhead, Running, player
  <2> QED BY <2>2, <2>3, <2>4
<1> QED BY <1>8, <1>9, <1>10, <1>11, <1>12, <1>13, <1>14, <1>15, <1>16, <1>17, <1>18, <1>19, <1>20, <1>21,
           <1>22, <1>23

----------------------------------------------------------------------------
(* Steps that send a command *)

LEMMA SendMoves ==
  ASSUME NEW cmd \in BCoreCmds, a2b' = cmd,
         a2b = None \/ (a2b = "DECODE" /\ cmd = "DECODE_CLOSE"),
         UNCHANGED <<b2a, isr, bpc, op, status, gFileOpStatus>>,
         OrderInv, ~UnderWay(cmd),
         cmd = "DECODE" => ~UnderWay("DECODE_SEEK") /\ ~UnderWay("DECODE_CLOSE")
  PROVE  /\ UnderWay(cmd)' /\ OrderInv'
         /\ \A c \in BCoreCmds : UnderWay(c)' => c = cmd \/ UnderWay(c)
         /\ \A c \in BCoreCmds : UnderWay(c) =>
              UnderWay(c)' \/ (c = "DECODE" /\ cmd = "DECODE_CLOSE")
         /\ \A c : Answered(c)' <=> Answered(c)
<1>0. \A c \in BCoreCmds : c # None
  BY DEF BCoreCmds, DecodeCmds, FileCmds, None
<1>1. \A c : (Answered(c)' <=> Answered(c)) /\ (AtWork(c)' <=> AtWork(c))
  BY DEF Answered, AtWork
<1>2. UnderWay(cmd)' BY DEF UnderWay, InWork
<1>3. ASSUME NEW c \in BCoreCmds
      PROVE  /\ c # cmd /\ InWork(c)' => InWork(c)
             /\ c # cmd /\ Unread(c)' => Unread(c)
             /\ InWork(c) => InWork(c)' \/ (c = "DECODE" /\ cmd = "DECODE_CLOSE")
  BY <1>0 DEF InWork, Unread
<1>4. /\ \A c \in BCoreCmds : UnderWay(c)' => c = cmd \/ UnderWay(c)
      /\ \A c \in BCoreCmds : UnderWay(c) =>
           UnderWay(c)' \/ (c = "DECODE" /\ cmd = "DECODE_CLOSE")
  BY <1>1, <1>3 DEF UnderWay
<1>5. ASSUME NEW c \in BCoreCmds, NEW d \in BCoreCmds, Last(c, d),
             d = cmd => ~UnderWay(c)
      PROVE  Last(c, d)'
  <2>1. CASE d # cmd
    <3>1. a2b' # d /\ (Unread(d)' => Unread(d)) /\ (InWork(d)' => InWork(d)) BY <1>3, <2>1
    <3> QED BY <1>1, <1>5, <3>1 DEF Last
  <2>2. CASE d = cmd
    <3>1. status # c /\ gFileOpStatus # c /\ ~AtWork(c) /\ ~Answered(c)
      BY <1>5, <2>2 DEF UnderWay, InWork, AtWork
    <3>2. status' # c /\ gFileOpStatus' # c /\ ~AtWork(c)' /\ ~Answered(c)' BY <1>1, <3>1
    <3> QED BY <3>2 DEF Last
  <2> QED BY <2>1, <2>2
<1>6. OrderInv' BY <1>5, TokenNames DEF OrderInv
<1> QED BY <1>1, <1>2, <1>4, <1>6

(* What holds of the control task when it sends a command, and no mishap   *)
(* happens.                                                                *)
LEMMA Sender ==
  ASSUME IInv, TaskRuns, NEW cmd \in BCoreCmds, Send(cmd), event' = None
  PROVE  /\ RunInv /\ Running /\ ControlOK /\ SyncOK
         /\ bpc # "off" /\ waiting = None /\ ~byShell /\ sem = None /\ isr = None
         /\ ~masked \/ Now = "copied"
         /\ a2b = None \/ (a2b = "DECODE" /\ cmd = "DECODE_CLOSE")
         /\ \A c \in BCoreCmds \ {"DECODE"} : ~UnderWay(c)
<1>1. Running /\ RunInv /\ TypeOK BY DEF TaskRuns, IInv
<1>2. bpc # "off" /\ ~byShell BY DEF Send, None
<1>3. a2b = None \/ (a2b = "DECODE" /\ cmd = "DECODE_CLOSE") BY DEF Send, None
<1>4. waiting = None /\ isr = None BY <1>2 DEF TaskRuns
<1>5. sem = None BY <1>1, <1>4 DEF RunInv, TokenInv
<1>6. \A c \in BCoreCmds \ {"DECODE"} : waiting # c
  BY <1>4 DEF BCoreCmds, DecodeCmds, FileCmds, None
<1>7. \A c \in BCoreCmds \ {"DECODE"} : ~UnderWay(c) BY <1>1, <1>6 DEF RunInv, AwaitedInv
<1>8. ~masked \/ Now = "copied" BY <1>1 DEF RunInv, TokenInv
<1> QED BY <1>1, <1>2, <1>3, <1>4, <1>5, <1>7, <1>8 DEF TypeOK

(* What is then under way.                                                 *)
LEMMA Sent ==
  ASSUME IInv, TaskRuns, NEW cmd \in BCoreCmds, Send(cmd), event' = None,
         UNCHANGED <<b2a, isr, bpc, op, status, gFileOpStatus>>,
         cmd = "DECODE" => ~UnderWay("DECODE")
  PROVE  /\ UnderWay(cmd)' /\ OrderInv' /\ OpInv'
         /\ \A c \in BCoreCmds \ {"DECODE"} : UnderWay(c)' => c = cmd
         /\ UnderWay("DECODE")' => cmd = "DECODE" \/ UnderWay("DECODE")
         /\ UnderWay("DECODE") => UnderWay("DECODE")' \/ cmd = "DECODE_CLOSE"
         /\ \A c : Answered(c)' <=> Answered(c)
         /\ a2b' # None
<1>1. /\ OrderInv /\ OpInv
      /\ a2b = None \/ (a2b = "DECODE" /\ cmd = "DECODE_CLOSE")
      /\ \A c \in BCoreCmds \ {"DECODE"} : ~UnderWay(c)
  BY Sender DEF RunInv
<1>2. a2b' = cmd /\ cmd # None BY DEF Send, BCoreCmds, DecodeCmds, FileCmds, None
<1>3. ~UnderWay(cmd) BY <1>1
<1>4. cmd = "DECODE" => ~UnderWay("DECODE_SEEK") /\ ~UnderWay("DECODE_CLOSE")
  BY <1>1, TokenNames
<1>5. /\ UnderWay(cmd)' /\ OrderInv'
      /\ \A c \in BCoreCmds : UnderWay(c)' => c = cmd \/ UnderWay(c)
      /\ \A c \in BCoreCmds : UnderWay(c) =>
           UnderWay(c)' \/ (c = "DECODE" /\ cmd = "DECODE_CLOSE")
      /\ \A c : Answered(c)' <=> Answered(c)
  BY <1>1, <1>2, <1>3, <1>4, SendMoves
<1>6. OpInv' BY <1>1 DEF OpInv
<1> QED BY <1>1, <1>2, <1>5, <1>6, TokenNames

(* The control task sends a command and waits for its answer.              *)
LEMMA AwaitSent ==
  ASSUME IInv, TaskRuns, NEW cmd \in BCoreCmds, SendAndAwait(cmd), event' = None,
         UNCHANGED <<gError, dma, sem, masked, isr, b2a, bmain, stream>>,
         Now # "copied", Now' \in WaitsAt(cmd),
         block'.needDecode <=> cmd = "DECODE",
         cmd = "DECODE" => ~UnderWay("DECODE")
  PROVE  /\ ans' # "old" /\ AnswerIsComing' /\ TokenInv' /\ OffInv'
         /\ OpInv' /\ OrderInv' /\ AwaitedInv'
<1>1. UNCHANGED <<bpc, op, status, gFileOpStatus, ans>> BY DEF bmain, stream
<1>2. /\ waiting' = cmd /\ byShell' = FALSE /\ Send(cmd) BY DEF SendAndAwait, Await
<1>3. /\ RunInv /\ bpc # "off" /\ waiting = None /\ sem = None /\ isr = None /\ ~masked /\ SyncOK
  BY <1>2, Sender
<1>4. /\ UnderWay(cmd)' /\ OrderInv' /\ OpInv'
      /\ \A c \in BCoreCmds \ {"DECODE"} : UnderWay(c)' => c = cmd
  BY <1>1, <1>2, Sent
<1>5. cmd \notin {None, "DMA"} BY DEF BCoreCmds, DecodeCmds, FileCmds, None
<1>6. AnswerIsComing' BY <1>2, <1>4, <1>5 DEF AnswerIsComing
<1>7. TokenInv' BY <1>2, <1>3, <1>5 DEF TokenInv, RunInv, SyncOK, None
<1>8. OffInv' BY <1>1, <1>3 DEF OffInv
<1>9. AwaitedInv' BY <1>2, <1>3, <1>4 DEF AwaitedInv
<1> QED BY <1>1, <1>3, <1>4, <1>6, <1>7, <1>8, <1>9 DEF RunInv

LEMMA AwaitedSends ==
  ASSUME IInv, TodoInv, event' = None,
         CodecOpen \/ CodecClose \/ AudioWaitBBStop \/ CodecSeek \/ GetDecode
  PROVE  RunInv'
<1> DEFINE Facts == TokenInv /\ PlayerInv /\ OffInv /\ ClosedInv /\ HardwareInv /\ AheadInv
<1>1. /\ UNCHANGED <<source, AudioPlayState, AudioPlayerState, CurrentCodec>>
      /\ UNCHANGED <<gError, dma, sem, masked, isr, b2a, bmain, stream>>
      /\ UNCHANGED <<bpc, op, status, gFileOpStatus, hw, fill>>
      /\ TaskRuns
  BY DEF CodecOpen, CodecClose, AudioWaitBBStop, CodecSeek, GetDecode, Get, Step, player, control, bmain
<1>2. RunInv /\ Running /\ SyncOK /\ Facts BY <1>1 DEF TaskRuns, IInv, RunInv, TypeOK
<1>3. waiting = None => ~block.needDecode BY <1>2 DEF TokenInv, None
<1> USE DEF None
<1>4. CASE CodecOpen
  <2>1. /\ Now = "codecOpen" /\ Now' = "opened" /\ SendAndAwait("DEC_OPEN")
        /\ block' = [block EXCEPT !.needDecode = FALSE]
    BY <1>4, StepNow, StepDone DEF CodecOpen, Follow
  <2>2. /\ block'.Decoding = block.Decoding /\ block'.DecodeOver = block.DecodeOver
        /\ block'.needDecode = FALSE
    BY <1>2, <2>1 DEF SyncOK, Blocks
  <2>3. Send("DEC_OPEN") /\ Await("DEC_OPEN") /\ waiting' = "DEC_OPEN"
    BY <2>1 DEF SendAndAwait, Await
  <2>4. bpc # "off" /\ waiting = None /\ sem = None BY <1>1, <2>3, TokenNames, Sender
  <2>5. /\ ans' # "old" /\ AnswerIsComing' /\ TokenInv' /\ OffInv'
        /\ OpInv' /\ OrderInv' /\ AwaitedInv'
    BY <1>1, <2>1, <2>2, TokenNames, AwaitSent DEF WaitsAt
  <2>6. ~UnderWay("DECODE") /\ hw
    BY <1>2, <2>1, <2>4 DEF PlayerInv, ClosedInv, HardwareInv
  <2>7. /\ ~UnderWay("DECODE")' /\ (\A c : Answered(c)' <=> Answered(c))
    BY <1>1, <2>3, <2>6, TokenNames, Sent
  <2>8. PlayerInv' BY <1>1, <1>2, <2>1, <2>4 DEF PlayerInv
  <2>9. ClosedInv' BY <2>7 DEF ClosedInv
  <2>10. HardwareInv' BY <1>1, <1>2, <2>1, <2>3, <2>4, <2>6, <2>7 DEF HardwareInv, FileCmds
  <2>11. AheadInv' BY <1>1, <1>2, <2>1, <2>2, <2>3, <2>4, <2>6, <2>7 DEF AheadInv, OneAhead, Running
  <2> QED BY <2>5, <2>8, <2>9, <2>10, <2>11 DEF RunInv
<1>5. CASE CodecClose
  <2>1. /\ Now = "codecClose" /\ Now' = "bbStop" /\ SendAndAwait("DECODE_CLOSE")
        /\ block' = block
    BY <1>5, StepNow, StepDone DEF CodecClose, Follow
  <2>2. Send("DECODE_CLOSE") /\ waiting' = "DECODE_CLOSE" BY <2>1 DEF SendAndAwait, Await
  <2>3. bpc # "off" /\ waiting = None /\ sem = None BY <1>1, <2>2, TokenNames, Sender
  <2>4. /\ ans' # "old" /\ AnswerIsComing' /\ TokenInv' /\ OffInv'
        /\ OpInv' /\ OrderInv' /\ AwaitedInv'
    BY <1>1, <1>3, <2>1, <2>3, TokenNames, AwaitSent DEF WaitsAt
  <2>5. \A c : Answered(c)' <=> Answered(c) BY <1>1, <2>2, TokenNames, Sent
  <2>6. AudioPlayState = "STOP" BY <1>2, <2>1 DEF PlayerInv
  <2>7. PlayerInv' BY <1>1, <1>2, <2>1, <2>3 DEF PlayerInv
  <2>8. ClosedInv' BY <1>1, <2>1, <2>2, <2>3 DEF ClosedInv, FileCmds
  <2>9. HardwareInv' BY <1>1, <1>2, <2>1, <2>2, <2>3, <2>5 DEF HardwareInv, FileCmds
  <2>10. AheadInv' BY <1>1, <1>2, <2>1, <2>6 DEF AheadInv, OneAhead
  <2> QED BY <2>4, <2>7, <2>8, <2>9, <2>10 DEF RunInv
<1>6. CASE AudioWaitBBStop
  <2>1. /\ Now = "bbStop" /\ Now' = "shutOff" /\ SendAndAwait("FILE_CLOSE_CMPL")
        /\ block' = block /\ CurrentCodec # None
    BY <1>6, StepNow, StepDone DEF AudioWaitBBStop, Follow
  <2>2. Send("FILE_CLOSE_CMPL") /\ waiting' = "FILE_CLOSE_CMPL" BY <2>1 DEF SendAndAwait, Await
  <2>3. bpc # "off" /\ waiting = None /\ sem = None BY <1>1, <2>2, TokenNames, Sender
  <2>4. /\ ans' # "old" /\ AnswerIsComing' /\ TokenInv' /\ OffInv'
        /\ OpInv' /\ OrderInv' /\ AwaitedInv'
    BY <1>1, <1>3, <2>1, <2>3, TokenNames, AwaitSent DEF WaitsAt
  <2>5. ~UnderWay("DECODE") BY <1>2, <2>1, <2>3 DEF ClosedInv
  <2>6. ~UnderWay("DECODE")' /\ (\A c : Answered(c)' <=> Answered(c))
    BY <1>1, <2>2, <2>5, TokenNames, Sent
  <2>7. PlayerInv' BY <1>1, <1>2, <2>1, <2>3 DEF PlayerInv
  <2>8. ClosedInv' BY <2>6 DEF ClosedInv
  <2>9. HardwareInv' BY <1>1, <1>2, <2>1, <2>2, <2>3, <2>6 DEF HardwareInv, FileCmds
  <2>10. AheadInv' BY <1>1, <1>2, <2>1, <2>3, <2>5, <2>6 DEF AheadInv, OneAhead, PlayerInv
  <2> QED BY <2>4, <2>7, <2>8, <2>9, <2>10 DEF RunInv
<1>7. CASE CodecSeek
  <2>1. /\ Now = "seek" /\ Now' \in {"pause", "ffTake"} /\ SendAndAwait("DECODE_SEEK")
        /\ block' = block
    BY <1>7, StepNow, StepDone DEF CodecSeek, Follow
  <2>2. Send("DECODE_SEEK") /\ waiting' = "DECODE_SEEK" BY <2>1 DEF SendAndAwait, Await
  <2>3. bpc # "off" /\ waiting = None /\ sem = None BY <1>1, <2>2, TokenNames, Sender
  <2>4. /\ ans' # "old" /\ AnswerIsComing' /\ TokenInv' /\ OffInv'
        /\ OpInv' /\ OrderInv' /\ AwaitedInv'
    BY <1>1, <1>3, <2>1, <2>3, TokenNames, AwaitSent DEF WaitsAt
  <2>5. (UnderWay("DECODE")' <=> UnderWay("DECODE")) /\ (\A c : Answered(c)' <=> Answered(c))
    BY <1>1, <2>2, TokenNames, Sent
  <2>6. PlayerInv' BY <1>1, <1>2, <2>1, <2>3 DEF PlayerInv
  <2>7. ClosedInv' BY <1>1, <2>1, <2>2, <2>3 DEF ClosedInv, FileCmds
  <2>8. HardwareInv' BY <1>1, <1>2, <2>1, <2>2, <2>3, <2>5 DEF HardwareInv, FileCmds
  <2>9. AheadInv' BY <1>1, <1>2, <2>1, <2>3, <2>5 DEF AheadInv, OneAhead, Running
  <2> QED BY <2>4, <2>6, <2>7, <2>8, <2>9 DEF RunInv
<1>8. CASE GetDecode
  <2>1. /\ Now = "get" /\ Now' = Now /\ SendAndAwait("DECODE")
        /\ block' = [block EXCEPT !.Decoding = TRUE, !.needDecode = TRUE]
        /\ ~block.DecodeOver /\ ~block.Decoding /\ CurrentCodec # None
        /\ AudioPlayState = "PLAY"
    BY <1>8, StepNow, TodoStays DEF GetDecode, Get, control
  <2>2. block'.Decoding /\ block'.needDecode /\ ~block'.DecodeOver
    BY <1>2, <2>1 DEF SyncOK, Blocks
  <2>3. Send("DECODE") /\ waiting' = "DECODE" BY <2>1 DEF SendAndAwait, Await
  <2>4. bpc # "off" /\ waiting = None /\ sem = None BY <1>1, <2>3, TokenNames, Sender
  <2>5. ~UnderWay("DECODE") BY <1>2, <2>1, <2>4 DEF AheadInv
  <2>6. /\ ans' # "old" /\ AnswerIsComing' /\ TokenInv' /\ OffInv'
        /\ OpInv' /\ OrderInv' /\ AwaitedInv'
    BY <1>1, <2>1, <2>2, <2>5, TokenNames, AwaitSent DEF WaitsAt
  <2>7. UnderWay("DECODE")' /\ (\A c : Answered(c)' <=> Answered(c))
    BY <1>1, <2>3, <2>5, TokenNames, Sent
  <2>8. PlayerInv' BY <1>1, <1>2, <2>1, <2>4 DEF PlayerInv
  <2>9. ClosedInv' BY <1>1, <2>1, <2>3, <2>4 DEF ClosedInv, FileCmds
  <2>10. HardwareInv' BY <1>1, <1>2, <2>1, <2>3, <2>4, <2>7 DEF HardwareInv, FileCmds
  <2>11. AheadInv' BY <1>1, <2>1, <2>2, <2>7 DEF AheadInv, OneAhead
  <2> QED BY <2>6, <2>8, <2>9, <2>10, <2>11 DEF RunInv
<1> QED BY <1>4, <1>5, <1>6, <1>7, <1>8

(* A decoded buffer is taken, the next decode asked for, and the copy made *)
(* by DMA or by memcpy.                                                    *)
LEMMA CopySends ==
  ASSUME IInv, TodoInv, event' = None, GetCopy
  PROVE  RunInv'
<1> DEFINE Facts == TokenInv /\ PlayerInv /\ OffInv /\ ClosedInv /\ HardwareInv /\ AheadInv
<1>1. /\ UNCHANGED <<source, AudioPlayState, AudioPlayerState, CurrentCodec>>
      /\ UNCHANGED <<gError, sem, isr, b2a, bpc, op, status, gFileOpStatus, hw, fill, ans>>
      /\ TaskRuns /\ Send("DECODE") /\ masked'
      /\ block' = [block EXCEPT !.DecodeOver = FALSE, !.Decoding = TRUE]
      /\ block.DecodeOver /\ CurrentCodec # None /\ AudioPlayState = "PLAY"
  BY DEF GetCopy, Get, Step, player, bmain, stream
<1>2. RunInv /\ Running /\ SyncOK /\ Facts BY <1>1 DEF TaskRuns, IInv, RunInv, TypeOK
<1>3. Now = "get" /\ Now' = "copied" BY StepNow, GetCopyTodo DEF GetCopy, Get
<1>4. bpc # "off" /\ waiting = None /\ sem = None /\ isr = None /\ ~byShell
  BY <1>1, TokenNames, Sender
<1>5. /\ ~byShell' /\ sem' = None /\ isr' = None
      /\ (waiting' = "DMA" /\ dma') \/ (waiting' = None /\ ~dma')
  <2>1. ~dma BY <1>2, <1>4 DEF TokenInv, None
  <2> QED BY <1>1, <1>4, <2>1 DEF GetCopy, Await
<1>6. block'.Decoding /\ ~block'.DecodeOver /\ ~block'.needDecode
  <2>1. ~block.needDecode BY <1>2, <1>4 DEF TokenInv, None
  <2> QED BY <1>1, <1>2, <2>1 DEF SyncOK, Blocks
<1>7. ~UnderWay("DECODE") BY <1>2, <1>1, <1>3, <1>4 DEF AheadInv
<1>8. /\ UnderWay("DECODE")' /\ OrderInv' /\ OpInv'
      /\ \A c \in BCoreCmds \ {"DECODE"} : ~UnderWay(c)'
      /\ \A c : Answered(c)' <=> Answered(c)
  BY <1>1, <1>7, TokenNames, Sent
<1> USE DEF None
<1>9. AnswerIsComing' /\ TokenInv' BY <1>1, <1>3, <1>5, <1>6 DEF AnswerIsComing, TokenInv, WaitsAt
<1>10. PlayerInv' /\ OffInv' BY <1>1, <1>3, <1>4 DEF PlayerInv, OffInv
<1>11. ClosedInv' /\ AwaitedInv' BY <1>3, <1>5, <1>8 DEF ClosedInv, AwaitedInv, FileCmds
<1>12. HardwareInv' BY <1>1, <1>2, <1>3, <1>4, <1>5, <1>8 DEF HardwareInv, FileCmds
<1>13. AheadInv' BY <1>1, <1>3, <1>6, <1>8 DEF AheadInv, OneAhead
<1> QED BY <1>1, <1>2, <1>8, <1>9, <1>10, <1>11, <1>12, <1>13 DEF RunInv

(* The copy is over; the mailbox may interrupt again.                      *)
LEMMA CopyEnds ==
  ASSUME IInv, TodoInv, event' = None, Copied
  PROVE  RunInv'
<1> DEFINE Facts == TokenInv /\ PlayerInv /\ OffInv /\ ClosedInv /\ HardwareInv /\ AheadInv
<1>1. /\ UNCHANGED <<source, AudioPlayState, AudioPlayerState, CurrentCodec>>
      /\ UNCHANGED <<block, gError, waiting, byShell, dma, sem, isr, a2b, b2a, bpc, op, status,
                     gFileOpStatus, hw, fill, ans>>
      /\ TaskRuns /\ masked' = FALSE
  BY DEF Copied, Step, player, cores, bmain, stream
<1>2. RunInv /\ Running /\ Facts BY <1>1 DEF TaskRuns, IInv, RunInv
<1>3. Now = "copied" /\ Now' = None BY StepNow, StepDone DEF Copied, Follow
<1> USE DEF None
<1>4. waiting = None /\ ~byShell BY <1>1, <1>2, <1>3 DEF TokenInv, TaskRuns
<1>5. /\ \A cmd : UnderWay(cmd)' <=> UnderWay(cmd)
      /\ \A cmd : Answered(cmd)' <=> Answered(cmd)
      /\ OpInv' /\ OrderInv'
  BY <1>1, <1>2, SamePlaces DEF RunInv
<1>6. AnswerIsComing' /\ TokenInv' BY <1>1, <1>2, <1>3, <1>4 DEF AnswerIsComing, TokenInv
<1>7. PlayerInv' /\ OffInv' BY <1>1, <1>2, <1>3 DEF PlayerInv, OffInv
<1>8. ClosedInv' BY <1>1, <1>2, <1>3, <1>5 DEF ClosedInv
<1>9. AwaitedInv' BY <1>1, <1>2, <1>5 DEF AwaitedInv, RunInv
<1>10. HardwareInv' BY <1>1, <1>2, <1>3, <1>5 DEF HardwareInv
<1>11. AheadInv' BY <1>1, <1>2, <1>3, <1>5 DEF AheadInv, OneAhead, Running
<1> QED BY <1>1, <1>2, <1>5, <1>6, <1>7, <1>8, <1>9, <1>10, <1>11 DEF RunInv

(* A decode under way is waited for.                                       *)
LEMMA WaitBegins ==
  ASSUME IInv, TodoInv, event' = None, GetWait
  PROVE  RunInv'
<1> DEFINE Facts == TokenInv /\ PlayerInv /\ OffInv /\ ClosedInv /\ HardwareInv /\ AheadInv
<1>1. /\ UNCHANGED <<source, todo, AudioPlayState, AudioPlayerState, CurrentCodec>>
      /\ UNCHANGED <<gError, dma, sem, masked, isr, a2b, b2a, bpc, op, status,
                     gFileOpStatus, hw, fill, ans>>
      /\ TaskRuns /\ waiting' = "DECODE" /\ byShell' = FALSE
      /\ block' = [block EXCEPT !.needDecode = TRUE]
      /\ block.Decoding /\ AudioPlayState = "PLAY" /\ CurrentCodec # None
  BY DEF GetWait, Get, Step, Await, player, control, cores, bmain, stream
<1>2. RunInv /\ Running /\ SyncOK /\ Facts BY <1>1 DEF TaskRuns, IInv, RunInv, TypeOK
<1>3. Now = "get" /\ Now' = "get" BY <1>1, StepNow, TodoStays DEF GetWait, Get
<1>4. bpc # "off" /\ ~byShell BY DEF GetWait, None
<1>5. waiting = None /\ isr = None BY <1>1, <1>4 DEF TaskRuns
<1>6. /\ block'.Decoding = block.Decoding /\ block'.DecodeOver = block.DecodeOver
      /\ block'.needDecode
  BY <1>1, <1>2 DEF SyncOK, Blocks
<1> USE DEF None
<1>7. sem = None /\ ~dma /\ ~masked BY <1>2, <1>3, <1>5 DEF TokenInv
<1>8. /\ \A cmd : UnderWay(cmd)' <=> UnderWay(cmd)
      /\ \A cmd : Answered(cmd)' <=> Answered(cmd)
      /\ OpInv' /\ OrderInv'
  BY <1>1, <1>2, SamePlaces DEF RunInv
<1>9. UnderWay("DECODE") BY <1>1, <1>2, <1>3, <1>4 DEF AheadInv
<1>10. AnswerIsComing' /\ TokenInv' BY <1>1, <1>3, <1>6, <1>7, <1>8, <1>9 DEF AnswerIsComing, TokenInv, WaitsAt
<1>11. PlayerInv' /\ OffInv' BY <1>1, <1>2, <1>3, <1>4 DEF PlayerInv, OffInv
<1>12. ClosedInv' BY <1>1, <1>3, <1>7 DEF ClosedInv, FileCmds
<1>13. AwaitedInv'
  <2>1. \A c \in BCoreCmds \ {"DECODE"} : c # None BY DEF BCoreCmds, DecodeCmds, FileCmds
  <2>2. \A c \in BCoreCmds \ {"DECODE"} : ~UnderWay(c) BY <1>2, <1>5, <2>1 DEF AwaitedInv, RunInv
  <2> QED BY <1>8, <2>2 DEF AwaitedInv
<1>14. HardwareInv' BY <1>1, <1>2, <1>3, <1>5, <1>8 DEF HardwareInv, FileCmds
<1>15. AheadInv' BY <1>1, <1>2, <1>3, <1>6, <1>8 DEF AheadInv, OneAhead, Running
<1> QED BY <1>1, <1>2, <1>8, <1>10, <1>11, <1>12, <1>13, <1>14, <1>15 DEF RunInv

(* The shell seeks while the audio control task is at rest.                *)
LEMMA ShellSends ==
  ASSUME IInv, TodoInv, event' = None, ShellSeek
  PROVE  RunInv'
<1> DEFINE Facts == TokenInv /\ PlayerInv /\ OffInv /\ ClosedInv /\ HardwareInv /\ AheadInv
<1> USE DEF None
<1>1. /\ UNCHANGED <<source, todo, AudioPlayState, AudioPlayerState, CurrentCodec>>
      /\ UNCHANGED <<block, gError, dma, sem, masked, isr, b2a, bpc, op, status,
                     gFileOpStatus, hw, fill, ans>>
      /\ Running /\ isr = None /\ todo = <<>> /\ AudioPlayState # "PLAY" /\ CurrentCodec # None
      /\ waiting' = "DECODE_SEEK" /\ byShell' = TRUE /\ Send("DECODE_SEEK") /\ ~byShell
  BY DEF ShellSeek, player, control, bmain, stream
<1>2. RunInv /\ SyncOK /\ Facts BY <1>1 DEF IInv, RunInv, TypeOK
<1>3. Now = None /\ Now' = None BY <1>1, NowIs, TodoStays
<1>4. waiting = None
  <2>1. SUFFICES ASSUME waiting # None PROVE FALSE OBVIOUS
  <2>2. None \in WaitsAt(waiting) BY <1>1, <1>2, <1>3, <2>1 DEF TokenInv
  <2>3. waiting \in Tokens BY <1>2, <2>1 DEF SyncOK
  <2> QED BY <2>2, <2>3 DEF Tokens, BCoreCmds, DecodeCmds, FileCmds, WaitsAt
<1>5. TaskRuns BY <1>1, <1>4 DEF TaskRuns
<1>6. bpc # "off" /\ sem = None BY <1>1, <1>5, TokenNames, Sender
<1>7. ~block.needDecode /\ ~dma /\ ~masked BY <1>2, <1>3, <1>4 DEF TokenInv
<1>8. /\ UnderWay("DECODE_SEEK")' /\ OrderInv' /\ OpInv'
      /\ \A c \in BCoreCmds \ {"DECODE"} : UnderWay(c)' => c = "DECODE_SEEK"
      /\ UnderWay("DECODE")' <=> UnderWay("DECODE")
      /\ \A c : Answered(c)' <=> Answered(c)
  BY <1>1, <1>5, TokenNames, Sent
<1>9. AnswerIsComing' /\ TokenInv' BY <1>1, <1>3, <1>6, <1>7, <1>8 DEF AnswerIsComing, TokenInv
<1>10. PlayerInv' /\ OffInv' BY <1>1, <1>2, <1>3, <1>6 DEF PlayerInv, OffInv
<1>11. ClosedInv' /\ AwaitedInv' BY <1>1, <1>3, <1>6, <1>8 DEF ClosedInv, AwaitedInv, FileCmds
<1>12. HardwareInv' BY <1>1, <1>2, <1>3, <1>4, <1>6, <1>8 DEF HardwareInv, FileCmds
<1>13. AheadInv' BY <1>1, <1>2, <1>3, <1>8 DEF AheadInv, OneAhead
<1> QED BY <1>1, <1>2, <1>8, <1>9, <1>10, <1>11, <1>12, <1>13 DEF RunInv

----------------------------------------------------------------------------
(* The B core is started and shut off *)

(* A B core whose main loop begins or that is off, with at most c sent.    *)
LEMMA Cleared ==
  ASSUME NEW c \in BCoreCmds \cup {None}, a2b' = c, b2a' = None, isr' = None, op' = None,
         status' = "IDLE", gFileOpStatus' = "IDLE", bpc' \in {"off", "top"}
  PROVE  /\ \A d \in BCoreCmds : UnderWay(d)' <=> d = c
         /\ \A d \in BCoreCmds : ~Answered(d)'
         /\ OpInv' /\ OrderInv'
<1>0. \A d \in BCoreCmds : d \notin {None, "IDLE"} BY DEF BCoreCmds, DecodeCmds, FileCmds, None
<1>1. \A d : ~Answered(d)' BY DEF Answered
<1>2. \A d \in BCoreCmds : InWork(d)' <=> d = c BY <1>0 DEF InWork, None
<1>3. \A d \in BCoreCmds : ~AtWork(d)' BY <1>0 DEF AtWork, None
<1>4. \A d, e \in BCoreCmds : Last(d, e)' BY <1>0, <1>1, <1>3 DEF Last
<1>5. OpInv' BY DEF OpInv
<1> QED BY <1>1, <1>2, <1>4, <1>5, TokenNames DEF UnderWay, OrderInv

LEMMA Starts ==
  ASSUME IInv, TodoInv, event' = None, HWInit
  PROVE  RunInv'
<1> USE DEF None
<1> DEFINE Facts == TokenInv /\ PlayerInv /\ OffInv /\ AheadInv
<1>1. /\ UNCHANGED <<source, AudioPlayState, AudioPlayerState, CurrentCodec>>
      /\ UNCHANGED <<block, gError, dma, sem, masked, isr, b2a>>
      /\ bpc' = "top" /\ op' = None /\ status' = "IDLE" /\ gFileOpStatus' = "IDLE"
      /\ hw' = FALSE /\ fill' = FALSE /\ ans' = None /\ a2b' = "FILE_OPEN_CMPL"
      /\ waiting' = "FILE_OPEN_CMPL" /\ byShell' = FALSE
      /\ TaskRuns /\ bpc = "off" /\ ~byShell
  BY DEF HWInit, BCore, Await, Step, player
<1>2. RunInv /\ Running /\ SyncOK /\ Facts BY <1>1 DEF TaskRuns, IInv, RunInv, TypeOK
<1>3. Now = "hwInit" /\ Now' = "codecOpen" BY StepNow, StepDone DEF HWInit, Follow
<1>4. waiting = None /\ b2a = None /\ isr = None BY <1>1, <1>2 DEF OffInv
<1>5. sem = None /\ ~block.needDecode /\ ~dma /\ ~masked /\ CurrentCodec # None
  BY <1>2, <1>3, <1>4 DEF TokenInv, PlayerInv
<1>6. /\ \A d \in BCoreCmds : UnderWay(d)' <=> d = "FILE_OPEN_CMPL"
      /\ \A d \in BCoreCmds : ~Answered(d)'
      /\ OpInv' /\ OrderInv'
  <2>1. b2a' = None /\ isr' = None BY <1>1, <1>4
  <2> QED BY <1>1, <2>1, TokenNames, Cleared
<1>7. UnderWay("FILE_OPEN_CMPL")' /\ ~UnderWay("DECODE")' BY <1>6, TokenNames
<1>8. AnswerIsComing' /\ TokenInv'
  BY <1>1, <1>3, <1>5, <1>7 DEF AnswerIsComing, TokenInv, WaitsAt
<1>9. PlayerInv' /\ OffInv' BY <1>1, <1>3, <1>5 DEF PlayerInv, OffInv
<1>10. ClosedInv' /\ AwaitedInv' BY <1>1, <1>5, <1>6, <1>7 DEF ClosedInv, AwaitedInv
<1>11. HardwareInv' BY <1>1, <1>3, <1>5, <1>6, TokenNames DEF HardwareInv, FileCmds
<1>12. AheadInv' BY <1>1, <1>2, <1>3, <1>5, <1>7 DEF AheadInv, OneAhead, OffInv
<1> QED BY <1>1, <1>6, <1>8, <1>9, <1>10, <1>11, <1>12 DEF RunInv

(* What the B core and its hardware do when it is shut off.                *)
LEMMA AtRest ==
  ASSUME IInv, TodoInv, ShutOff
  PROVE  /\ waiting = None /\ ~byShell /\ sem = None /\ isr = None
         /\ ~hw /\ b2a = None /\ a2b = None
         /\ bpc \notin {"case", "fillFirst", "codec", "wait", "answer", "fillLast"}
<1> USE DEF None
<1>1. TaskRuns /\ Now = "shutOff" /\ CurrentCodec # None BY StepNow DEF ShutOff
<1>2. Running /\ isr = None /\ RunInv /\ LinkOK BY <1>1 DEF TaskRuns, IInv, TypeOK
<1>3. waiting = None /\ ~byShell BY <1>1, <1>2 DEF TaskRuns, RunInv, TokenInv
<1>4. sem = None BY <1>2, <1>3 DEF RunInv, TokenInv
<1>5. \A c \in BCoreCmds : ~UnderWay(c)
  <2>1. ~UnderWay("DECODE") BY <1>1, <1>2 DEF RunInv, ClosedInv
  <2>2. \A c \in BCoreCmds \ {"DECODE"} : c # None BY DEF BCoreCmds, DecodeCmds, FileCmds
  <2> QED BY <1>2, <1>3, <2>1, <2>2 DEF RunInv, AwaitedInv
<1>6. a2b = None BY <1>2, <1>5 DEF LinkOK, UnderWay, InWork
<1>7. b2a = None
  <2>1. SUFFICES ASSUME b2a # None PROVE FALSE OBVIOUS
  <2>2. CmdOf(b2a) \in BCoreCmds BY <1>2, <2>1, TokenNames DEF LinkOK
  <2>3. Answered(CmdOf(b2a)) BY <2>1 DEF Answered
  <2> QED BY <1>5, <2>2, <2>3 DEF UnderWay
<1>8. ~hw BY <1>1, <1>2, <1>3 DEF RunInv, HardwareInv
<1>9. bpc \notin {"case", "fillFirst", "codec", "wait", "answer", "fillLast"}
  BY <1>2, <1>8 DEF RunInv, HardwareInv
<1> QED BY <1>2, <1>3, <1>4, <1>6, <1>7, <1>8, <1>9

LEMMA Stops ==
  ASSUME IInv, TodoInv, event' = None, ShutOff
  PROVE  RunInv'
<1> USE DEF None
<1> DEFINE Facts == TokenInv /\ PlayerInv /\ OffInv /\ AheadInv
<1>1. /\ UNCHANGED <<source, AudioPlayState, AudioPlayerState, CurrentCodec>>
      /\ UNCHANGED <<block, gError, waiting, byShell, dma, sem, masked, isr, a2b, b2a>>
      /\ bpc' = "off" /\ op' = None /\ status' = "IDLE" /\ gFileOpStatus' = "IDLE"
      /\ hw' = FALSE /\ fill' = FALSE /\ ans' = None
      /\ TaskRuns /\ CurrentCodec # None
  BY DEF ShutOff, BCore, Step, player, sync
<1>2. RunInv /\ Running /\ Facts BY <1>1 DEF TaskRuns, IInv, RunInv
<1>3. Now = "shutOff" /\ Now' \in {None, "get", "nextForce", "nextNormal", "seek"}
  BY StepNow, StepDone DEF ShutOff, Follow
<1>4. waiting = None /\ ~byShell /\ sem = None /\ isr = None /\ b2a = None /\ a2b = None
  BY AtRest
<1>5. ~block.needDecode /\ ~dma /\ ~masked BY <1>2, <1>3, <1>4 DEF TokenInv
<1>6. AudioPlayState = "STOP" BY <1>2, <1>3 DEF PlayerInv
<1>7. /\ \A d \in BCoreCmds : ~UnderWay(d)' /\ ~Answered(d)'
      /\ OpInv' /\ OrderInv'
  <2>1. a2b' = None /\ b2a' = None /\ isr' = None BY <1>1, <1>4
  <2>2. \A d \in BCoreCmds : d # None BY DEF BCoreCmds, DecodeCmds, FileCmds
  <2> QED BY <1>1, <2>1, <2>2, Cleared
<1>8. AnswerIsComing' /\ TokenInv' BY <1>1, <1>4, <1>5 DEF AnswerIsComing, TokenInv
<1>9. PlayerInv' /\ OffInv' BY <1>1, <1>3, <1>4, <1>6 DEF PlayerInv, OffInv
<1>10. ClosedInv' /\ AwaitedInv' BY <1>7, TokenNames DEF ClosedInv, AwaitedInv
<1>11. HardwareInv' BY <1>1, <1>3, <1>4, <1>7, TokenNames DEF HardwareInv
<1>12. AheadInv' BY <1>1, <1>2, <1>3 DEF AheadInv, OneAhead
<1> QED BY <1>1, <1>7, <1>8, <1>9, <1>10, <1>11, <1>12 DEF RunInv

----------------------------------------------------------------------------
(* The token, the copy by DMA, and the interrupt of the A core *)

LEMMA Takes ==
  ASSUME IInv, TodoInv, event' = None, Take
  PROVE  RunInv'
<1> USE DEF None
<1> DEFINE Facts == TokenInv /\ PlayerInv /\ OffInv /\ ClosedInv /\ HardwareInv /\ AheadInv
<1>1. /\ UNCHANGED <<source, todo, AudioPlayState, AudioPlayerState, CurrentCodec>>
      /\ UNCHANGED <<block, gError, dma, masked, isr, a2b, b2a, bpc, op, status,
                     gFileOpStatus, hw, fill, ans>>
      /\ Running /\ waiting # None /\ sem # None
      /\ sem' = None /\ waiting' = None /\ byShell' = FALSE
  BY DEF Take, control, player, cores, bmain, stream
<1>2. RunInv /\ SyncOK /\ Facts BY <1>1 DEF IInv, RunInv, TypeOK
<1>3. Now' = Now BY TodoStays, <1>1
<1>4. sem = waiting /\ ~block.needDecode /\ ~dma BY <1>1, <1>2 DEF TokenInv
<1>5. /\ \A cmd : UnderWay(cmd)' <=> UnderWay(cmd)
      /\ \A cmd : Answered(cmd)' <=> Answered(cmd)
      /\ OpInv' /\ OrderInv'
  BY <1>1, <1>2, SamePlaces DEF RunInv
<1>6. \A c \in BCoreCmds \ {"DECODE"} : ~UnderWay(c)
  BY <1>1, <1>2 DEF AwaitedInv, RunInv
<1>7. AwaitedInv' BY <1>5, <1>6 DEF AwaitedInv
<1>8. AnswerIsComing' /\ TokenInv' BY <1>1, <1>2, <1>3, <1>4 DEF AnswerIsComing, TokenInv
<1>9. PlayerInv' /\ OffInv' BY <1>1, <1>2, <1>3 DEF PlayerInv, OffInv
<1>10. Now = "codecOpen" => waiting = "FILE_OPEN_CMPL"
  BY <1>1, <1>2 DEF TokenInv, WaitsAt, Tokens, SyncOK, BCoreCmds, DecodeCmds, FileCmds
<1>11. Now = "shutOff" => waiting = "FILE_CLOSE_CMPL"
  BY <1>1, <1>2 DEF TokenInv, WaitsAt, Tokens, SyncOK, BCoreCmds, DecodeCmds, FileCmds
<1>12. Now = "bbStop" => waiting = "DECODE_CLOSE"
  BY <1>1, <1>2 DEF TokenInv, WaitsAt, Tokens, SyncOK, BCoreCmds, DecodeCmds, FileCmds
<1>13. waiting \in FileCmds =>
         (waiting = "FILE_OPEN_CMPL" /\ Now = "codecOpen") \/ (waiting = "FILE_CLOSE_CMPL" /\ Now = "shutOff")
  BY <1>2 DEF TokenInv, WaitsAt, FileCmds
<1>14. ClosedInv' BY <1>1, <1>2, <1>3, <1>4, <1>5, <1>12 DEF ClosedInv, FileCmds
<1>15. HardwareInv' BY <1>1, <1>2, <1>3, <1>4, <1>5, <1>10, <1>11, <1>13 DEF HardwareInv
<1>16. Now = "opened" => waiting = "DEC_OPEN"
  BY <1>1, <1>2 DEF TokenInv, WaitsAt, Tokens, SyncOK, BCoreCmds, DecodeCmds, FileCmds
<1>17. AheadInv' BY <1>1, <1>2, <1>3, <1>4, <1>5, <1>16 DEF AheadInv, OneAhead
<1> QED BY <1>1, <1>2, <1>5, <1>7, <1>8, <1>9, <1>14, <1>15, <1>17 DEF RunInv

LEMMA CopyDone ==
  ASSUME IInv, TodoInv, event' = None, DmaDone
  PROVE  RunInv'
<1> USE DEF None
<1> DEFINE Facts == TokenInv /\ PlayerInv /\ OffInv /\ ClosedInv /\ HardwareInv /\ AheadInv
<1>1. /\ UNCHANGED <<source, todo, AudioPlayState, AudioPlayerState, CurrentCodec>>
      /\ UNCHANGED <<block, gError, waiting, byShell, masked, isr, a2b, b2a, bpc, op, status,
                     gFileOpStatus, hw, fill, ans>>
      /\ Running /\ dma /\ dma' = FALSE /\ sem' = "DMA"
  BY DEF DmaDone, control, player, cores, bmain, stream
<1>2. RunInv /\ SyncOK /\ Facts BY <1>1 DEF IInv, RunInv, TypeOK
<1>3. Now' = Now BY TodoStays, <1>1
<1>4. waiting = "DMA" /\ ~byShell /\ Now = "copied" /\ ~block.needDecode
  BY <1>1, <1>2 DEF TokenInv, WaitsAt
<1>5. /\ \A cmd : UnderWay(cmd)' <=> UnderWay(cmd)
      /\ \A cmd : Answered(cmd)' <=> Answered(cmd)
      /\ OpInv' /\ OrderInv'
  BY <1>1, <1>2, SamePlaces DEF RunInv
<1>6. AnswerIsComing' /\ TokenInv' BY <1>1, <1>2, <1>3, <1>4 DEF AnswerIsComing, TokenInv, WaitsAt
<1>7. PlayerInv' /\ OffInv' BY <1>1, <1>2, <1>3 DEF PlayerInv, OffInv
<1>8. AwaitedInv'
  <2>1. \A c \in BCoreCmds \ {"DECODE"} : c # "DMA" BY DEF BCoreCmds, DecodeCmds, FileCmds
  <2> QED BY <1>2, <1>4, <1>5, <2>1 DEF AwaitedInv, RunInv
<1>9. ClosedInv' BY <1>1, <1>2, <1>3, <1>4, <1>5 DEF ClosedInv, FileCmds
<1>10. HardwareInv' BY <1>1, <1>2, <1>3, <1>4, <1>5 DEF HardwareInv
<1>11. AheadInv' BY <1>1, <1>2, <1>3, <1>4, <1>5 DEF AheadInv, OneAhead
<1> QED BY <1>1, <1>2, <1>5, <1>6, <1>7, <1>8, <1>9, <1>10, <1>11 DEF RunInv

LEMMA IsrReads ==
  ASSUME IInv, TodoInv, event' = None, IsrRead
  PROVE  RunInv'
<1> USE DEF None
<1> DEFINE Facts == TokenInv /\ PlayerInv /\ OffInv /\ ClosedInv /\ HardwareInv /\ AheadInv
<1>1. /\ UNCHANGED <<source, todo, AudioPlayState, AudioPlayerState, CurrentCodec>>
      /\ UNCHANGED <<block, gError, waiting, byShell, dma, sem, masked, a2b, b2a, bpc, op, status,
                     gFileOpStatus, hw, fill, ans>>
      /\ Running /\ isr = None /\ ~masked /\ b2a # None /\ isr' = b2a
  BY DEF IsrRead, control, player, cores, bmain, stream
<1>2. RunInv /\ Facts BY <1>1 DEF IInv, RunInv
<1>3. Now' = Now BY TodoStays, <1>1
<1>4. /\ \A cmd : InWork(cmd)' <=> InWork(cmd)
      /\ \A cmd : Answered(cmd)' <=> Answered(cmd)
      /\ \A cmd : AtWork(cmd)' <=> AtWork(cmd)
      /\ \A cmd : Unread(cmd)' <=> Unread(cmd)
  BY <1>1 DEF InWork, Answered, AtWork, Unread
<1>5. \A cmd : UnderWay(cmd)' <=> UnderWay(cmd) BY <1>4 DEF UnderWay
<1>6. \A cmd, d : Last(cmd, d)' <=> Last(cmd, d) BY <1>1, <1>4 DEF Last
<1>7. OpInv' /\ OrderInv' BY <1>1, <1>2, <1>6 DEF OpInv, OrderInv, RunInv
<1>8. AnswerIsComing' /\ TokenInv' BY <1>1, <1>2, <1>3, <1>5 DEF AnswerIsComing, TokenInv, RunInv
<1>9. PlayerInv' /\ OffInv' BY <1>1, <1>2, <1>3 DEF PlayerInv, OffInv
<1>10. ClosedInv' BY <1>1, <1>2, <1>3, <1>5 DEF ClosedInv
<1>11. AwaitedInv' BY <1>1, <1>2, <1>5 DEF AwaitedInv, RunInv
<1>12. HardwareInv' BY <1>1, <1>2, <1>3, <1>4 DEF HardwareInv
<1>13. AheadInv' BY <1>1, <1>2, <1>3, <1>5 DEF AheadInv, OneAhead
<1> QED BY <1>1, <1>2, <1>7, <1>8, <1>9, <1>10, <1>11, <1>12, <1>13 DEF RunInv

(* The answer is taken, and gives the token to whom it is due.             *)
LEMMA IsrClears ==
  ASSUME IInv, TodoInv, event' = None, IsrClear
  PROVE  RunInv'
<1> USE DEF None
<1> DEFINE Facts == TokenInv /\ PlayerInv /\ OffInv /\ ClosedInv /\ HardwareInv /\ AheadInv
<1>1. /\ UNCHANGED <<source, todo, AudioPlayState, AudioPlayerState, CurrentCodec>>
      /\ UNCHANGED <<waiting, byShell, dma, masked, a2b, bpc, op, status,
                     gFileOpStatus, hw, fill, ans>>
      /\ Running /\ isr # None /\ b2a = isr /\ b2a' = None /\ isr' = None
  BY DEF IsrClear, control, player, bmain, stream
<1>2. RunInv /\ SyncOK /\ Facts BY <1>1 DEF IInv, RunInv, TypeOK
<1>3. Now' = Now BY TodoStays, <1>1
<1>4. bpc # "off" /\ ~masked /\ waiting # "DMA" /\ ~dma BY <1>1, <1>2 DEF OffInv, TokenInv
<1>0. isr \in Answers BY <1>1, <1>2 DEF SyncOK
<1>5. PICK cmd : CmdOf(isr) = cmd /\ cmd \in BCoreCmds /\ cmd # None
  BY <1>0, TokenNames DEF BCoreCmds, DecodeCmds, FileCmds
<1>6. \A c : Answered(c) <=> c = cmd BY <1>1, <1>5 DEF Answered
<1>7. \A c : ~Answered(c)' BY <1>1 DEF Answered
<1>8. \A c : /\ InWork(c)' <=> InWork(c)
             /\ AtWork(c)' <=> AtWork(c)
             /\ Unread(c)' <=> Unread(c)
  BY <1>1 DEF InWork, AtWork, Unread
<1>9. ~InWork(cmd) BY <1>2, <1>5, <1>6 DEF RunInv, OrderInv, Last
<1>10. ~UnderWay(cmd)' /\ (\A c : c # cmd => (UnderWay(c)' <=> UnderWay(c))) /\ UnderWay(cmd)
  BY <1>6, <1>7, <1>8, <1>9 DEF UnderWay
<1>11. \A c, d : Last(c, d) => Last(c, d)' BY <1>1, <1>7, <1>8 DEF Last
<1>12. OpInv' /\ OrderInv' BY <1>1, <1>2, <1>11 DEF OpInv, OrderInv, RunInv
<1>13. PlayerInv' /\ OffInv' BY <1>1, <1>2, <1>3, <1>4 DEF PlayerInv, OffInv
<1>14. CASE cmd # "DECODE"
  <2>1. waiting = cmd /\ sem = None BY <1>2, <1>5, <1>10, <1>14 DEF RunInv, AwaitedInv
  <2>2. isr \notin {"DECODE_CMPL", "DECODE_ERR"} BY <1>5, <1>14 DEF CmdOf
  <2>3. sem' = cmd /\ (gError' <=> IF cmd = "DEC_OPEN" THEN isr = "DEC_OPEN_ERR" ELSE gError)
    BY <1>5, <2>2 DEF IsrClear, Gives
  <2>4. ~block.needDecode BY <1>2, <1>14, <2>1 DEF TokenInv
  <2>5. /\ ~block'.needDecode
        /\ IF isr = "DEC_OPEN_CMPL" THEN ~block'.Decoding ELSE block' = block
    BY <1>2, <2>2, <2>4 DEF IsrClear, BlockAfter, SyncOK, Blocks
  <2>6. AnswerIsComing' /\ TokenInv'
    BY <1>1, <1>2, <1>3, <1>4, <1>5, <2>1, <2>3, <2>5 DEF AnswerIsComing, TokenInv
  <2>7. AwaitedInv'
    <3>1. \A c \in BCoreCmds \ {"DECODE"} : ~UnderWay(c)' BY <1>2, <1>10, <2>1 DEF RunInv, AwaitedInv
    <3> QED BY <3>1 DEF AwaitedInv
  <2>8. cmd = "DECODE_CLOSE" => ~UnderWay("DECODE")
    BY <1>2, <1>6, <1>14 DEF RunInv, OrderInv, Last, UnderWay
  <2>9. ClosedInv'
    BY <1>1, <1>2, <1>3, <1>10, <1>14, <2>1, <2>3, <2>8 DEF ClosedInv
  <2>10. HardwareInv' BY <1>1, <1>2, <1>3, <1>4, <1>5, <1>6, <1>7, <2>1, <2>3 DEF HardwareInv
  <2>11. AheadInv'
    <3>0. UnderWay("DECODE")' <=> UnderWay("DECODE") BY <1>10, <1>14
    <3>1. CASE isr = "DEC_OPEN_CMPL"
      <4>1. cmd = "DEC_OPEN" BY <1>5, <3>1 DEF CmdOf
      <4>2. ~UnderWay("DECODE") BY <1>2, <2>1, <4>1 DEF ClosedInv
      <4> QED BY <1>1, <1>2, <1>3, <1>4, <2>5, <3>0, <3>1, <4>2 DEF AheadInv, OneAhead, PlayerInv
    <3>2. CASE isr # "DEC_OPEN_CMPL"
      <4>1. cmd = "DEC_OPEN" => isr = "DEC_OPEN_ERR"
        BY <1>0, <1>5, <3>2 DEF CmdOf, Answers
      <4> QED BY <1>1, <1>2, <1>3, <1>4, <1>5, <2>1, <2>3, <2>5, <3>0, <3>2, <4>1 DEF AheadInv, OneAhead
    <3> QED BY <3>1, <3>2
  <2> QED BY <1>1, <1>2, <1>12, <1>13, <2>6, <2>7, <2>9, <2>10, <2>11 DEF RunInv
<1>15. CASE cmd = "DECODE"
  <2>1. isr \in {"DECODE_CMPL", "DECODE_ERR"} BY <1>0, <1>5, <1>15 DEF CmdOf, Answers
  <2>2. ~block'.needDecode /\ ~block'.Decoding BY <2>1 DEF IsrClear, BlockAfter
  <2>3. /\ sem' = IF block.needDecode THEN "DECODE" ELSE sem
        /\ gError' = gError
    BY <1>5, <1>15, <2>1 DEF IsrClear, Gives
  <2>4. block.needDecode => waiting = "DECODE" /\ sem = None BY <1>2 DEF TokenInv
  <2>5. AnswerIsComing'
    BY <1>1, <1>2, <1>4, <1>10, <1>15, <2>2, <2>3, <2>4 DEF RunInv, AnswerIsComing
  <2>6. TokenInv' BY <1>1, <1>2, <1>3, <1>4, <2>2, <2>3, <2>4 DEF TokenInv
  <2>7. AwaitedInv'
    BY <1>1, <1>2, <1>10, <1>15, <2>3, <2>4 DEF RunInv, AwaitedInv
  <2>8. ClosedInv' BY <1>10, <1>15 DEF ClosedInv
  <2>9. HardwareInv' BY <1>1, <1>2, <1>3, <1>7, <2>3 DEF HardwareInv
  <2>10. AheadInv' BY <1>1, <1>2, <1>3, <1>4, <1>10, <1>15, <2>2 DEF AheadInv, OneAhead, PlayerInv
  <2> QED BY <1>1, <1>2, <1>12, <1>13, <2>5, <2>6, <2>7, <2>8, <2>9, <2>10 DEF RunInv
<1> QED BY <1>14, <1>15

----------------------------------------------------------------------------
(* The steps of the B core *)

LEMMA InWorkIs ==
  \A c : /\ InWork(c) <=> Unread(c) \/ AtWork(c)
         /\ InWork(c)' <=> Unread(c)' \/ AtWork(c)'
BY DEF InWork, Unread, AtWork

(* A step of the B core keeps what the A core relies on if it puts nothing *)
(* on its way and loses nothing but a decode that is closed.               *)
LEMMA MovesKeep ==
  ASSUME IInv, TodoInv, Running, event' = None, UNCHANGED <<control, sync>>,
         bpc # "off", bpc' # "off", ans' # "old", OpInv', OrderInv', HardwareInv',
         \A c \in BCoreCmds : UnderWay(c)' => UnderWay(c),
         \A c \in BCoreCmds : UnderWay(c) =>
            UnderWay(c)' \/ (c = "DECODE" /\ UnderWay("DECODE_CLOSE"))
  PROVE  RunInv'
<1> USE DEF None
<1> DEFINE Facts == TokenInv /\ PlayerInv /\ OffInv /\ ClosedInv /\ AheadInv
<1>1. /\ UNCHANGED <<source, todo, AudioPlayState, AudioPlayerState, CurrentCodec>>
      /\ UNCHANGED <<block, gError, waiting, byShell, dma, sem, masked, isr>>
  BY DEF control, player, sync
<1>2. RunInv /\ SyncOK /\ Facts BY DEF IInv, RunInv, TypeOK
<1>3. Now' = Now BY TodoStays, <1>1
<1>4. TokenInv' /\ PlayerInv' /\ OffInv' BY <1>1, <1>2, <1>3 DEF TokenInv, PlayerInv, OffInv
<1>5. UnderWay("DECODE_CLOSE") =>
        waiting = "DECODE_CLOSE" /\ Now = "bbStop" /\ AudioPlayState = "STOP"
  <2>1. HAVE UnderWay("DECODE_CLOSE")
  <2>2. waiting = "DECODE_CLOSE" BY <1>2, <2>1, TokenNames DEF RunInv, AwaitedInv
  <2>3. Now = "bbStop" BY <1>2, <2>2 DEF TokenInv, WaitsAt
  <2> QED BY <1>2, <2>2, <2>3 DEF PlayerInv
<1>6. AnswerIsComing'
  <2>1. SUFFICES ASSUME waiting # None, sem = None, waiting # "DMA" PROVE AnswerIsComing'
    BY <1>1, <1>2 DEF AnswerIsComing, RunInv
  <2>2. UnderWay(waiting) /\ (waiting = "DECODE" => block.needDecode)
    BY <1>2, <2>1 DEF RunInv, AnswerIsComing
  <2>3. waiting \in BCoreCmds BY <1>2, <2>1 DEF SyncOK, Tokens
  <2>4. PICK w : w = waiting OBVIOUS
  <2>5. UnderWay(w)' BY <1>5, <2>2, <2>3, <2>4
  <2> QED BY <1>1, <2>1, <2>2, <2>4, <2>5 DEF AnswerIsComing
<1>7. AwaitedInv' BY <1>1, <1>2 DEF AwaitedInv, RunInv
<1>8. ClosedInv' BY <1>1, <1>2, <1>3, TokenNames DEF ClosedInv
<1>9. AheadInv'
  <2>1. (UnderWay("DECODE")' <=> UnderWay("DECODE")) \/ (Now = "bbStop" /\ AudioPlayState = "STOP")
    BY <1>5, TokenNames
  <2> QED BY <1>1, <1>2, <1>3, <2>1 DEF AheadInv, OneAhead
<1> QED BY <1>4, <1>6, <1>7, <1>8, <1>9 DEF RunInv

(* Steps after which every command is where it was, or further.            *)
LEMMA Places ==
  ASSUME OrderInv, UNCHANGED a2b,
         \A c \in BCoreCmds : (status' = c => status = c) /\ (gFileOpStatus' = c => gFileOpStatus = c),
         \A c \in BCoreCmds : /\ AtWork(c)' <=> AtWork(c)
                              /\ Unread(c)' <=> Unread(c)
                              /\ Answered(c)' <=> Answered(c)
  PROVE  /\ OrderInv'
         /\ \A c \in BCoreCmds : UnderWay(c)' <=> UnderWay(c)
<1>1. \A c \in BCoreCmds : InWork(c)' <=> InWork(c) BY InWorkIs
<1>2. \A c, d \in BCoreCmds : Last(c, d) => Last(c, d)' BY <1>1 DEF Last
<1> QED BY <1>1, <1>2, TokenNames DEF OrderInv, UnderWay

LEMMA CmdNames == \A c \in BCoreCmds : c \notin {None, "IDLE", "READ", "SEEK", "rawSeek"}
BY DEF BCoreCmds, DecodeCmds, FileCmds, None

(* The main loop works on nothing before and after the step.               *)
LEMMA QuietPlaces ==
  ASSUME op = None, op' = None, OrderInv,
         UNCHANGED <<a2b, b2a, isr, status, gFileOpStatus>>
  PROVE  OrderInv' /\ \A c \in BCoreCmds : (UnderWay(c)' <=> UnderWay(c)) /\ (Answered(c)' <=> Answered(c))
<1>1. \A c \in BCoreCmds : ~AtWork(c) /\ ~AtWork(c)' BY CmdNames DEF AtWork, None
<1>2. \A c \in BCoreCmds : Unread(c)' <=> Unread(c) BY CmdNames DEF Unread
<1>3. \A c \in BCoreCmds : Answered(c)' <=> Answered(c) BY DEF Answered
<1> QED BY <1>1, <1>2, <1>3, Places

LEMMA QuietSteps ==
  ASSUME IInv, TodoInv, event' = None,
         \/ Top /\ status = "IDLE"
         \/ Idle \/ Wake \/ FillBuffer
         \/ Input /\ bpc = "fillLast"
         \/ Second /\ gFileOpStatus = "IDLE"
  PROVE  RunInv'
<1> USE DEF None
<1>1. /\ Running /\ UNCHANGED <<control, sync, a2b, b2a, op, status, gFileOpStatus, hw, ans>>
      /\ <<bpc, bpc'>> \in {<<"top", "idle">>, <<"idle", "fill">>, <<"idle", "sleep">>,
                            <<"idleLast", "top">>, <<"idleLast", "sleepLast">>,
                            <<"sleep", "fill">>, <<"sleepLast", "top">>,
                            <<"fill", "fillLast">>, <<"fill", "second">>,
                            <<"fillLast", "second">>, <<"second", "idleLast">>}
      /\ fill' = IF bpc = "fill" THEN FALSE ELSE fill
      /\ bpc = "fill" /\ bpc' = "fillLast" => fill
  <2>1. CASE Top /\ status = "IDLE" BY <2>1 DEF Top, At, Go, stream
  <2>2. CASE Idle BY <2>2 DEF Idle, At, Go, After, stream
  <2>3. CASE Wake BY <2>3 DEF Wake, At, Go, After, stream
  <2>4. CASE FillBuffer BY <2>4 DEF FillBuffer, At, Go, stream
  <2>5. CASE Input /\ bpc = "fillLast" BY <2>5 DEF Input, At, Go, After
  <2>6. CASE Second /\ gFileOpStatus = "IDLE" BY <2>6 DEF Second, At, Go, stream
  <2> QED BY <2>1, <2>2, <2>3, <2>4, <2>5, <2>6
<1>2. RunInv BY <1>1 DEF IInv
<1>3. UNCHANGED <<waiting, sem, CurrentCodec, todo, isr>> BY <1>1 DEF control, player, sync
<1>4. Now' = Now BY <1>3, TodoStays
<1>5. op = None /\ op' = None BY <1>1, <1>2 DEF RunInv, OpInv
<1>6. OpInv' BY <1>1, <1>5 DEF OpInv
<1>7. /\ OrderInv'
      /\ \A c \in BCoreCmds : (UnderWay(c)' <=> UnderWay(c)) /\ (Answered(c)' <=> Answered(c))
  BY <1>1, <1>2, <1>3, <1>5, QuietPlaces DEF RunInv
<1>8. HardwareInv'
  <2>1. HardwareInv BY <1>2 DEF RunInv
  <2> QED BY <1>1, <1>3, <1>4, <1>5, <1>7, <2>1, TokenNames DEF HardwareInv
<1>9. ans' # "old" /\ bpc # "off" /\ bpc' # "off" BY <1>1, <1>2 DEF RunInv
<1> QED BY <1>1, <1>6, <1>7, <1>8, <1>9, MovesKeep

(* The main loop reads the command of the case it takes.                   *)
LEMMA BeginPlaces ==
  ASSUME OrderInv, op = None, op' \in BCoreCmds, UNCHANGED <<a2b, b2a, isr, status, gFileOpStatus>>,
         \/ op' = status /\ bpc' = "case" /\ gFileOpStatus # op' /\ gFileOpStatus # "DECODE"
         \/ op' = gFileOpStatus /\ bpc' = "fileCase" /\ status # op' /\ op' \in FileCmds
  PROVE  OrderInv' /\ \A c \in BCoreCmds : (UnderWay(c)' <=> UnderWay(c)) /\ (Answered(c)' <=> Answered(c))
<1>1. \A c \in BCoreCmds : ~AtWork(c) /\ (AtWork(c)' <=> c = op')
  BY CmdNames DEF AtWork, None
<1>2. \A c \in BCoreCmds : Answered(c)' <=> Answered(c) BY DEF Answered
<1>3. \A c \in BCoreCmds : (Unread(c)' => Unread(c)) /\ (Unread(c) => Unread(c)' \/ c = op')
  BY CmdNames DEF Unread, None
<1>4. \A c \in BCoreCmds : InWork(c)' <=> InWork(c)
  <2>1. Unread(op') BY CmdNames DEF Unread, None
  <2> QED BY <1>1, <1>3, <2>1, InWorkIs
<1>5. ASSUME NEW c \in BCoreCmds, NEW d \in BCoreCmds, Last(c, d), 
             c = d \/ (d = "DECODE" /\ c \in {"DECODE_SEEK", "DECODE_CLOSE"})
      PROVE  Last(c, d)'
  <2>1. CASE c # op' BY <1>1, <1>2, <1>4, <1>5, <2>1 DEF Last
  <2>2. CASE c = op'
    <3>1. a2b # d BY <1>5, <2>2 DEF Last
    <3>2. ~Unread(d)' BY <1>5, <2>2, <3>1, CmdNames DEF Unread, FileCmds
    <3> QED BY <1>2, <1>4, <1>5, <3>1, <3>2 DEF Last
  <2> QED BY <2>1, <2>2
<1>6. OrderInv' BY <1>5, TokenNames DEF OrderInv
<1> QED BY <1>2, <1>4, <1>6 DEF UnderWay

LEMMA BeginSteps ==
  ASSUME IInv, TodoInv, event' = None,
         \/ Top /\ status # "IDLE"
         \/ Second /\ gFileOpStatus # "IDLE"
  PROVE  RunInv'
<1> USE DEF None
<1>1. /\ Running /\ UNCHANGED <<control, sync, a2b, b2a, status, gFileOpStatus, hw, fill, ans>>
      /\ \/ bpc = "top" /\ bpc' = "case" /\ op' = status /\ status # "IDLE"
         \/ bpc = "second" /\ bpc' = "fileCase" /\ op' = gFileOpStatus /\ gFileOpStatus # "IDLE"
  BY DEF Top, Second, At, Go, stream
<1>2. RunInv /\ BCoreOK BY <1>1 DEF IInv, TypeOK
<1>3. UNCHANGED <<waiting, sem, CurrentCodec, todo, isr>> BY <1>1 DEF control, player, sync
<1>4. Now' = Now BY <1>3, TodoStays
<1>5. op = None BY <1>1, <1>2 DEF RunInv, OpInv
<1>6. /\ bpc = "top" => op' \in DecodeCmds
      /\ bpc = "second" => op' \in FileCmds \cup {"READ", "SEEK"}
  BY <1>1, <1>2 DEF BCoreOK
<1>7. OpInv' BY <1>1, <1>6 DEF OpInv
<1>8. /\ OrderInv'
      /\ \A c \in BCoreCmds : (UnderWay(c)' <=> UnderWay(c)) /\ (Answered(c)' <=> Answered(c))
  <2>0. OrderInv BY <1>2 DEF RunInv
  <2>1. UNCHANGED <<a2b, b2a, isr, status, gFileOpStatus>> BY <1>1, <1>3
  <2>2. CASE op' \in BCoreCmds
    <3>1. \/ op' = status /\ bpc' = "case" /\ gFileOpStatus # op' /\ gFileOpStatus # "DECODE"
          \/ op' = gFileOpStatus /\ bpc' = "fileCase" /\ status # op' /\ op' \in FileCmds
      BY <1>1, <1>2, <1>6, <2>2 DEF BCoreOK, DecodeCmds, FileCmds, BCoreCmds
    <3> QED BY <1>5, <2>0, <2>1, <2>2, <3>1, BeginPlaces
  <2>3. CASE op' \notin BCoreCmds
    <3>1. op' \in {"READ", "SEEK"} BY <1>1, <1>6, <2>3 DEF BCoreCmds
    <3>2. \A c \in BCoreCmds : /\ AtWork(c)' <=> AtWork(c)
                               /\ Unread(c)' <=> Unread(c)
                               /\ Answered(c)' <=> Answered(c)
      BY <1>5, <2>1, <3>1, CmdNames DEF AtWork, Unread, Answered
    <3> QED BY <2>0, <2>1, <3>2, Places
  <2> QED BY <2>2, <2>3
<1>9. bpc = "top" => hw
  <2>1. SUFFICES ASSUME bpc = "top", ~hw PROVE FALSE OBVIOUS
  <2>2. \/ waiting \in FileCmds
        \/ waiting = None /\ Now \in {"codecOpen", "shutOff"} /\ CurrentCodec # None
    BY <1>2, <2>1 DEF RunInv, HardwareInv, PlayerInv
  <2>3. status \in DecodeCmds /\ UnderWay(status) BY <1>1, <1>6, <2>1 DEF UnderWay, InWork
  <2>4. ~UnderWay("DECODE") BY <1>2, <2>2 DEF RunInv, ClosedInv
  <2>5. status \in BCoreCmds \ {"DECODE"} BY <2>3, <2>4 DEF BCoreCmds
  <2>6. waiting = status BY <1>2, <2>3, <2>5 DEF RunInv, AwaitedInv
  <2> QED BY <2>2, <2>3, <2>6 DEF DecodeCmds, FileCmds
<1>10. HardwareInv'
  <2>1. HardwareInv BY <1>2 DEF RunInv
  <2> QED BY <1>1, <1>3, <1>4, <1>8, <1>9, <2>1, TokenNames DEF HardwareInv
<1>11. ans' # "old" /\ bpc # "off" /\ bpc' # "off" BY <1>1, <1>2 DEF RunInv
<1> QED BY <1>1, <1>7, <1>8, <1>10, <1>11, MovesKeep

(* Within a case, or at its end.                                           *)
LEMMA CaseSteps ==
  ASSUME IInv, TodoInv, event' = None,
         \/ Case
         \/ Input /\ bpc = "fillFirst"
         \/ CodecRequest \/ CodecReturns \/ Waited
  PROVE  RunInv'
<1> USE DEF None
<1>0. Running
  BY DEF Case, Input, CodecRequest, CodecReturns, Waited, At
<1>1. RunInv /\ OpInv /\ HardwareInv BY <1>0 DEF IInv, RunInv
<1>2. /\ UNCHANGED <<control, sync, a2b, b2a, gFileOpStatus, hw, ans>>
      /\ \/ /\ bpc \in {"case", "fillFirst", "codec", "wait"} /\ op \in DecodeCmds /\ op' = op
            /\ bpc' \in {"fillFirst", "codec", "wait", "answer"}
            /\ bpc' = "fillFirst" => op = "DECODE"
            /\ bpc' = "wait" => op # "DECODE_CLOSE"
            /\ IF bpc = "case" THEN status = op /\ status' = "IDLE" ELSE status' = status
         \/ /\ bpc = "wait" /\ op \in {"FILE_OPEN_CMPL", "rawSeek"} /\ status' = status
            /\ \/ op' = "rawSeek" /\ bpc' = "wait"
               \/ op' = "FILE_OPEN_CMPL" /\ bpc' = "handshake"
  <2>1. CASE Case BY <1>1, <2>1 DEF Case, At, Go, OpInv, stream
  <2>2. CASE Input /\ bpc = "fillFirst" BY <1>1, <2>2 DEF Input, At, Go, After, OpInv, DecodeCmds
  <2>3. CASE CodecRequest BY <1>1, <2>3 DEF CodecRequest, At, Go, OpInv
  <2>4. CASE CodecReturns BY <1>1, <2>4 DEF CodecReturns, At, Go, OpInv, stream
  <2>5. CASE Waited
    <3>1. bpc = "wait" /\ UNCHANGED <<control, sync, a2b, b2a, status, gFileOpStatus, hw, ans>>
      BY <2>5 DEF Waited, At
    <3>2. CASE op \in DecodeCmds
      <4>1. op \notin {"FILE_OPEN_CMPL", "rawSeek"} BY <3>2 DEF DecodeCmds
      <4>2. op' = op /\ bpc' = "codec" BY <2>5, <3>2, <4>1 DEF Waited, Go
      <4> QED BY <3>1, <3>2, <4>2
    <3>3. CASE op = "FILE_OPEN_CMPL" BY <2>5, <3>1, <3>3 DEF Waited, Go, DecodeCmds
    <3>4. CASE op = "rawSeek" BY <2>5, <3>1, <3>4 DEF Waited, Go, DecodeCmds
    <3> QED BY <1>1, <3>1, <3>2, <3>3, <3>4 DEF OpInv
  <2> QED BY <2>1, <2>2, <2>3, <2>4, <2>5
<1>3. UNCHANGED <<waiting, sem, CurrentCodec, todo, isr>> BY <1>2 DEF control, player, sync
<1>4. Now' = Now BY <1>3, TodoStays
<1>5. OpInv' BY <1>1, <1>2 DEF OpInv, DecodeCmds, FileCmds
<1>6. \A c \in BCoreCmds : (AtWork(c)' <=> AtWork(c)) /\ (Unread(c)' <=> Unread(c))
  <2>1. CASE op \in DecodeCmds
    <3>1. "FILE_OPEN_CMPL" \notin DecodeCmds /\ "rawSeek" \notin DecodeCmds BY DEF DecodeCmds
    <3>2. op' = op /\ bpc' \in {"fillFirst", "codec", "wait", "answer"} BY <1>2, <2>1, <3>1
    <3>3. bpc \in {"case", "fillFirst", "codec", "wait"} BY <1>2
    <3>4. \A c \in BCoreCmds : AtWork(c)' <=> AtWork(c) BY <2>1, <3>1, <3>2, <3>3 DEF AtWork
    <3>5. IF bpc = "case" THEN status = op /\ status' = "IDLE" ELSE status' = status
      BY <1>2, <2>1, <3>1
    <3> QED BY <1>2, <3>2, <3>3, <3>4, <3>5, CmdNames DEF Unread
  <2>2. CASE op \in {"FILE_OPEN_CMPL", "rawSeek"}
    <3>1. bpc = "wait" /\ status' = status /\ UNCHANGED <<a2b, gFileOpStatus>>
          /\ op' \in {"FILE_OPEN_CMPL", "rawSeek"} /\ bpc' \in {"wait", "handshake"}
          /\ (op' = "rawSeek" => bpc' = "wait")
      BY <1>2, <2>2 DEF DecodeCmds
    <3> QED BY <2>2, <3>1, CmdNames DEF AtWork, Unread
  <2> QED BY <1>2, <2>1, <2>2
<1>7. \A c \in BCoreCmds : Answered(c)' <=> Answered(c) BY <1>2, <1>3 DEF Answered
<1>8. OrderInv' /\ \A c \in BCoreCmds : UnderWay(c)' <=> UnderWay(c)
  <2>1. \A c \in BCoreCmds : (status' = c => status = c) /\ (gFileOpStatus' = c => gFileOpStatus = c)
    BY <1>2, CmdNames
  <2> QED BY <1>1, <1>2, <1>6, <1>7, <2>1, Places DEF RunInv
<1>9. hw
  BY <1>1, <1>2, <1>0 DEF HardwareInv
<1>10. HardwareInv'
  BY <1>1, <1>2, <1>3, <1>4, <1>7, <1>9, TokenNames DEF HardwareInv, DecodeCmds
<1>11. ans' # "old" /\ bpc # "off" /\ bpc' # "off" BY <1>1, <1>2 DEF RunInv
<1> QED BY <1>0, <1>2, <1>5, <1>8, <1>10, <1>11, MovesKeep

LEMMA FileCases ==
  ASSUME IInv, TodoInv, event' = None, FileCase
  PROVE  RunInv'
<1> USE DEF None
<1>0. Running /\ bpc = "fileCase" BY DEF FileCase, At
<1>1. RunInv /\ OpInv /\ HardwareInv /\ BCoreOK BY <1>0 DEF IInv, RunInv, TypeOK
<1>2. op \in FileCmds \cup {"READ", "SEEK"} BY <1>0, <1>1 DEF OpInv
<1>3. /\ UNCHANGED <<control, sync, a2b, b2a, status, fill, ans>>
      /\ gFileOpStatus' = "IDLE" /\ gFileOpStatus \notin FileCmds \ {op}
      /\ \/ op = "FILE_OPEN_CMPL" /\ op' = op /\ bpc' = "wait" /\ hw' = TRUE
         \/ op = "FILE_CLOSE_CMPL" /\ op' = op /\ bpc' = "handshake" /\ hw' = FALSE
         \/ op \in {"READ", "SEEK"} /\ op' = None /\ bpc' = "top" /\ hw' = hw
  BY <1>2 DEF FileCase, Go, FileCmds
<1>4. UNCHANGED <<waiting, sem, CurrentCodec, todo, isr>> BY <1>3 DEF control, player, sync
<1>5. Now' = Now BY <1>4, TodoStays
<1>6. OpInv' BY <1>3 DEF OpInv, FileCmds
<1>7. \A c \in BCoreCmds : (AtWork(c)' <=> AtWork(c)) /\ (Unread(c)' <=> Unread(c))
  <2>1. \A c \in BCoreCmds : AtWork(c)' <=> AtWork(c) BY <1>0, <1>3, CmdNames DEF AtWork
  <2>2. \A c \in BCoreCmds : gFileOpStatus = c => op = c
    BY <1>1, <1>3, CmdNames DEF BCoreOK
  <2>3. \A c \in BCoreCmds : Unread(c)' <=> Unread(c)
    BY <1>0, <1>3, <2>2, CmdNames DEF Unread
  <2> QED BY <2>1, <2>3
<1>8. \A c \in BCoreCmds : Answered(c)' <=> Answered(c) BY <1>3, <1>4 DEF Answered
<1>9. OrderInv' /\ \A c \in BCoreCmds : UnderWay(c)' <=> UnderWay(c)
  <2>1. \A c \in BCoreCmds : (status' = c => status = c) /\ (gFileOpStatus' = c => gFileOpStatus = c)
    BY <1>3, CmdNames
  <2> QED BY <1>1, <1>3, <1>7, <1>8, <2>1, Places DEF RunInv
<1>10. op \in FileCmds => waiting = op /\ sem = None /\ (\A c \in FileCmds : Answered(c) => c = op)
  <2>1. SUFFICES ASSUME op \in FileCmds
                 PROVE  waiting = op /\ sem = None /\ (\A c \in FileCmds : Answered(c) => c = op)
    OBVIOUS
  <2>2. UnderWay(op) BY <1>0, <2>1 DEF UnderWay, InWork
  <2>3. FileCmds \subseteq BCoreCmds \ {"DECODE"} BY DEF FileCmds, BCoreCmds, DecodeCmds
  <2>4. waiting = op /\ sem = None BY <1>1, <2>1, <2>2, <2>3 DEF RunInv, AwaitedInv
  <2> QED BY <1>1, <2>3, <2>4 DEF RunInv, AwaitedInv, UnderWay
<1>11. HardwareInv'
  <2>1. "FILE_OPEN_CMPL" \in FileCmds /\ "FILE_CLOSE_CMPL" \in FileCmds BY DEF FileCmds
  <2>2. ~fill BY <1>0, <1>1 DEF HardwareInv
  <2>3. UNCHANGED fill /\ UNCHANGED waiting BY <1>3, <1>4
  <2>4. CASE op = "FILE_OPEN_CMPL"
    BY <1>3, <1>4, <1>5, <1>8, <1>10, <2>1, <2>4, TokenNames DEF HardwareInv
  <2>5. CASE op = "FILE_CLOSE_CMPL"
    BY <1>3, <1>4, <1>5, <1>8, <1>10, <2>1, <2>2, <2>5, TokenNames DEF HardwareInv
  <2>6. CASE op \in {"READ", "SEEK"}
    BY <1>0, <1>1, <1>3, <1>4, <1>5, <1>8, <2>6, TokenNames DEF HardwareInv
  <2> QED BY <1>2, <2>4, <2>5, <2>6 DEF FileCmds
<1>12. ans' # "old" /\ bpc # "off" /\ bpc' # "off" BY <1>0, <1>1, <1>3 DEF RunInv
<1> QED BY <1>0, <1>3, <1>6, <1>9, <1>11, <1>12, MovesKeep

(* The end of a case: the answer is written, over that of a decode if any. *)
LEMMA AnswerSteps ==
  ASSUME IInv, TodoInv, event' = None, Answer \/ Handshake
  PROVE  RunInv'
<1> USE DEF None
<1>0. /\ Running /\ UNCHANGED <<control, sync, a2b, status, gFileOpStatus, hw, fill, ans>>
      /\ op' = None /\ b2a' \in Answers /\ CmdOf(b2a') = op
      /\ \/ bpc = "answer" /\ bpc' = "fill" /\ (b2a = None \/ op = "DECODE_CLOSE")
         \/ bpc = "handshake" /\ bpc' = "top"
  BY DEF Answer, Handshake, At, Go, stream
<1>1. RunInv /\ OpInv /\ HardwareInv /\ LinkOK BY <1>0 DEF IInv, RunInv, TypeOK
<1>2. /\ bpc = "answer" => op \in DecodeCmds
      /\ bpc = "handshake" => op \in FileCmds
      /\ op \in BCoreCmds /\ op # None
  BY <1>0, <1>1, CmdNames DEF OpInv, BCoreCmds
<1>3. UNCHANGED <<waiting, sem, CurrentCodec, todo, isr>> BY <1>0 DEF control, player, sync
<1>4. Now' = Now BY <1>3, TodoStays
<1>5. OpInv' BY <1>0 DEF OpInv
<1>6. AtWork(op) /\ (\A c \in BCoreCmds : (AtWork(c) => c = op) /\ ~AtWork(c)')
  BY <1>0, <1>2, CmdNames DEF AtWork
<1>7. \A c : Unread(c)' <=> Unread(c) BY <1>0 DEF Unread
<1>8. ~Unread(op) /\ ~Answered(op)
  <2>1. Last(op, op) BY <1>1, <1>2 DEF RunInv, OrderInv
  <2> QED BY <1>6, <2>1, InWorkIs DEF Last
<1>9. PICK o : o = op OBVIOUS
<1>10. \A c \in BCoreCmds : InWork(c)' <=> InWork(c) /\ c # o BY <1>6, <1>7, <1>8, <1>9, InWorkIs
<1>11. \A c : Answered(c)' <=> c = o \/ (isr # None /\ CmdOf(isr) = c)
  <2>1. b2a' # None BY <1>0 DEF Answers
  <2> QED BY <1>0, <1>3, <1>9, <2>1 DEF Answered
<1>12. \A c \in BCoreCmds : Answered(c)' => c = o \/ Answered(c) BY <1>11 DEF Answered
<1>13. \A c \in BCoreCmds : Answered(c) =>
         Answered(c)' \/ (c = "DECODE" /\ o = "DECODE_CLOSE")
  <2>1. SUFFICES ASSUME NEW c \in BCoreCmds, b2a # None, CmdOf(b2a) = c
                 PROVE  Answered(c)' \/ (c = "DECODE" /\ o = "DECODE_CLOSE")
    BY <1>11 DEF Answered
  <2>2. UnderWay(c) /\ Answered(c) BY <2>1 DEF UnderWay, Answered
  <2>3. UnderWay(o) BY <1>6, <1>9, InWorkIs DEF UnderWay
  <2>4. c # o BY <1>8, <1>9, <2>2
  <2>5. CASE o = "DECODE"
    BY <1>0, <1>2, <1>9, <2>1, <2>5 DEF FileCmds
  <2>6. CASE o # "DECODE"
    <3>1. waiting = o BY <1>1, <1>2, <1>9, <2>3, <2>6 DEF RunInv, AwaitedInv
    <3>2. c = "DECODE" BY <1>1, <2>2, <2>4, <3>1 DEF RunInv, AwaitedInv
    <3>3. o \notin FileCmds BY <1>1, <2>2, <3>1, <3>2 DEF RunInv, ClosedInv
    <3> QED BY <1>0, <1>2, <1>9, <2>1, <3>2, <3>3
  <2> QED BY <2>5, <2>6
<1>14. ASSUME NEW c \in BCoreCmds, NEW d \in BCoreCmds, Last(c, d) PROVE Last(c, d)'
  <2>1. UNCHANGED <<a2b, status, gFileOpStatus>> /\ ~AtWork(c)' BY <1>0, <1>6
  <2>2. Answered(c)' => ~InWork(d)'
    <3>1. CASE c = o
      <4>1. ~Unread(d) BY <1>6, <1>9, <1>14, <3>1 DEF Last
      <4> QED BY <1>6, <1>7, <4>1, InWorkIs
    <3>2. CASE c # o BY <1>10, <1>12, <1>14, <3>2 DEF Last
    <3> QED BY <3>1, <3>2
  <2> QED BY <1>14, <2>1, <2>2 DEF Last
<1>15. OrderInv' BY <1>1, <1>14, TokenNames DEF RunInv, OrderInv
<1>16. /\ \A c \in BCoreCmds : UnderWay(c)' => UnderWay(c)
       /\ \A c \in BCoreCmds : UnderWay(c) =>
            UnderWay(c)' \/ (c = "DECODE" /\ UnderWay("DECODE_CLOSE"))
  <2>1. UnderWay(o) /\ Answered(o)' BY <1>6, <1>9, <1>11, InWorkIs DEF UnderWay
  <2> QED BY <1>10, <1>12, <1>13, <2>1 DEF UnderWay
<1>17. HardwareInv'
  <2>1. /\ bpc = "answer" => hw /\ o \notin FileCmds
        /\ bpc = "handshake" /\ o = "FILE_OPEN_CMPL" => hw
        /\ bpc = "handshake" /\ o = "FILE_CLOSE_CMPL" => ~hw
    BY <1>1, <1>2, <1>9 DEF HardwareInv, DecodeCmds, FileCmds
  <2>2. "FILE_OPEN_CMPL" \in FileCmds /\ "FILE_CLOSE_CMPL" \in FileCmds BY DEF FileCmds
  <2> QED BY <1>0, <1>1, <1>3, <1>4, <1>12, <2>1, <2>2, TokenNames DEF HardwareInv
<1>18. ans' # "old" /\ bpc # "off" /\ bpc' # "off" BY <1>0, <1>1 DEF RunInv
<1> QED BY <1>0, <1>5, <1>15, <1>16, <1>17, <1>18, MovesKeep

(* The mailbox interrupt of channel 1 on the B core.                       *)
LEMMA DecServices ==
  ASSUME IInv, TodoInv, event' = None, MailBoxDecService
  PROVE  RunInv'
<1> USE DEF None
<1>0. /\ Running /\ bpc # "off" /\ a2b # None /\ a2b' = None
      /\ UNCHANGED <<control, sync, b2a, bpc, op, hw, fill, ans>>
  BY DEF MailBoxDecService, stream
<1>1. RunInv /\ HardwareInv /\ LinkOK /\ BCoreOK BY <1>0 DEF IInv, RunInv, TypeOK
<1>2. PICK m \in BCoreCmds : m = a2b BY <1>0, <1>1 DEF LinkOK
<1>3. UNCHANGED <<waiting, sem, CurrentCodec, todo, isr>> BY <1>0 DEF control, player, sync
<1>4. Now' = Now BY <1>3, TodoStays
<1>5. OpInv' BY <1>0, <1>1 DEF RunInv, OpInv
<1>6. \/ /\ status' = m /\ gFileOpStatus' = gFileOpStatus
         /\ status = "IDLE" \/ (status = "DECODE" /\ m = "DECODE_CLOSE")
      \/ m \in FileCmds /\ status' = status /\ gFileOpStatus' = m
  BY <1>2 DEF MailBoxDecService, BCoreCmds
<1>7. m \in FileCmds => gFileOpStatus \notin BCoreCmds
  <2>1. SUFFICES ASSUME m \in FileCmds, gFileOpStatus \in BCoreCmds PROVE FALSE OBVIOUS
  <2>2. gFileOpStatus \in FileCmds BY <1>1, <2>1, CmdNames DEF BCoreOK
  <2>3. UnderWay(m) /\ UnderWay(gFileOpStatus) BY <1>2 DEF UnderWay, InWork
  <2>4. "DECODE" \notin FileCmds BY DEF FileCmds
  <2>5. m = gFileOpStatus BY <1>1, <2>1, <2>2, <2>3, <2>4 DEF RunInv, AwaitedInv
  <2>6. Last(m, m) BY <1>1 DEF RunInv, OrderInv
  <2> QED BY <1>2, <2>5, <2>6 DEF Last
<1>8. \A c : (AtWork(c)' <=> AtWork(c)) /\ (Answered(c)' <=> Answered(c))
  BY <1>0, <1>3 DEF AtWork, Answered
<1>9. Unread(m) BY <1>2 DEF Unread
<1>10. ASSUME NEW c \in BCoreCmds PROVE Unread(c)' => Unread(c)
  BY <1>0, <1>2, <1>6, CmdNames DEF Unread
<1>11. ASSUME NEW c \in BCoreCmds
       PROVE  InWork(c) => InWork(c)' \/ (c = "DECODE" /\ m = "DECODE_CLOSE")
  BY <1>0, <1>2, <1>6, <1>7, <1>11, CmdNames DEF InWork
<1>12. \A c \in BCoreCmds : InWork(c)' => InWork(c) BY <1>8, <1>10, InWorkIs
<1>13. \A c, d \in BCoreCmds : Last(c, d) => Last(c, d)'
  <2>1. SUFFICES ASSUME NEW c \in BCoreCmds, NEW d \in BCoreCmds, Last(c, d) PROVE Last(c, d)'
    OBVIOUS
  <2>2. a2b' # d BY <1>0, CmdNames
  <2> QED BY <1>8, <1>10, <1>12, <2>1, <2>2 DEF Last
<1>14. OrderInv' BY <1>1, <1>13, TokenNames DEF RunInv, OrderInv
<1>15. /\ \A c \in BCoreCmds : UnderWay(c)' => UnderWay(c)
       /\ \A c \in BCoreCmds : UnderWay(c) =>
            UnderWay(c)' \/ (c = "DECODE" /\ UnderWay("DECODE_CLOSE"))
  <2>1. UnderWay(m) BY <1>9, InWorkIs DEF UnderWay
  <2> QED BY <1>8, <1>11, <1>12, <2>1 DEF UnderWay
<1>16. HardwareInv' BY <1>0, <1>1, <1>3, <1>4, <1>8 DEF HardwareInv
<1>17. ans' # "old" /\ bpc' # "off" BY <1>0, <1>1 DEF RunInv
<1> QED BY <1>0, <1>5, <1>14, <1>15, <1>16, <1>17, MovesKeep

(* That of channel 2.                                                      *)
LEMMA FileServices ==
  ASSUME IInv, TodoInv, event' = None, MailBoxFileService
  PROVE  RunInv'
<1> USE DEF None
<1>0. /\ Running /\ bpc # "off" /\ ans # None /\ ans' = None /\ gFileOpStatus' = ans
      /\ gFileOpStatus \notin FileCmds
      /\ UNCHANGED <<control, sync, a2b, b2a, bpc, op, status, hw, fill>>
  BY DEF MailBoxFileService
<1>1. RunInv /\ HardwareInv /\ LinkOK /\ BCoreOK BY <1>0 DEF IInv, RunInv, TypeOK
<1>2. UNCHANGED <<waiting, sem, CurrentCodec, todo, isr>> BY <1>0 DEF control, player, sync
<1>3. Now' = Now BY <1>2, TodoStays
<1>4. \A c \in BCoreCmds : gFileOpStatus # c /\ gFileOpStatus' # c
  BY <1>0, <1>1, CmdNames DEF BCoreOK, LinkOK, Requests, RunInv
<1>5. \A c \in BCoreCmds : /\ AtWork(c)' <=> AtWork(c)
                           /\ Unread(c)' <=> Unread(c)
                           /\ Answered(c)' <=> Answered(c)
  BY <1>0, <1>2, <1>4 DEF AtWork, Unread, Answered
<1>6. OrderInv' /\ \A c \in BCoreCmds : UnderWay(c)' <=> UnderWay(c)
  BY <1>0, <1>1, <1>4, <1>5, Places DEF RunInv
<1>7. OpInv' BY <1>0, <1>1 DEF RunInv, OpInv
<1>8. HardwareInv' BY <1>0, <1>1, <1>2, <1>3, <1>5, TokenNames DEF HardwareInv
<1> QED BY <1>0, <1>6, <1>7, <1>8, MovesKeep

LEMMA StreamSteps ==
  ASSUME IInv, TodoInv, event' = None, StreamTake \/ StreamServe
  PROVE  RunInv'
<1> USE DEF None
<1> DEFINE Facts == TokenInv /\ PlayerInv /\ OffInv /\ ClosedInv /\ HardwareInv /\ AheadInv
<1>0. Running /\ UNCHANGED <<control, sync, a2b, b2a, bmain>> /\ (ans # "old" => ans' # "old")
  BY DEF StreamTake, StreamServe
<1>1. /\ UNCHANGED <<source, todo, AudioPlayState, AudioPlayerState, CurrentCodec>>
      /\ UNCHANGED <<block, gError, waiting, byShell, dma, sem, masked, isr, a2b, b2a, bpc, op,
                     status, gFileOpStatus, hw, fill>>
  BY <1>0 DEF control, player, sync, bmain
<1>2. RunInv /\ Facts BY <1>0 DEF IInv, RunInv
<1>3. Now' = Now BY TodoStays, <1>1
<1>4. /\ \A cmd : UnderWay(cmd)' <=> UnderWay(cmd)
      /\ \A cmd : Answered(cmd)' <=> Answered(cmd)
      /\ OpInv' /\ OrderInv'
  BY <1>1, <1>2, SamePlaces DEF RunInv
<1>5. AnswerIsComing' /\ TokenInv' BY <1>0, <1>1, <1>2, <1>3, <1>4 DEF AnswerIsComing, TokenInv, RunInv
<1>6. PlayerInv' /\ OffInv' BY <1>1, <1>2, <1>3 DEF PlayerInv, OffInv
<1>7. ClosedInv' BY <1>1, <1>2, <1>3, <1>4 DEF ClosedInv
<1>8. AwaitedInv' BY <1>1, <1>2, <1>4 DEF AwaitedInv, RunInv
<1>9. HardwareInv' BY <1>1, <1>2, <1>3, <1>4 DEF HardwareInv
<1>10. AheadInv' BY <1>0, <1>1, <1>2, <1>3, <1>4 DEF AheadInv, OneAhead
<1> QED BY <1>0, <1>2, <1>4, <1>5, <1>6, <1>7, <1>8, <1>9, <1>10 DEF RunInv

----------------------------------------------------------------------------
(* All steps together *)

LEMMA ControlTodo ==
  ASSUME TodoInv, ControlStep
  PROVE  TodoInv'
<1>1. CASE HWInit \/ CodecOpen \/ SetPlay \/ Stop \/ CodecClose \/ AudioWaitBBStop \/ ShutOff
           \/ Pause \/ Resume \/ FastForward \/ FFPause \/ CodecSeek \/ FFTake \/ FFResumed
           \/ GetNothing \/ Copied
  <2>1. PICK n : Step(n) /\ Done
    BY <1>1 DEF HWInit, CodecOpen, SetPlay, Stop, CodecClose, AudioWaitBBStop, ShutOff,
                Pause, Resume, FastForward, FFPause, CodecSeek, FFTake, FFResumed, GetNothing, Copied
  <2> QED BY <2>1, StepDone
<1>2. CASE FileOpen BY <1>2, StepDone, FileOpenTodo DEF FileOpen
<1>3. CASE Opened BY <1>3, StepDone, OpenedTodo DEF Opened
<1>4. CASE NoCodec BY <1>4, DoneTodo DEF NoCodec
<1>5. CASE GetEnd BY <1>5, GetEndTodo DEF GetEnd, Get
<1>6. CASE GetCopy BY <1>6, GetCopyTodo DEF GetCopy, Get
<1>7. CASE GetDecode \/ GetWait BY <1>7, TodoStays DEF GetDecode, GetWait, control
<1>8. CASE Receive \/ NextBuffer \/ AudioGetNextMusic
  BY <1>8, ReceiveTodo, NextBufferTodo, NextMusicTodo
<1> QED BY <1>1, <1>2, <1>3, <1>4, <1>5, <1>6, <1>7, <1>8 DEF ControlStep

LEMMA NextTodo ==
  ASSUME TodoInv, Next
  PROVE  TodoInv'
<1>1. ~ControlStep => UNCHANGED todo
  <2>1. MainStep => UNCHANGED todo
    BY DEF MainStep, Top, Idle, Wake, Case, Input, CodecRequest, CodecReturns, Waited, Answer,
           FillBuffer, Second, FileCase, Handshake, control
  <2> QED BY <2>1 DEF Next, Take, DmaDone, IsrRead, IsrClear, ShellSeek, MailBoxDecService,
                MailBoxFileService, StreamTake, StreamServe, control
<1> QED BY <1>1, ControlTodo, TodoStays

LEMMA InitInv == Init => IInv
<1>1. SUFFICES ASSUME Init PROVE IInv OBVIOUS
<1> USE <1>1 DEF None
<1>2. todo \in Seq(Steps) /\ Program(todo) /\ Now \in {None, "fileOpen"}
      /\ (Now = "fileOpen" => source = "file")
  <2>1. CASE source = "dlna"
    <3>1. todo = <<>> BY <2>1 DEF Init
    <3>2. Len(<<>>) = 0 OBVIOUS
    <3> QED BY <3>1, <3>2 DEF Program, Now
  <2>2. CASE source = "file"
    <3>1. todo = << "fileOpen" >> BY <2>2 DEF Init, AudioStart
    <3>2. Fits(<< "fileOpen" >>, "fileOpen") /\ Head(<< "fileOpen" >>) = "fileOpen"
      BY One DEF Steps
    <3>3. None \in Follow("fileOpen") BY DEF Follow
    <3>4. todo \in Seq(Steps) /\ todo # <<>> /\ Program(todo)
      BY <3>1, <3>2, <3>3, FitsProgram DEF Program
    <3> QED BY <2>2, <3>1, <3>2, <3>4 DEF Now
  <2> QED BY <2>1, <2>2 DEF Init
<1>3. ControlOK BY <1>2 DEF Init, ControlOK
<1>4. SyncOK BY DEF Init, SyncOK, Blocks
<1>5. BCoreOK /\ LinkOK BY DEF Init, BCoreOK, LinkOK
<1>6. /\ \A d \in BCoreCmds : ~UnderWay(d) /\ ~Answered(d)
      /\ OpInv /\ OrderInv
  <2>1. \A c \in BCoreCmds : ~Answered(c) BY DEF Init, Answered
  <2>2. \A c \in BCoreCmds : ~InWork(c) /\ ~AtWork(c)
    BY CmdNames DEF Init, InWork, AtWork
  <2>3. \A c, d \in BCoreCmds : Last(c, d) BY <2>1, <2>2, CmdNames DEF Init, Last
  <2>4. OpInv BY DEF Init, OpInv
  <2> QED BY <2>1, <2>2, <2>3, <2>4, TokenNames DEF UnderWay, OrderInv
<1>7. AnswerIsComing /\ TokenInv BY <1>2 DEF Init, AnswerIsComing, TokenInv
<1>8. PlayerInv /\ OffInv BY <1>2 DEF Init, PlayerInv, OffInv
<1>9. ClosedInv /\ AwaitedInv BY <1>6, TokenNames DEF ClosedInv, AwaitedInv
<1>10. HardwareInv BY <1>2, <1>6, TokenNames DEF Init, HardwareInv
<1>11. AheadInv BY <1>2 DEF Init, AheadInv, OneAhead
<1>12. ans # "old" BY DEF Init
<1> QED BY <1>2, <1>3, <1>4, <1>5, <1>6, <1>7, <1>8, <1>9, <1>10, <1>11, <1>12
        DEF IInv, RunInv, TypeOK

LEMMA StepInv ==
  ASSUME IInv, [Next]_vars
  PROVE  IInv'
<1>0. TodoInv BY DEF IInv, TodoInv, TypeOK, ControlOK
<1>1. CASE Next
  <2>1. TodoInv' BY <1>0, <1>1, NextTodo
  <2>2. TypeOK'
    <3>1. CASE ControlStep BY <2>1, <3>1, ControlTypes DEF IInv, TodoInv
    <3>2. CASE MainStep BY <3>2, MainTypes DEF IInv, RunInv
    <3>3. CASE \/ Take \/ DmaDone \/ IsrRead \/ IsrClear \/ ShellSeek
               \/ MailBoxDecService \/ MailBoxFileService \/ StreamTake \/ StreamServe
      BY <3>3, OtherTypes DEF IInv, RunInv
    <3> QED BY <1>1, <3>1, <3>2, <3>3 DEF Next
  <2>3. ASSUME Running' PROVE RunInv'
    <3>0. event' = None BY <2>3 DEF Running
    <3>1. CASE ControlStep
      BY <1>0, <3>0, <3>1, PlayerSteps, AwaitedSends, CopySends, CopyEnds, WaitBegins, Starts, Stops
      DEF ControlStep
    <3>2. CASE MainStep
      <4>1. Input => bpc \in {"fillFirst", "fillLast"} BY DEF Input, At
      <4>2. CASE Top BY <1>0, <3>0, <4>2, QuietSteps, BeginSteps
      <4>3. CASE Second BY <1>0, <3>0, <4>3, QuietSteps, BeginSteps
      <4>4. CASE Idle \/ Wake \/ FillBuffer BY <1>0, <3>0, <4>4, QuietSteps
      <4>5. CASE Input BY <1>0, <3>0, <4>1, <4>5, QuietSteps, CaseSteps
      <4>6. CASE Case BY <1>0, <3>0, <4>6, CaseSteps
      <4>9. CASE CodecRequest \/ CodecReturns \/ Waited BY <1>0, <3>0, <4>9, CaseSteps
      <4>7. CASE FileCase BY <1>0, <3>0, <4>7, FileCases
      <4>8. CASE Answer \/ Handshake BY <1>0, <3>0, <4>8, AnswerSteps
      <4> QED BY <3>2, <4>2, <4>3, <4>4, <4>5, <4>6, <4>7, <4>8, <4>9 DEF MainStep
    <3> QED
      BY <1>0, <1>1, <3>0, <3>1, <3>2, Takes, CopyDone, IsrReads, IsrClears, ShellSends,
         DecServices, FileServices, StreamSteps DEF Next
  <2> QED BY <2>1, <2>2, <2>3 DEF IInv, TodoInv
<1>2. CASE UNCHANGED vars
  <2>1. UNCHANGED <<source, todo, AudioPlayState, AudioPlayerState, CurrentCodec>>
        /\ UNCHANGED <<block, gError, waiting, byShell, dma, sem, masked, isr, a2b, b2a, bpc, op,
                       status, gFileOpStatus, gCmdDone, busy, hw, fill, req, serving, ans, event>>
    BY <1>2 DEF vars, control, player, sync, bmain, stream
  <2>2. TypeOK' BY <2>1 DEF IInv, TypeOK, ControlOK, SyncOK, BCoreOK, LinkOK
  <2>3. Program(todo)' BY <2>1 DEF IInv, Program
  <2>4. ASSUME Running' PROVE RunInv'
    <3>1. RunInv /\ Running BY <2>1, <2>4 DEF IInv, Running
    <3>2. Now' = Now BY <2>1 DEF Now
    <3>3. /\ \A cmd : UnderWay(cmd)' <=> UnderWay(cmd)
          /\ \A cmd : Answered(cmd)' <=> Answered(cmd)
          /\ OpInv' /\ OrderInv'
      BY <2>1, <3>1, SamePlaces DEF RunInv
    <3>4. ans' # "old" /\ AnswerIsComing' /\ AwaitedInv'
      BY <2>1, <3>1, <3>3 DEF RunInv, AnswerIsComing, AwaitedInv, Running
    <3>5. TokenInv' /\ PlayerInv' /\ OffInv'
      BY <2>1, <3>1, <3>2 DEF RunInv, TokenInv, PlayerInv, OffInv
    <3>6. ClosedInv' BY <2>1, <3>1, <3>2, <3>3 DEF RunInv, ClosedInv
    <3>7. HardwareInv' BY <2>1, <3>1, <3>2, <3>3 DEF RunInv, HardwareInv
    <3>8. AheadInv' BY <2>1, <3>1, <3>2, <3>3 DEF RunInv, AheadInv, OneAhead, Running
    <3> QED BY <3>3, <3>4, <3>5, <3>6, <3>7, <3>8 DEF RunInv
  <2> QED BY <2>2, <2>3, <2>4 DEF IInv
<1> QED BY <1>1, <1>2

----------------------------------------------------------------------------
(* IInv holds in every state of the two cores and the interrupts between   *)
(* them.                                                                   *)
THEOREM Invariant == Spec => []IInv
BY InitInv, StepInv, PTL DEF Spec

(* Every variable keeps its type, up to and including the step of a mishap *)
(* that ends the model.                                                    *)
THEOREM Types == Spec => []TypeOK
<1>1. IInv => TypeOK BY DEF IInv
<1> QED BY <1>1, Invariant, PTL

(* One semaphore, osAudioDecodeOk, serves every hand-shake and the copy by *)
(* DMA; whoever waits for it finds the token of its own answer only.       *)
THEOREM TokenIsOwn == Spec => []TokenMatches
<1>1. IInv => TokenMatches BY DEF IInv, RunInv, TokenInv, TokenMatches
<1> QED BY <1>1, Invariant, PTL

(* While the control task or the shell waits in rkos_semaphore_take, what  *)
(* gives the token is under way, and will give it: no answer was lost.     *)
THEOREM AnswerComes == Spec => []AnswerIsComing
<1>1. IInv => AnswerIsComing BY DEF IInv, RunInv, AnswerIsComing
<1> QED BY <1>1, Invariant, PTL

(* SUBFN_CODEC_GETBUFFER keeps one decode ahead at most, and Decoding      *)
(* tells it just whether one is under way.                                 *)
THEOREM DecodesOneAhead == Spec => []OneAhead
<1>1. IInv => OneAhead BY DEF IInv, RunInv, AheadInv, OneAhead
<1> QED BY <1>1, Invariant, PTL

(* A FILE_CLOSE_CMPL, which MailBoxDecService takes for the end of a file  *)
(* request, reaches the B core when no codec waits for one.                *)
THEOREM CloseIsAlone == Spec => []CloseFindsNoWaiter
<1>1. ASSUME IInv PROVE CloseFindsNoWaiter
  <2>1. SUFFICES ASSUME Running, a2b = "FILE_CLOSE_CMPL", bpc = "wait" PROVE FALSE
    BY DEF CloseFindsNoWaiter
  <2>2. RunInv BY <1>1, <2>1 DEF IInv
  <2>3. op \in (DecodeCmds \ {"DECODE_CLOSE"}) \cup {"FILE_OPEN_CMPL", "rawSeek"}
    BY <2>1, <2>2 DEF RunInv, OpInv
  <2>4. PICK c \in BCoreCmds : AtWork(c) /\ c # "FILE_CLOSE_CMPL"
    BY <2>1, <2>3, TokenNames DEF AtWork, BCoreCmds, DecodeCmds
  <2>5. UnderWay("FILE_CLOSE_CMPL") /\ UnderWay(c) BY <2>1, <2>4, InWorkIs DEF UnderWay, InWork
  <2>6. "FILE_CLOSE_CMPL" \in FileCmds BY DEF FileCmds
  <2>7. waiting = "FILE_CLOSE_CMPL" /\ ~UnderWay("DECODE")
    BY <2>2, <2>5, <2>6, TokenNames DEF RunInv, AwaitedInv, ClosedInv
  <2> QED BY <2>2, <2>4, <2>5, <2>7 DEF RunInv, AwaitedInv
<1> QED BY <1>1, Invariant, PTL

(* BcoreDev_ShutOff, at the end of AudioStop, finds the B core's hardware  *)
(* taken down, its main loop in no case and no answer unread.              *)
THEOREM ShutsOffAtRest == Spec => ShutOffAtRest
<1> DEFINE Rest == bpc # "off" /\ bpc' = "off" =>
                     /\ ~hw /\ b2a = None
                     /\ bpc \notin {"case", "fillFirst", "codec", "wait", "answer", "fillLast"}
<1>1. ASSUME IInv, [Next]_vars PROVE [Rest]_vars
  <2>0. TodoInv BY <1>1 DEF IInv, TodoInv, TypeOK, ControlOK
  <2>1. CASE ShutOff BY <1>1, <2>0, <2>1, AtRest
  <2>2. CASE Next /\ ~ShutOff
    <3>1. CASE ControlStep
      <4>1. bpc' = bpc \/ bpc' = "top"
        BY <2>2, <3>1 DEF ControlStep, Receive, NextBuffer, FileOpen, HWInit, BCore, CodecOpen, Opened,
             SetPlay, Stop, CodecClose, NoCodec, AudioWaitBBStop, AudioGetNextMusic, Pause, Resume,
             FastForward, FFPause, CodecSeek, FFTake, FFResumed, GetNothing, GetEnd, GetCopy, Copied,
             GetDecode, GetWait, cores, bmain
      <4> QED BY <4>1
    <3>2. CASE MainStep
      <4>1. bpc' # "off"
        BY <1>1, <3>2 DEF MainStep, Top, Idle, Wake, Case, Input, CodecRequest, CodecReturns, Waited, Answer,
             FillBuffer, Second, FileCase, Handshake, At, Go, After, IInv, RunInv, OpInv
      <4> QED BY <4>1
    <3>3. CASE ~ControlStep /\ ~MainStep
      BY <2>2, <3>3 DEF Next, Take, DmaDone, IsrRead, IsrClear, ShellSeek, MailBoxDecService,
                MailBoxFileService, StreamTake, StreamServe, cores, bmain
    <3> QED BY <3>1, <3>2, <3>3
  <2>3. CASE UNCHANGED vars BY <2>3
  <2> QED BY <1>1, <2>1, <2>2, <2>3
<1> QED BY <1>1, Invariant, PTL DEF Spec, ShutOffAtRest
=============================================================================
