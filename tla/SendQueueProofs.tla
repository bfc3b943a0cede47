-------------------------- MODULE SendQueueProofs --------------------------
(***************************************************************************)
(* What the outgoing queue guarantees for every set of chats and messages  *)
(* and every choice of its delays, and that it implements ChatOutbox.      *)
(***************************************************************************)
EXTENDS SendQueue, SequenceTheorems, TLAPS

-----------------------------------------------------------------------------
(* A message in hand, put before the backlog it was shifted off. *)

LEMMA InHandFirst ==
    ASSUME NEW m \in Messages, NEW q \in Seq(Messages)
    PROVE  /\ <<m>> \o q \in Seq(Messages)
           /\ <<m>> \o q # <<>>
           /\ Head(<<m>> \o q) = m
           /\ Tail(<<m>> \o q) = q
           /\ \A n \in Messages : Append(<<m>> \o q, n) = <<m>> \o Append(q, n)
<1>1. <<m>> \in Seq(Messages) /\ Len(<<m>>) = 1 /\ <<m>>[1] = m /\ <<m>> # <<>>
  OBVIOUS
<1> DEFINE s == <<m>> \o q
<1>2. /\ s \in Seq(Messages)
      /\ Len(s) = 1 + Len(q)
      /\ \A i \in 1 .. 1 + Len(q) : s[i] = IF i <= 1 THEN m ELSE q[i - 1]
  BY <1>1, ConcatProperties
<1>3. Len(q) \in Nat
  BY LenProperties
<1>4. s # <<>> /\ s[1] = m
  BY <1>2, <1>3, EmptySeq
<1> HIDE DEF s
<1>5. Head(s) = m
  BY <1>2, <1>4
<1>6. Tail(s) = q
  <2>1. Tail(s) \in Seq(Messages) /\ Len(Tail(s)) = Len(q)
        /\ \A i \in 1 .. Len(Tail(s)) : Tail(s)[i] = s[i + 1]
    BY <1>2, <1>3, <1>4, HeadTailProperties
  <2>2. \A i \in 1 .. Len(q) : Tail(s)[i] = q[i]
    BY <2>1, <1>2, <1>3
  <2>3. QED
    BY <2>1, <2>2, SeqEqual
<1>7. ASSUME NEW n \in Messages PROVE Append(s, n) = <<m>> \o Append(q, n)
  <2>1. Append(s, n) = s \o <<n>> /\ Append(q, n) = q \o <<n>> /\ <<n>> \in Seq(Messages)
    BY <1>2, AppendIsConcat
  <2>2. (<<m>> \o q) \o <<n>> = <<m>> \o (q \o <<n>>)
    BY <1>1, <2>1, ConcatAssociative
  <2>3. QED
    BY <2>1, <2>2 DEF s
<1>8. QED
  BY <1>2, <1>4, <1>5, <1>6, <1>7 DEF s

LEMMA HeadThenTail ==
    ASSUME NEW q \in Seq(Messages), q # <<>>
    PROVE  Head(q) \in Messages /\ Tail(q) \in Seq(Messages) /\ <<Head(q)>> \o Tail(q) = q
<1>1. /\ Head(q) \in Messages /\ Tail(q) \in Seq(Messages) /\ Len(Tail(q)) = Len(q) - 1
      /\ \A i \in 1 .. Len(Tail(q)) : Tail(q)[i] = q[i + 1]
  BY HeadTailProperties
<1>2. Len(q) \in Nat \ {0} /\ Head(q) = q[1]
  BY EmptySeq
<1> DEFINE s == <<Head(q)>> \o Tail(q)
<1>3. <<Head(q)>> \in Seq(Messages) /\ Len(<<Head(q)>>) = 1 /\ <<Head(q)>>[1] = Head(q)
  BY <1>1
<1>4. /\ s \in Seq(Messages) /\ Len(s) = 1 + Len(Tail(q))
      /\ \A i \in 1 .. 1 + Len(Tail(q)) :
            s[i] = IF i <= 1 THEN <<Head(q)>>[i] ELSE Tail(q)[i - 1]
  BY <1>1, <1>3, ConcatProperties
<1> HIDE DEF s
<1>5. Len(s) = Len(q) /\ \A i \in 1 .. Len(s) : s[i] = q[i]
  BY <1>1, <1>2, <1>3, <1>4
<1>6. s = q
  BY <1>4, <1>5, SeqEqual
<1>7. QED
  BY <1>1, <1>6 DEF s

-----------------------------------------------------------------------------
(* The stretches of a loop. *)

Holding == {"throttled", "cooling", "sending"}

(* After trackBurst a loop cools down or sends, and nothing else moved.    *)
LEMMA BurstCheckMoves ==
    ASSUME QueueTypeOK, NEW c \in Recipients, BurstCheck(c)
    PROVE  /\ \E p \in Holding : at' = [at EXCEPT ![c] = p]
           /\ timer' \in [Recipients -> Nat]
           /\ sinceSend' \in 0 .. GlobalMinDelay
           /\ burst' \in 0 .. BurstThreshold - 1
           /\ windowAge' \in 0 .. BurstWindow + 1
<1> DEFINE over == windowAge > BurstWindow
           count == (IF over THEN 0 ELSE burst) + 1
<1>1. count \in 1 .. BurstThreshold
  BY DelayAssumption DEF QueueTypeOK
<1>2. CASE count >= BurstThreshold
  <2>1. /\ burst' = 0 /\ windowAge' = 0 /\ Sleep(c, "cooling", BurstCooldown)
        /\ sinceSend' = sinceSend
    BY <1>2 DEF BurstCheck
  <2>2. QED
    BY <2>1, DelayAssumption DEF QueueTypeOK, Sleep, Holding
<1>3. CASE ~(count >= BurstThreshold)
  <2>1. /\ burst' = count /\ windowAge' = IF over THEN 0 ELSE windowAge
        /\ Sleep(c, "sending", 0) /\ sinceSend' = 0
    BY <1>3 DEF BurstCheck, Send
  <2>2. QED
    BY <2>1, <1>1, <1>3, DelayAssumption DEF QueueTypeOK, Sleep, Holding
<1>4. QED
  BY <1>2, <1>3

(* A loop that takes a message holds it.                                   *)
LEMMA TakeFromMoves ==
    ASSUME QueueTypeOK, NEW c \in Recipients, NEW backlog \in Seq(Messages), backlog # <<>>,
           TakeFrom(c, backlog)
    PROVE  /\ item' = [item EXCEPT ![c] = Head(backlog)]
           /\ queue' = [queue EXCEPT ![c] = Tail(backlog)]
           /\ Head(backlog) \in Messages /\ Tail(backlog) \in Seq(Messages)
           /\ \E p \in Holding : at' = [at EXCEPT ![c] = p]
           /\ timer' \in [Recipients -> Nat]
           /\ sinceSend' \in 0 .. GlobalMinDelay
           /\ burst' \in 0 .. BurstThreshold - 1
           /\ windowAge' \in 0 .. BurstWindow + 1
<1>1. Head(backlog) \in Messages /\ Tail(backlog) \in Seq(Messages)
  BY HeadThenTail
<1>2. CASE sinceSend < GlobalMinDelay
  <2>1. GlobalMinDelay - sinceSend \in Nat
    BY <1>2, DelayAssumption DEF QueueTypeOK
  <2>2. /\ Sleep(c, "throttled", GlobalMinDelay - sinceSend)
        /\ UNCHANGED <<sinceSend, burst, windowAge>>
    BY <1>2 DEF TakeFrom
  <2>3. QED
    BY <1>1, <2>1, <2>2 DEF TakeFrom, Sleep, Holding, QueueTypeOK
<1>3. CASE ~(sinceSend < GlobalMinDelay)
  BY <1>1, <1>3, BurstCheckMoves DEF TakeFrom
<1>4. QED
  BY <1>2, <1>3

-----------------------------------------------------------------------------
(***************************************************************************)
(* Type correctness and NobodyStranded are inductive together: a message   *)
(* in hand is a message because NobodyStranded says where it is held.      *)
(***************************************************************************)
Sound == QueueTypeOK /\ NobodyStranded

LEMMA FreshClocks ==
    /\ GlobalMinDelay \in 0 .. GlobalMinDelay
    /\ 0 \in 0 .. BurstThreshold - 1
    /\ BurstWindow + 1 \in 0 .. BurstWindow + 1
  BY DelayAssumption

LEMMA SoundInit == QueueInit => Sound
<1> SUFFICES ASSUME QueueInit PROVE QueueTypeOK /\ NobodyStranded
  BY DEF Sound
<1>1. <<>> \in Seq(Messages)
  BY EmptySeq
<1>2. QueueTypeOK
  BY <1>1, FreshClocks DEF QueueInit, QueueTypeOK, Places, Fates
<1>3. NobodyStranded
  BY DEF QueueInit, NobodyStranded
<1>4. QED
  BY <1>2, <1>3

(* Whatever stretch holds a message afterwards leaves the loop in order.   *)
LEMMA HoldingIsSound ==
    ASSUME Sound, NEW c \in Recipients, NEW m \in Messages, NEW q \in Seq(Messages),
           item' = [item EXCEPT ![c] = m], queue' = [queue EXCEPT ![c] = q],
           \E p \in Holding : at' = [at EXCEPT ![c] = p]
    PROVE  /\ item' \in [Recipients -> Messages \cup {None}]
           /\ queue' \in [Recipients -> Seq(Messages)]
           /\ at' \in [Recipients -> Places]
           /\ NobodyStranded'
<1> PICK p \in Holding : at' = [at EXCEPT ![c] = p]
  OBVIOUS
<1>1. /\ item' \in [Recipients -> Messages \cup {None}]
      /\ queue' \in [Recipients -> Seq(Messages)]
      /\ at' \in [Recipients -> Places]
  BY DEF Sound, QueueTypeOK, Holding, Places
<1>2. ASSUME NEW d \in Recipients
      PROVE  /\ queue'[d] # <<>> => at'[d] # "idle"
             /\ item'[d] # None <=> at'[d] \in {"throttled", "cooling", "sending"}
             /\ at'[d] = "gap" => queue'[d] # <<>>
  <2>1. CASE d = c
    BY <2>1, NoneAssumption DEF Sound, QueueTypeOK, Holding
  <2>2. CASE d # c
    BY <2>2 DEF Sound, QueueTypeOK, NobodyStranded
  <2>3. QED
    BY <2>1, <2>2
<1>3. QED
  BY <1>1, <1>2 DEF NobodyStranded

LEMMA SoundStep == Sound /\ [QueueNext]_queueVars => Sound'
<1> SUFFICES ASSUME Sound, [QueueNext]_queueVars PROVE Sound'
  OBVIOUS
<1>0. QueueTypeOK /\ NobodyStranded
  BY DEF Sound
<1>1. ASSUME NEW c \in Recipients, NEW m \in Messages, QueuedSendMessage(c, m) PROVE Sound'
  <2>1. clientReady' \in BOOLEAN /\ fate' \in [Messages -> Fates]
    BY <1>0, <1>1 DEF QueuedSendMessage, QueueTypeOK, Fates
  <2>2. Append(queue[c], m) \in Seq(Messages) /\ Append(queue[c], m) # <<>>
    BY <1>0, AppendProperties DEF QueueTypeOK
  <2>3. CASE at[c] = "idle"
    <3> DEFINE b == Append(queue[c], m)
    <3>1. TakeFrom(c, b)
      BY <1>1, <2>3 DEF QueuedSendMessage
    <3> HIDE DEF b
    <3>2. b \in Seq(Messages) /\ b # <<>>
      BY <2>2 DEF b
    <3>3. QED
      BY <1>0, <2>1, <3>1, <3>2, TakeFromMoves, HoldingIsSound DEF Sound, QueueTypeOK
  <2>4. CASE at[c] # "idle"
    <3>1. queue' = [queue EXCEPT ![c] = Append(queue[c], m)]
          /\ UNCHANGED <<at, item, timer, sinceSend, burst, windowAge>>
      BY <1>1, <2>4 DEF QueuedSendMessage
    <3>2. QueueTypeOK'
      BY <1>0, <2>1, <2>2, <3>1 DEF QueueTypeOK
    <3>3. NobodyStranded'
      BY <1>0, <2>2, <2>4, <3>1 DEF QueueTypeOK, NobodyStranded
    <3>4. QED
      BY <3>2, <3>3 DEF Sound
  <2>5. QED
    BY <2>3, <2>4
<1>2. ASSUME NEW c \in Recipients, ThrottleOver(c) PROVE Sound'
  <2>1. BurstCheck(c) /\ at[c] = "throttled" /\ UNCHANGED <<clientReady, queue, item, fate>>
    BY <1>2 DEF ThrottleOver, Awake
  <2>2. \E p \in Holding : at' = [at EXCEPT ![c] = p]
    BY <1>0, <2>1, BurstCheckMoves
  <2>3. QueueTypeOK'
    BY <1>0, <2>1, <2>2, BurstCheckMoves DEF QueueTypeOK, Holding, Places
  <2>4. NobodyStranded'
    BY <1>0, <2>1, <2>2 DEF QueueTypeOK, NobodyStranded, Holding
  <2>5. QED
    BY <2>3, <2>4 DEF Sound
<1>3. ASSUME NEW c \in Recipients, CooldownOver(c) PROVE Sound'
  <2>1. QueueTypeOK'
    BY <1>0, <1>3, DelayAssumption DEF CooldownOver, Awake, Send, Sleep, QueueTypeOK, Places
  <2>2. NobodyStranded'
    BY <1>0, <1>3 DEF CooldownOver, Awake, Send, Sleep, QueueTypeOK, NobodyStranded
  <2>3. QED
    BY <2>1, <2>2 DEF Sound
<1>4. ASSUME NEW c \in Recipients, GapOver(c) PROVE Sound'
  <2>1. TakeFrom(c, queue[c]) /\ queue[c] # <<>> /\ queue[c] \in Seq(Messages)
        /\ UNCHANGED <<clientReady, fate>>
    BY <1>0, <1>4 DEF GapOver, Awake, QueueTypeOK, NobodyStranded
  <2>2. QED
    BY <1>0, <2>1, TakeFromMoves, HoldingIsSound DEF Sound, QueueTypeOK
<1>5. ASSUME NEW c \in Recipients, NEW how \in {"resolved", "rejected"}, Answered(c, how)
      PROVE  Sound'
  <2>1. item[c] \in Messages /\ at[c] = "sending"
    BY <1>0, <1>5 DEF Answered, QueueTypeOK, NobodyStranded
  <2>2. PICK p \in {"idle", "gap"} :
           /\ at' = [at EXCEPT ![c] = p]
           /\ p = "gap" <=> queue[c] # <<>>
           /\ timer' \in [Recipients -> Nat]
    <3>1. CASE queue[c] = <<>>
      BY <1>0, <1>5, <3>1 DEF Answered, Sleep, QueueTypeOK
    <3>2. CASE queue[c] # <<>>
      <4>1. PICK t \in GapMin .. GapMax : Sleep(c, "gap", t)
        BY <1>5, <3>2 DEF Answered
      <4>2. t \in Nat
        BY DelayAssumption
      <4>3. QED
        BY <1>0, <3>2, <4>1, <4>2 DEF Sleep, QueueTypeOK
    <3>3. QED
      BY <3>1, <3>2
  <2>3. QueueTypeOK'
    BY <1>0, <1>5, <2>1, <2>2 DEF Answered, QueueTypeOK, Places, Fates
  <2>4. NobodyStranded'
    BY <1>0, <1>5, <2>2 DEF Answered, QueueTypeOK, NobodyStranded
  <2>5. QED
    BY <2>3, <2>4 DEF Sound
<1>6. CASE InitSendQueue
  BY <1>6 DEF InitSendQueue, Sound, QueueTypeOK, NobodyStranded
<1>7. CASE QueueRestart
  <2>1. <<>> \in Seq(Messages)
    BY EmptySeq
  <2>2. QueueTypeOK'
    BY <1>0, <1>7, <2>1, FreshClocks DEF QueueRestart, QueueTypeOK, Places, Fates
  <2>3. NobodyStranded'
    BY <1>7 DEF QueueRestart, NobodyStranded
  <2>4. QED
    BY <2>2, <2>3 DEF Sound
<1>8. CASE Tick
  <2>1. QueueTypeOK'
    BY <1>0, <1>8, DelayAssumption DEF Tick, Older, QueueTypeOK
  <2>2. NobodyStranded'
    BY <1>0, <1>8 DEF Tick, NobodyStranded
  <2>3. QED
    BY <2>1, <2>2 DEF Sound
<1>9. CASE UNCHANGED queueVars
  BY <1>9 DEF queueVars, Sound, QueueTypeOK, NobodyStranded
<1>10. QED
  BY <1>1, <1>2, <1>3, <1>4, <1>5, <1>6, <1>7, <1>8, <1>9 DEF QueueNext, Loop

LEMMA SoundInvariant == QueueSpec => []Sound
  BY SoundInit, SoundStep, PTL DEF QueueSpec

(* Type correctness of the queue (send-queue.ts:7-29).                     *)
THEOREM QueueTypeCorrect == QueueSpec => []QueueTypeOK
<1>1. Sound => QueueTypeOK
  BY DEF Sound
<1>2. QED
  BY <1>1, SoundInvariant, PTL

(* No message is left behind as a loop ends (send-queue.ts:83-90).         *)
THEOREM NobodyIsStranded == QueueSpec => []NobodyStranded
<1>1. Sound => NobodyStranded
  BY DEF Sound
<1>2. QED
  BY <1>1, SoundInvariant, PTL

-----------------------------------------------------------------------------
(***************************************************************************)
(* The refinement.  Line is the message in hand, if any, before the        *)
(* backlog: starting a loop and taking from the backlog leave it as it is, *)
(* a call appends to it and an answer takes its head away.                 *)
(***************************************************************************)
LEMMA LineIs ==
    ASSUME Sound, NEW c \in Recipients
    PROVE  /\ queue[c] \in Seq(Messages)
           /\ item[c] = None => Line[c] = queue[c]
           /\ item[c] # None => item[c] \in Messages /\ Line[c] = <<item[c]>> \o queue[c]
           /\ at[c] = "idle" => item[c] = None /\ queue[c] = <<>>
<1>1. queue[c] \in Seq(Messages)
  BY DEF Sound, QueueTypeOK
<1>2. <<>> \o queue[c] = queue[c]
  BY <1>1, ConcatEmptySeq
<1>3. QED
  BY <1>1, <1>2 DEF Sound, QueueTypeOK, NobodyStranded, Line

(* A line is untouched where hand and backlog are.                         *)
LEMMA OtherLines ==
    ASSUME Sound, NEW c \in Recipients,
           \A d \in Recipients \ {c} : item'[d] = item[d] /\ queue'[d] = queue[d]
    PROVE  Line' = [Line EXCEPT ![c] = Line'[c]]
  BY DEF Line

LEMMA AcceptStep ==
    ASSUME Sound, NEW c \in Recipients, NEW m \in Messages, QueuedSendMessage(c, m)
    PROVE  Outbox!Accept(c, m)
<1>0. /\ queue \in [Recipients -> Seq(Messages)] /\ item \in [Recipients -> Messages \cup {None}]
      /\ QueueTypeOK
  BY DEF Sound, QueueTypeOK
<1>1. fate[m] = "unsent" /\ fate' = [fate EXCEPT ![m] = "waiting"]
  BY DEF QueuedSendMessage
<1>2. Line'[c] = Append(Line[c], m) /\ Line' = [Line EXCEPT ![c] = Line'[c]]
  <2>1. CASE at[c] = "idle"
    <3> DEFINE b == Append(queue[c], m)
    <3>1. Line[c] = <<>> /\ queue[c] = <<>>
      BY <2>1, LineIs
    <3>2. b \in Seq(Messages) /\ b # <<>> /\ TakeFrom(c, b)
      BY <1>0, <2>1, AppendProperties DEF QueuedSendMessage
    <3>3. <<Head(b)>> \o Tail(b) = b /\ Head(b) \in Messages
      BY <3>2, HeadThenTail
    <3>4. b = Append(Line[c], m)
      BY <3>1
    <3> HIDE DEF b
    <3>5. item' = [item EXCEPT ![c] = Head(b)] /\ queue' = [queue EXCEPT ![c] = Tail(b)]
      BY <1>0, <3>2, TakeFromMoves
    <3>6. item'[c] # None /\ item'[c] = Head(b) /\ queue'[c] = Tail(b)
      BY <1>0, <3>3, <3>5, NoneAssumption
    <3>7. Line'[c] = <<Head(b)>> \o Tail(b)
      BY <3>6 DEF Line
    <3>8. QED
      BY <3>3, <3>4, <3>5, <3>7, <1>0, OtherLines
  <2>2. CASE at[c] # "idle"
    <3>1. item' = item /\ queue' = [queue EXCEPT ![c] = Append(queue[c], m)]
      BY <2>2 DEF QueuedSendMessage
    <3>2. queue'[c] = Append(queue[c], m) /\ queue'[c] \in Seq(Messages)
      BY <1>0, <3>1, AppendProperties
    <3>3. CASE item[c] = None
      <4>1. Line'[c] = <<>> \o queue'[c]
        BY <3>1, <3>3 DEF Line
      <4>2. Line'[c] = queue'[c]
        BY <4>1, <3>2, ConcatEmptySeq
      <4>3. QED
        BY <4>2, <3>1, <3>2, <3>3, <1>0, LineIs, OtherLines
    <3>4. CASE item[c] # None
      <4>1. Line'[c] = <<item[c]>> \o Append(queue[c], m)
        BY <3>1, <3>2, <3>4 DEF Line
      <4>2. Append(<<item[c]>> \o queue[c], m) = <<item[c]>> \o Append(queue[c], m)
        BY <3>4, LineIs, InHandFirst
      <4>3. QED
        BY <4>1, <4>2, <3>1, <3>4, <1>0, LineIs, OtherLines
    <3>5. QED
      BY <3>3, <3>4
  <2>3. QED
    BY <2>1, <2>2
<1>3. QED
  BY <1>1, <1>2 DEF Outbox!Accept

LEMMA AnswerStep ==
    ASSUME Sound, NEW c \in Recipients, NEW how \in {"resolved", "rejected"}, Answered(c, how)
    PROVE  Outbox!Answer(c)
<1>0. queue \in [Recipients -> Seq(Messages)] /\ item \in [Recipients -> Messages \cup {None}]
  BY DEF Sound, QueueTypeOK
<1>1. /\ item[c] \in Messages /\ item[c] # None
      /\ fate' = [fate EXCEPT ![item[c]] = how]
      /\ item' = [item EXCEPT ![c] = None] /\ queue' = queue
  BY <1>0 DEF Answered, Sound, NobodyStranded
<1>2. Line[c] # <<>> /\ Head(Line[c]) = item[c] /\ Tail(Line[c]) = queue[c]
  <2>1. Line[c] = <<item[c]>> \o queue[c] /\ queue[c] \in Seq(Messages)
    BY <1>1, LineIs
  <2>2. /\ <<item[c]>> \o queue[c] # <<>>
        /\ Head(<<item[c]>> \o queue[c]) = item[c]
        /\ Tail(<<item[c]>> \o queue[c]) = queue[c]
    BY <1>1, <2>1, InHandFirst
  <2>3. QED
    BY <2>1, <2>2
<1>3. Line'[c] = queue[c]
  <2>1. Line'[c] = <<>> \o queue[c]
    BY <1>0, <1>1 DEF Line
  <2>2. QED
    BY <1>0, <2>1, ConcatEmptySeq
<1>4. Line' = [Line EXCEPT ![c] = Tail(Line[c])]
  BY <1>0, <1>1, <1>2, <1>3, OtherLines
<1>5. fate' = [fate EXCEPT ![Head(Line[c])] = how]
  BY <1>1, <1>2
<1>6. QED
  BY <1>2, <1>4, <1>5 DEF Outbox!Answer

LEMMA LoopStep ==
    ASSUME Sound, NEW c \in Recipients, Loop(c)
    PROVE  UNCHANGED Outbox!vars
<1>0. /\ queue \in [Recipients -> Seq(Messages)] /\ item \in [Recipients -> Messages \cup {None}]
      /\ QueueTypeOK
  BY DEF Sound, QueueTypeOK
<1>1. CASE ThrottleOver(c) \/ CooldownOver(c)
  BY <1>1 DEF ThrottleOver, CooldownOver, Line, Outbox!vars
<1>2. CASE GapOver(c)
  <2>1. /\ TakeFrom(c, queue[c]) /\ queue[c] # <<>> /\ queue[c] \in Seq(Messages)
        /\ item[c] = None /\ fate' = fate
    BY <1>0, <1>2 DEF GapOver, Awake, Sound, NobodyStranded
  <2>2. /\ item' = [item EXCEPT ![c] = Head(queue[c])]
        /\ queue' = [queue EXCEPT ![c] = Tail(queue[c])]
        /\ Head(queue[c]) \in Messages
    BY <1>0, <2>1, TakeFromMoves
  <2>3. Line'[c] = <<Head(queue[c])>> \o Tail(queue[c])
    BY <1>0, <2>2, NoneAssumption DEF Line
  <2>4. Line'[c] = Line[c]
    BY <2>1, <2>3, LineIs, HeadThenTail
  <2>5. Line' = [Line EXCEPT ![c] = Line'[c]]
    BY <1>0, <2>2, OtherLines
  <2>6. Line' = Line
    BY <2>4, <2>5 DEF Line
  <2>7. QED
    BY <2>1, <2>6 DEF Outbox!vars
<1>3. QED
  BY <1>1, <1>2 DEF Loop

(* The queue is a line per chat to its callers: first come, first served,  *)
(* each message answered once (send-queue.ts:54-109).                      *)
THEOREM QueueIsAnOutbox == QueueSpec => Outbox!Spec
<1>1. QueueInit => Outbox!Init
  <2> SUFFICES ASSUME QueueInit PROVE Outbox!Init
    OBVIOUS
  <2>1. <<>> \in Seq(Messages)
    BY EmptySeq
  <2>2. <<>> \o <<>> = <<>>
    BY <2>1, ConcatEmptySeq
  <2>3. QED
    BY <2>2 DEF QueueInit, Outbox!Init, Line
<1>2. Sound /\ [QueueNext]_queueVars => [Outbox!Next]_(Outbox!vars)
  <2> SUFFICES ASSUME Sound, [QueueNext]_queueVars PROVE Outbox!Next \/ UNCHANGED Outbox!vars
    OBVIOUS
  <2>1. ASSUME NEW c \in Recipients, NEW m \in Messages, QueuedSendMessage(c, m)
        PROVE  Outbox!Next
    BY <2>1, AcceptStep DEF Outbox!Next
  <2>2. ASSUME NEW c \in Recipients, NEW how \in {"resolved", "rejected"}, Answered(c, how)
        PROVE  Outbox!Next
    BY <2>2, AnswerStep DEF Outbox!Next
  <2>3. ASSUME NEW c \in Recipients, Loop(c) PROVE UNCHANGED Outbox!vars
    BY <2>3, LoopStep
  <2>4. CASE InitSendQueue
    BY <2>4 DEF InitSendQueue, Line, Outbox!vars
  <2>5. CASE QueueRestart
    <3>1. <<>> \o <<>> = <<>>
      <4>1. <<>> \in Seq(Messages)
        BY EmptySeq
      <4>2. QED
        BY <4>1, ConcatEmptySeq
    <3>2. Line' = [c \in Recipients |-> <<>>]
      BY <2>5, <3>1 DEF QueueRestart, Line
    <3>3. QED
      BY <2>5, <3>2 DEF QueueRestart, Outbox!Next, Outbox!Die
  <2>6. CASE Tick
    BY <2>6 DEF Tick, Line, Outbox!vars
  <2>7. CASE UNCHANGED queueVars
    BY <2>7 DEF queueVars, Line, Outbox!vars
  <2>8. QED
    BY <2>1, <2>2, <2>3, <2>4, <2>5, <2>6, <2>7 DEF QueueNext
<1>3. QED
  BY <1>1, <1>2, SoundInvariant, PTL DEF QueueSpec, Outbox!Spec
=============================================================================
