------------------------------ MODULE ChatProofs ------------------------------
(***************************************************************************)
(* What holds of a chat's work for every number of messages, turns,        *)
(* clients, implementations, steps and deaths: the turns that answer, the  *)
(* connection they arrive by, and the capabilities and plans they start.   *)
(***************************************************************************)
EXTENDS ReplyTurns, Connection, Capabilities, Plans, SequenceLemmas

-----------------------------------------------------------------------------
(* Turns *)

Stands == {"none", "asking", "calling", "retrying", "recalling"}
Loops == [at : Stands, rounds : Int, offered : BOOLEAN,
          used : BOOLEAN, acted : BOOLEAN, retried : BOOLEAN]

(* What is invariable of the turn of m: its loop runs only while the turn  *)
(* waits or has given up, a claim about to be sent is settled, a tool used *)
(* has acted, and a second attempt follows on the guard's word.            *)
Justified(m, l) == l.acted \/ l.retried \/ ~l.offered \/ m \in Marked

Consistent(m, at, l, text, late) ==
    /\ l.at # "none" => at = "thinking" \/ late
    /\ text = "claim" => at \in {"reacting", "answering"} /\ l.at = "none" /\ Justified(m, l)
    /\ l.used => l.acted
    /\ l.at \in {"retrying", "recalling"} => l.retried

Ended == {"done", "lost"}

(* A message of a batch is not seen before the one before it has ended.    *)
InTurn(m, n) == turn[m] \in Ended \/ turn[n] = "unseen"

TurnInv ==
    /\ DOMAIN turn = Inbound /\ DOMAIN reply = Inbound
    /\ loop \in [Inbound -> Loops]
    /\ \A m \in Inbound : Consistent(m, turn[m], loop[m], reply[m], m \in gaveUp)
    /\ \A m \in Inbound : \A n \in NextOfBatch(m) : InTurn(m, n)

LEMMA NoLoopIsALoop ==
    NoLoop \in Loops /\ NoLoop.at = "none" /\ ~NoLoop.used /\ ~NoLoop.offered
  BY DEF NoLoop, Loops, Stands

(* What a step sets in a loop leaves it one.                               *)
LEMMA OfferedIsALoop ==
    ASSUME NEW l \in Loops, NEW at \in Stands, NEW offered \in BOOLEAN
    PROVE  [l EXCEPT !.at = at, !.offered = offered] \in Loops
  BY DEF Loops

LEMMA CountedIsALoop ==
    ASSUME NEW l \in Loops, NEW at \in Stands, NEW rounds \in Int
    PROVE  [l EXCEPT !.at = at, !.rounds = rounds] \in Loops
  BY DEF Loops

LEMMA ReturnedIsALoop ==
    ASSUME NEW l \in Loops, NEW at \in Stands, NEW used \in BOOLEAN
    PROVE  [l EXCEPT !.at = at, !.used = used, !.acted = TRUE] \in Loops
  BY DEF Loops

LEMMA RetriedIsALoop ==
    ASSUME NEW l \in Loops, NEW at \in Stands, NEW rounds \in Int
    PROVE  [l EXCEPT !.at = at, !.rounds = rounds, !.retried = TRUE] \in Loops
  BY DEF Loops

LEMMA TurnInvInit == ReplyTurnsInit => TurnInv
<1> SUFFICES ASSUME ReplyTurnsInit PROVE TurnInv
  OBVIOUS
<1>1. /\ DOMAIN turn = Inbound /\ DOMAIN reply = Inbound
      /\ loop \in [Inbound -> Loops]
  BY NoLoopIsALoop DEF ReplyTurnsInit
<1>2. ASSUME NEW m \in Inbound PROVE Consistent(m, turn[m], loop[m], reply[m], m \in gaveUp)
  BY NoLoopIsALoop DEF ReplyTurnsInit, Consistent
<1>3. ASSUME NEW m \in Inbound, NEW n \in NextOfBatch(m) PROVE InTurn(m, n)
  BY DEF ReplyTurnsInit, InTurn, NextOfBatch, RestOfBatch
<1>4. QED
  BY <1>1, <1>2, <1>3 DEF TurnInv

(* All but the turn of m keep their loops and texts, and m keeps the types.*)
OthersKeep(m) ==
    /\ DOMAIN reply' = Inbound /\ loop' \in [Inbound -> Loops]
    /\ \A n \in Inbound \ {m} : /\ loop'[n] = loop[n] /\ reply'[n] = reply[n]
                                /\ n \in gaveUp' <=> n \in gaveUp

(* A step of the turn of m alone, which was under way or begins its batch, *)
(* is a matter of m.                                                       *)
LEMMA OwnStep ==
    ASSUME TurnInv, NEW m \in Inbound, OthersKeep(m),
           turn[m] # turn'[m] =>
             turn[m] \notin Ended /\ (turn[m] = "unseen" => FirstOfBatch(m)),
           DOMAIN turn' = Inbound, \A n \in Inbound \ {m} : turn'[n] = turn[n],
           Consistent(m, turn'[m], loop'[m], reply'[m], m \in gaveUp')
    PROVE  TurnInv'
<1>2. ASSUME NEW n \in Inbound
      PROVE  Consistent(n, turn'[n], loop'[n], reply'[n], n \in gaveUp')
  <2>1. CASE n = m
    BY <2>1
  <2>2. CASE n # m
    <3>1. Consistent(n, turn[n], loop[n], reply[n], n \in gaveUp)
      BY DEF TurnInv
    <3>2. QED
      BY <2>2, <3>1 DEF Consistent, OthersKeep
  <2>3. QED
    BY <2>1, <2>2
<1>3. ASSUME NEW n \in Inbound, NEW o \in NextOfBatch(n) PROVE InTurn(n, o)'
  <2>1. InTurn(n, o) /\ o \in Inbound /\ n < o /\ BatchOf[n] = BatchOf[o]
    BY DEF TurnInv, NextOfBatch, RestOfBatch, Inbound
  <2>2. ~FirstOfBatch(o)
    BY <2>1 DEF FirstOfBatch
  <2>3. QED
    BY <2>1, <2>2 DEF InTurn
<1>4. QED
  BY <1>2, <1>3 DEF TurnInv, NextOfBatch, RestOfBatch, OthersKeep

(* Nor does it touch another turn when the handler of m settles, except    *)
(* that the next of its batch, unseen till now, arrives.                   *)
LEMMA SettlingStep ==
    ASSUME TurnInv, NEW m \in Inbound, OthersKeep(m),
           turn[m] \notin Ended \cup {"unseen"},
           Settles(m),
           Consistent(m, "done", loop'[m], reply'[m], m \in gaveUp')
    PROVE  TurnInv'
<1>1. turn' = [n \in Inbound |-> IF n = m THEN "done"
                                 ELSE IF n \in NextOfBatch(m) THEN "arriving" ELSE turn[n]]
  BY DEF Settles
<1>2. DOMAIN turn' = Inbound /\ turn'[m] = "done"
  BY <1>1
<1>3. \A n \in NextOfBatch(m) : n # m /\ n \in Inbound /\ turn[n] = "unseen"
  BY DEF TurnInv, InTurn, NextOfBatch, RestOfBatch, Inbound
<1>4. ASSUME NEW n \in Inbound
      PROVE  Consistent(n, turn'[n], loop'[n], reply'[n], n \in gaveUp')
  <2>1. CASE n = m
    BY <1>2, <2>1
  <2>2. CASE n # m
    <3>1. Consistent(n, turn[n], loop[n], reply[n], n \in gaveUp)
      BY DEF TurnInv
    <3>2. \/ turn'[n] = turn[n]
          \/ turn[n] = "unseen" /\ turn'[n] = "arriving"
      BY <1>1, <1>3, <2>2
    <3>3. QED
      BY <2>2, <3>1, <3>2 DEF Consistent, OthersKeep
  <2>3. QED
    BY <2>1, <2>2
<1>5. ASSUME NEW n \in Inbound, NEW o \in NextOfBatch(n) PROVE InTurn(n, o)'
  <2>1. InTurn(n, o) /\ o \in Inbound /\ o = n + 1
    BY DEF TurnInv, NextOfBatch, RestOfBatch
  <2>2. CASE n = m
    BY <1>2, <2>2 DEF InTurn, Ended
  <2>3. CASE n # m /\ n \in NextOfBatch(m)
    <3>1. turn[n] = "unseen" /\ n = m + 1
      BY <1>3, <2>3 DEF NextOfBatch
    <3>2. turn[o] = "unseen" /\ o # m /\ o \notin NextOfBatch(m)
      BY <2>1, <3>1 DEF InTurn, Ended, NextOfBatch, Inbound
    <3>3. QED
      BY <1>1, <2>1, <3>2 DEF InTurn
  <2>4. CASE n # m /\ n \notin NextOfBatch(m)
    <3>1. turn'[n] = turn[n]
      BY <1>1, <2>4
    <3>2. CASE turn[n] \in Ended
      BY <3>1, <3>2 DEF InTurn
    <3>3. CASE turn[n] \notin Ended
      <4>1. turn[o] = "unseen"
        BY <2>1, <3>3 DEF InTurn
      <4>2. o \notin NextOfBatch(m)
        BY <2>1, <2>4 DEF NextOfBatch, Inbound
      <4>3. QED
        BY <1>1, <2>1, <4>1, <4>2 DEF InTurn, Ended
    <3>4. QED
      BY <3>2, <3>3
  <2>5. QED
    BY <2>2, <2>3, <2>4
<1>6. QED
  BY <1>2, <1>4, <1>5 DEF TurnInv, NextOfBatch, RestOfBatch, OthersKeep

(* An unhandled rejection loses all that was under way and its batches.    *)
LEMMA RejectingStep == ASSUME TurnInv, Rejects PROVE TurnInv'
<1>1. /\ DOMAIN turn' = Inbound /\ DOMAIN reply' = Inbound /\ loop' \in [Inbound -> Loops]
      /\ \A m \in Inbound : loop'[m] = NoLoop /\ reply'[m] = "none"
  BY NoLoopIsALoop DEF Rejects
<1>2. \A m \in Inbound : Consistent(m, turn'[m], loop'[m], reply'[m], m \in gaveUp')
  BY <1>1, NoLoopIsALoop DEF Consistent
<1>3. ASSUME NEW m \in Inbound, NEW n \in NextOfBatch(m) PROVE InTurn(m, n)'
  <2>1. /\ InTurn(m, n) /\ n \in Inbound /\ m \in Int
        /\ n = m + 1 /\ BatchOf[n] = BatchOf[m]
    BY DEF TurnInv, NextOfBatch, RestOfBatch, Inbound
  <2>2. SUFFICES ASSUME turn'[m] \notin Ended PROVE turn'[n] = "unseen"
    BY DEF InTurn
  <2>3. /\ turn'[m] = turn[m] /\ ~Underway(m)
        /\ ~\E k \in Inbound : Underway(k) /\ m \in RestOfBatch(k)
    BY <2>2 DEF Rejects, Ended
  <2>4. turn[m] = "unseen" /\ turn[n] = "unseen"
    BY <2>1, <2>2, <2>3 DEF Underway, InTurn, Ended
  <2>5. ASSUME NEW k \in Inbound, Underway(k), n \in RestOfBatch(k) PROVE FALSE
    <3>1. k < n /\ BatchOf[k] = BatchOf[n] /\ k \in Int
      BY <2>5 DEF RestOfBatch, Inbound
    <3>2. k # m
      BY <2>3, <2>5
    <3>3. m \in RestOfBatch(k)
      BY <2>1, <3>1, <3>2 DEF RestOfBatch
    <3>4. QED
      BY <2>3, <2>5, <3>3
  <2>6. QED
    BY <2>1, <2>4, <2>5 DEF Rejects, Underway
<1>4. QED
  BY <1>1, <1>2, <1>3 DEF TurnInv, NextOfBatch, RestOfBatch

---------------------------------------------------------------------------
(* The steps *)

(* Before its model is asked a turn has nothing to say.                    *)
LEMMA BeforeTheModel ==
    ASSUME TurnInv, NEW m \in Inbound,
           turn[m] \in {"unseen", "arriving", "queued", "opening", "refusing", "replying", "pdf"},
           turn[m] = "unseen" => FirstOfBatch(m),
           NEW at, turn' = [turn EXCEPT ![m] = at], UNCHANGED <<loop, reply, gaveUp>>
    PROVE  TurnInv'
<1>1. OthersKeep(m)
  BY DEF OthersKeep, TurnInv
<1>2. Consistent(m, turn[m], loop[m], reply[m], m \in gaveUp)
  BY DEF TurnInv
<1>3. Consistent(m, turn'[m], loop'[m], reply'[m], m \in gaveUp')
  BY <1>2 DEF Consistent
<1>4. DOMAIN turn' = Inbound /\ \A n \in Inbound \ {m} : turn'[n] = turn[n]
  BY DEF TurnInv
<1>5. QED
  BY <1>1, <1>3, <1>4, OwnStep DEF Ended

(* Nor has one that settles without having asked it.                       *)
LEMMA SettlesUnasked ==
    ASSUME TurnInv, NEW m \in Inbound, Settles(m), UNCHANGED <<loop, reply, gaveUp>>,
           turn[m] \in {"opening", "refusing", "replying", "pdf", "apologising"}
    PROVE  TurnInv'
<1>1. OthersKeep(m)
  BY DEF OthersKeep, TurnInv
<1>2. Consistent(m, turn[m], loop[m], reply[m], m \in gaveUp)
  BY DEF TurnInv
<1>3. Consistent(m, "done", loop'[m], reply'[m], m \in gaveUp')
  BY <1>2 DEF Consistent
<1>4. QED
  BY <1>1, <1>3, SettlingStep DEF Ended

LEMMA AsksModelKeeps == ASSUME TurnInv, NEW m \in Inbound, AsksModel(m) PROVE TurnInv'
<1>1. PICK offered \in BOOLEAN :
        loop' = [loop EXCEPT ![m] = [NoLoop EXCEPT !.at = "asking", !.offered = offered]]
  BY DEF AsksModel
<1>2. /\ turn[m] = "opening" /\ turn' = [turn EXCEPT ![m] = "thinking"]
      /\ UNCHANGED <<reply, gaveUp>>
  BY DEF AsksModel
<1>3. Consistent(m, turn[m], loop[m], reply[m], m \in gaveUp)
  BY DEF TurnInv
<1>4. [NoLoop EXCEPT !.at = "asking", !.offered = offered] \in Loops
  BY NoLoopIsALoop, OfferedIsALoop DEF Stands
<1>5. OthersKeep(m)
  BY <1>1, <1>2, <1>4 DEF OthersKeep, TurnInv
<1>6. loop'[m].at = "asking" /\ ~loop'[m].used
  BY <1>1 DEF TurnInv, NoLoop
<1>7. Consistent(m, "thinking", loop'[m], reply'[m], m \in gaveUp')
  BY <1>2, <1>3, <1>6 DEF Consistent
<1>8. turn'[m] = "thinking" /\ DOMAIN turn' = Inbound /\ \A n \in Inbound \ {m} : turn'[n] = turn[n]
  BY <1>2 DEF TurnInv
<1>9. QED
  BY <1>2, <1>5, <1>7, <1>8, OwnStep DEF Ended

LEMMA TimesOutKeeps == ASSUME TurnInv, NEW m \in Inbound, TimesOut(m) PROVE TurnInv'
<1>1. /\ turn[m] = "thinking" /\ turn' = [turn EXCEPT ![m] = "answering"]
      /\ reply' = [reply EXCEPT ![m] = "plain"] /\ loop' = loop /\ gaveUp' = gaveUp \cup {m}
  BY DEF TimesOut, KeepsAnswer
<1>2. Consistent(m, turn[m], loop[m], reply[m], m \in gaveUp)
  BY DEF TurnInv
<1>3. OthersKeep(m)
  BY <1>1 DEF OthersKeep, TurnInv
<1>4. reply'[m] = "plain" /\ m \in gaveUp'
  BY <1>1 DEF TurnInv
<1>5. Consistent(m, "answering", loop'[m], reply'[m], m \in gaveUp')
  BY <1>1, <1>2, <1>4 DEF Consistent
<1>6. turn'[m] = "answering" /\ DOMAIN turn' = Inbound /\ \A n \in Inbound \ {m} : turn'[n] = turn[n]
  BY <1>1 DEF TurnInv
<1>7. QED
  BY <1>1, <1>3, <1>5, <1>6, OwnStep DEF Ended

LEMMA ReactedKeeps == ASSUME TurnInv, NEW m \in Inbound, Reacted(m) PROVE TurnInv'
<1>1. /\ turn[m] = "reacting" /\ turn' = [turn EXCEPT ![m] = "answering"]
      /\ UNCHANGED <<loop, reply, gaveUp>>
  BY DEF Reacted, KeepsAnswer
<1>2. Consistent(m, turn[m], loop[m], reply[m], m \in gaveUp)
  BY DEF TurnInv
<1>3. OthersKeep(m)
  BY <1>1 DEF OthersKeep, TurnInv
<1>4. Consistent(m, "answering", loop'[m], reply'[m], m \in gaveUp')
  BY <1>1, <1>2 DEF Consistent
<1>5. turn'[m] = "answering" /\ DOMAIN turn' = Inbound /\ \A n \in Inbound \ {m} : turn'[n] = turn[n]
  BY <1>1 DEF TurnInv
<1>6. QED
  BY <1>1, <1>3, <1>4, <1>5, OwnStep DEF Ended

(* With the last word said the turn may end in any way.                    *)
LEMMA SaidLeaves ==
    ASSUME TurnInv, NEW m \in Inbound, Said(m), gaveUp' = gaveUp, turn[m] # "thinking", NEW at
    PROVE  OthersKeep(m) /\ Consistent(m, at, loop'[m], reply'[m], m \in gaveUp')
<1>1. OthersKeep(m) /\ reply'[m] = "none" /\ loop'[m] \in {loop[m], NoLoop}
  BY NoLoopIsALoop DEF Said, OthersKeep, TurnInv
<1>2. Consistent(m, turn[m], loop[m], reply[m], m \in gaveUp)
  BY DEF TurnInv
<1>3. QED
  BY <1>1, <1>2, NoLoopIsALoop DEF Consistent

LEMMA AnswerSentKeeps == ASSUME TurnInv, NEW m \in Inbound, AnswerSent(m) PROVE TurnInv'
<1>1. turn[m] \in {"answering", "reacting"} /\ Said(m) /\ gaveUp' = gaveUp
  BY DEF AnswerSent
<1>2. CASE Settles(m)
  <2>1. OthersKeep(m) /\ Consistent(m, "done", loop'[m], reply'[m], m \in gaveUp')
    BY <1>1, SaidLeaves
  <2>2. QED
    BY <1>1, <1>2, <2>1, SettlingStep DEF Ended
<1>3. CASE turn' = [turn EXCEPT ![m] = "apologising"]
  <2>1. OthersKeep(m) /\ Consistent(m, "apologising", loop'[m], reply'[m], m \in gaveUp')
    BY <1>1, SaidLeaves
  <2>2. turn'[m] = "apologising" /\ DOMAIN turn' = Inbound /\ \A n \in Inbound \ {m} : turn'[n] = turn[n]
    BY <1>3 DEF TurnInv
  <2>3. QED
    BY <1>1, <2>1, <2>2, OwnStep DEF Ended
<1>4. QED
  BY <1>2, <1>3 DEF AnswerSent

LEMMA SendRejectsKeeps == ASSUME TurnInv, NEW m \in Inbound, SendRejects(m) PROVE TurnInv'
<1>1. /\ turn[m] \in {"answering", "reacting", "replying"} /\ Said(m) /\ gaveUp' = gaveUp
      /\ turn' = [turn EXCEPT ![m] = "apologising"]
  BY DEF SendRejects
<1>2. OthersKeep(m) /\ Consistent(m, "apologising", loop'[m], reply'[m], m \in gaveUp')
  BY <1>1, SaidLeaves
<1>3. turn'[m] = "apologising" /\ DOMAIN turn' = Inbound /\ \A n \in Inbound \ {m} : turn'[n] = turn[n]
  BY <1>1 DEF TurnInv
<1>4. QED
  BY <1>1, <1>2, <1>3, OwnStep DEF Ended

(* The tools: a loop that has started is the turn's, or has outlived it.   *)
LEMMA LoopStep ==
    ASSUME TurnInv, NEW m \in Inbound, loop[m].at # "none", NEW l \in Loops,
           loop' = [loop EXCEPT ![m] = l], UNCHANGED <<turn, reply, gaveUp>>,
           l.used => l.acted, l.at \in {"retrying", "recalling"} => l.retried
    PROVE  TurnInv'
<1>1. OthersKeep(m) /\ loop'[m] = l
  BY DEF OthersKeep, TurnInv
<1>2. Consistent(m, turn[m], loop[m], reply[m], m \in gaveUp)
  BY DEF TurnInv
<1>3. Consistent(m, turn'[m], loop'[m], reply'[m], m \in gaveUp')
  BY <1>1, <1>2 DEF Consistent
<1>4. QED
  BY <1>1, <1>3, OwnStep DEF TurnInv

LEMMA ModelCallsToolsKeeps == ASSUME TurnInv, NEW m \in Inbound, ModelCallsTools(m) PROVE TurnInv'
<1> DEFINE l == [loop[m] EXCEPT !.at = IF @ = "asking" THEN "calling" ELSE "recalling",
                                !.rounds = @ + 1]
<1>1. loop[m].at \in {"asking", "retrying"} /\ loop' = [loop EXCEPT ![m] = l]
  BY DEF ModelCallsTools, TurnInv
<1>2. loop[m] \in Loops /\ Consistent(m, turn[m], loop[m], reply[m], m \in gaveUp)
  BY DEF TurnInv
<1>3. /\ l \in Loops
      /\ l.at = IF loop[m].at = "asking" THEN "calling" ELSE "recalling"
      /\ l.used <=> loop[m].used
      /\ l.acted <=> loop[m].acted
      /\ l.retried <=> loop[m].retried
  <2>1. l \in Loops
    <3>1. loop[m].rounds + 1 \in Int /\ loop[m] \in Loops
      BY <1>2 DEF Loops
    <3>2. (IF loop[m].at = "asking" THEN "calling" ELSE "recalling") \in Stands
      BY DEF Stands
    <3>3. QED
      BY <3>1, <3>2, CountedIsALoop
  <2>2. l.at = IF loop[m].at = "asking" THEN "calling" ELSE "recalling"
    BY <1>2 DEF Loops
  <2>3. (l.used <=> loop[m].used) /\ (l.acted <=> loop[m].acted) /\ (l.retried <=> loop[m].retried)
    BY <1>2 DEF Loops
  <2>4. QED
    BY <2>1, <2>2, <2>3
<1>4. (l.used => l.acted) /\ (l.at \in {"retrying", "recalling"} => l.retried)
  BY <1>1, <1>2, <1>3 DEF Consistent
<1>5. QED
  <2>1. loop[m].at # "none" /\ UNCHANGED <<turn, reply, gaveUp>>
    BY <1>1 DEF ModelCallsTools
  <2> HIDE DEF l
  <2>3. QED
    BY <1>1, <1>3, <1>4, <2>1, LoopStep

LEMMA ToolsReturnKeeps == ASSUME TurnInv, NEW m \in Inbound, ToolsReturn(m) PROVE TurnInv'
<1> DEFINE l == [loop[m] EXCEPT !.at = IF @ = "calling" THEN "asking" ELSE "retrying",
                                !.used = @ \/ loop[m].at = "calling",
                                !.acted = TRUE]
<1>1. loop[m].at \in {"calling", "recalling"} /\ loop' = [loop EXCEPT ![m] = l]
  BY DEF ToolsReturn, TurnInv
<1>2. loop[m] \in Loops /\ Consistent(m, turn[m], loop[m], reply[m], m \in gaveUp)
  BY DEF TurnInv
<1>3. /\ l \in Loops /\ l.acted /\ l.retried = loop[m].retried
      /\ l.at = IF loop[m].at = "calling" THEN "asking" ELSE "retrying"
  BY <1>2 DEF Loops, Stands
<1>4. (l.used => l.acted) /\ (l.at \in {"retrying", "recalling"} => l.retried)
  BY <1>1, <1>2, <1>3 DEF Consistent
<1>5. loop[m].at # "none" /\ UNCHANGED <<turn, reply, gaveUp>>
  BY <1>1 DEF ToolsReturn
<1> HIDE DEF l
<1>6. QED
  BY <1>1, <1>3, <1>4, <1>5, LoopStep

(* The loop ends with a text.  A claim is kept with the loop that justifies*)
(* it; with any other text, or a turn that has given up, no loop is left.  *)
LEMMA LoopEndsKeeps ==
    ASSUME TurnInv, NEW m \in Inbound, loop[m].at # "none",
           NEW text \in {"plain", "claim", "skip", "react"}, LoopEnds(m, text),
           text = "claim" => Justified(m, loop[m])
    PROVE  TurnInv'
<1>1. loop[m] \in Loops /\ Consistent(m, turn[m], loop[m], reply[m], m \in gaveUp)
  BY DEF TurnInv
<1>2. CASE turn[m] = "thinking"
  <2> DEFINE l == IF text = "claim" THEN [loop[m] EXCEPT !.at = "none", !.rounds = 0] ELSE NoLoop
  <2>1. Responds(m, text) /\ gaveUp' = gaveUp /\ loop' = [loop EXCEPT ![m] = l]
    BY <1>2 DEF LoopEnds, TurnInv
  <2>2. l \in Loops /\ l.at = "none"
    <3>1. [loop[m] EXCEPT !.at = "none", !.rounds = 0] \in Loops
      <4>1. "none" \in Stands /\ 0 \in Int /\ loop[m] \in Loops
        BY <1>1 DEF Stands
      <4>2. QED
        BY <4>1, CountedIsALoop
    <3>2. [loop[m] EXCEPT !.at = "none", !.rounds = 0].at = "none"
      BY <1>1 DEF Loops
    <3>3. QED
      BY <3>1, <3>2, NoLoopIsALoop
  <2>3. (l.used => l.acted) /\ (text = "claim" => Justified(m, l))
    <3>1. CASE text = "claim"
      <4>1. /\ l.used <=> loop[m].used
            /\ l.acted <=> loop[m].acted
            /\ l.retried <=> loop[m].retried
            /\ l.offered <=> loop[m].offered
        BY <1>1, <3>1 DEF Loops
      <4>2. QED
        BY <1>1, <3>1, <4>1 DEF Consistent, Justified
    <3>2. CASE text # "claim"
      BY <3>2, NoLoopIsALoop
    <3>3. QED
      BY <3>1, <3>2
  <2>4. loop'[m] = l /\ loop' \in [Inbound -> Loops] /\ \A n \in Inbound \ {m} : loop'[n] = loop[n]
    BY <2>1, <2>2 DEF TurnInv
  <2> HIDE DEF l
  <2>5. CASE text = "skip" /\ Settles(m) /\ reply' = reply
    <3>1. OthersKeep(m) /\ reply'[m] # "claim"
      BY <1>1, <1>2, <2>1, <2>4, <2>5 DEF OthersKeep, Consistent, TurnInv
    <3>2. Consistent(m, "done", loop'[m], reply'[m], m \in gaveUp')
      BY <2>2, <2>3, <2>4, <3>1 DEF Consistent
    <3>3. QED
      BY <1>2, <2>5, <3>1, <3>2, SettlingStep DEF Ended
  <2>6. CASE \E at \in {"reacting", "answering"}, said \in {"none", text} :
               /\ turn' = [turn EXCEPT ![m] = at]
               /\ reply' = [reply EXCEPT ![m] = said]
    <3>1. PICK at \in {"reacting", "answering"}, said \in {"none", text} :
               /\ turn' = [turn EXCEPT ![m] = at]
               /\ reply' = [reply EXCEPT ![m] = said]
      BY <2>6
    <3>2. OthersKeep(m)
      BY <2>1, <2>4, <3>1 DEF OthersKeep, TurnInv
    <3>3. reply'[m] = said /\ turn'[m] = at
      BY <3>1 DEF TurnInv
    <3>4. Consistent(m, turn'[m], loop'[m], reply'[m], m \in gaveUp')
      BY <2>2, <2>3, <2>4, <3>1, <3>3 DEF Consistent
    <3>5. DOMAIN turn' = Inbound /\ \A n \in Inbound \ {m} : turn'[n] = turn[n]
      BY <3>1 DEF TurnInv
    <3>6. QED
      BY <1>2, <3>2, <3>4, <3>5, OwnStep DEF Ended
  <2>7. QED
    BY <2>1, <2>5, <2>6 DEF Responds, KeepsAnswer
<1>3. CASE turn[m] # "thinking"
  <2>1. /\ loop' = [loop EXCEPT ![m] = NoLoop] /\ gaveUp' = gaveUp \ {m}
        /\ UNCHANGED <<turn, reply>>
    BY <1>3 DEF LoopEnds
  <2>2. OthersKeep(m) /\ loop'[m] = NoLoop
    BY <2>1, NoLoopIsALoop DEF OthersKeep, TurnInv
  <2>3. Consistent(m, turn'[m], loop'[m], reply'[m], m \in gaveUp')
    BY <1>1, <2>1, <2>2, NoLoopIsALoop DEF Consistent
  <2>4. QED
    BY <2>1, <2>2, <2>3, OwnStep DEF TurnInv
<1>4. QED
  BY <1>2, <1>3

LEMMA ModelAnswersKeeps == ASSUME TurnInv, NEW m \in Inbound, ModelAnswers(m) PROVE TurnInv'
<1>1. loop[m] \in Loops /\ Consistent(m, turn[m], loop[m], reply[m], m \in gaveUp)
  BY DEF TurnInv
<1>2. PICK text \in {"plain", "claim", "skip", "react"} :
        IF Hallucinated(m, text)
        THEN /\ loop' = [loop EXCEPT ![m].at = "retrying", ![m].rounds = 0, ![m].retried = TRUE]
             /\ UNCHANGED <<turn, chatLock, rows, reply, gaveUp>>
        ELSE LoopEnds(m, text)
  BY DEF ModelAnswers
<1>3. loop[m].at = "asking"
  BY DEF ModelAnswers
<1>4. CASE Hallucinated(m, text)
  <2> DEFINE l == [loop[m] EXCEPT !.at = "retrying", !.rounds = 0, !.retried = TRUE]
  <2>1. loop' = [loop EXCEPT ![m] = l] /\ UNCHANGED <<turn, reply, gaveUp>>
    BY <1>2, <1>4 DEF TurnInv
  <2>2. l \in Loops
    <3>1. "retrying" \in Stands /\ 0 \in Int /\ loop[m] \in Loops
      BY <1>1 DEF Stands
    <3>2. QED
      BY <3>1, RetriedIsALoop
  <2>3. l.retried /\ (l.used <=> loop[m].used) /\ (l.acted <=> loop[m].acted)
    BY <1>1 DEF Loops
  <2>4. l.used => l.acted
    BY <1>1, <2>3 DEF Consistent
  <2> HIDE DEF l
  <2>5. QED
    BY <1>3, <2>1, <2>2, <2>3, <2>4, LoopStep
<1>5. CASE ~Hallucinated(m, text)
  <2>1. text = "claim" => Justified(m, loop[m])
    BY <1>1, <1>5 DEF Hallucinated, Justified, Consistent
  <2>2. LoopEnds(m, text)
    BY <1>2, <1>5
  <2>3. QED
    BY <1>3, <2>1, <2>2, LoopEndsKeeps
<1>6. QED
  BY <1>4, <1>5

LEMMA RetryAnswersKeeps == ASSUME TurnInv, NEW m \in Inbound, RetryAnswers(m) PROVE TurnInv'
<1>1. PICK text \in {"plain", "claim", "skip", "react"} : LoopEnds(m, text)
  BY DEF RetryAnswers
<1>2. loop[m].at = "retrying" /\ Consistent(m, turn[m], loop[m], reply[m], m \in gaveUp)
  BY DEF RetryAnswers, TurnInv
<1>3. Justified(m, loop[m])
  BY <1>2 DEF Consistent, Justified
<1>4. QED
  BY <1>1, <1>2, <1>3, LoopEndsKeeps

LEMMA ModelFailsKeeps == ASSUME TurnInv, NEW m \in Inbound, ModelFails(m) PROVE TurnInv'
<1>1. /\ loop' = [loop EXCEPT ![m] = NoLoop] /\ gaveUp' = gaveUp \ {m} /\ reply' = reply
      /\ turn' = [turn EXCEPT ![m] = IF @ = "thinking" THEN "apologising" ELSE @]
  BY DEF ModelFails
<1>2. Consistent(m, turn[m], loop[m], reply[m], m \in gaveUp)
  BY DEF TurnInv
<1>3. OthersKeep(m) /\ loop'[m] = NoLoop
  BY <1>1, NoLoopIsALoop DEF OthersKeep, TurnInv
<1>4. /\ turn'[m] = IF turn[m] = "thinking" THEN "apologising" ELSE turn[m]
      /\ DOMAIN turn' = Inbound /\ \A n \in Inbound \ {m} : turn'[n] = turn[n]
  BY <1>1 DEF TurnInv
<1>5. Consistent(m, turn'[m], loop'[m], reply'[m], m \in gaveUp')
  <2>1. reply'[m] # "claim"
    BY <1>1, <1>2 DEF Consistent, ModelFails
  <2>2. QED
    BY <1>3, <2>1, NoLoopIsALoop DEF Consistent
<1>6. turn[m] # turn'[m] => turn[m] = "thinking"
  BY <1>4
<1>7. QED
  BY <1>3, <1>4, <1>5, <1>6, OwnStep DEF Ended

---------------------------------------------------------------------------
(* All of them *)

LEMMA TurnInvStep == TurnInv /\ [ReplyTurnsNext]_turnVars => TurnInv'
<1> SUFFICES ASSUME TurnInv, [ReplyTurnsNext]_turnVars PROVE TurnInv'
  OBVIOUS
<1>1. ASSUME NEW m \in Inbound, HandlerSteps(m) PROVE TurnInv'
  <2>1. CASE BatchArrives(m)
    BY <2>1, BeforeTheModel DEF BatchArrives
  <2>2. CASE Queued(m)
    BY <2>2, BeforeTheModel DEF Queued
  <2>3. CASE TurnOpens(m)
    BY <2>3, BeforeTheModel DEF TurnOpens
  <2>4. CASE Ignored(m)
    BY <2>4, SettlesUnasked DEF Ignored
  <2>5. CASE Heard(m)
    BY <2>5, SettlesUnasked DEF Heard
  <2>6. CASE AnswersAside(m)
    BY <2>6, BeforeTheModel DEF AnswersAside
  <2>7. CASE AnsweredAside(m)
    BY <2>7, SettlesUnasked DEF AnsweredAside
  <2>8. CASE OpeningThrows(m)
    BY <2>8, RejectingStep DEF OpeningThrows
  <2>9. CASE AsksModel(m)
    BY <2>9, AsksModelKeeps
  <2>10. CASE TimesOut(m)
    BY <2>10, TimesOutKeeps
  <2>11. CASE Reacted(m)
    BY <2>11, ReactedKeeps
  <2>12. CASE AnswerSent(m)
    BY <2>12, AnswerSentKeeps
  <2>13. CASE SendRejects(m)
    BY <2>13, SendRejectsKeeps
  <2>14. CASE Apologised(m)
    <3>1. CASE Settles(m) /\ UNCHANGED <<loop, reply, gaveUp>>
      BY <2>14, <3>1, SettlesUnasked DEF Apologised
    <3>2. CASE Rejects
      BY <3>2, RejectingStep
    <3>3. QED
      BY <2>14, <3>1, <3>2 DEF Apologised
  <2>15. QED
    BY <1>1, <2>1, <2>2, <2>3, <2>4, <2>5, <2>6, <2>7, <2>8, <2>9, <2>10, <2>11, <2>12, <2>13,
       <2>14 DEF HandlerSteps
<1>2. ASSUME NEW m \in Inbound, LoopSteps(m) PROVE TurnInv'
  BY <1>2, ModelCallsToolsKeeps, ToolsReturnKeeps, ModelAnswersKeeps, RetryAnswersKeeps,
     ModelFailsKeeps DEF LoopSteps
<1>3. CASE UNCHANGED <<turn, loop, reply, gaveUp>>
  BY <1>3 DEF TurnInv, Consistent, InTurn, NextOfBatch, RestOfBatch
<1>4. ASSUME NEW c \in Chats, Note(c) PROVE UNCHANGED <<turn, loop, reply, gaveUp>>
  BY <1>4 DEF Note
<1>5. QED
  BY <1>1, <1>2, <1>3, <1>4 DEF ReplyTurnsNext, turnVars

(* The model and its tools are at work only while their turn waits for     *)
(* them or has given up, and a claim of an action is only sent if a tool   *)
(* has run, the guard has sent the text back once, or the guard does not   *)
(* look: without tools, and at a message with the system's mark            *)
(* (send-message.ts, guards.ts).                                           *)
THEOREM DeedsAlwaysMatchWords == ReplyTurnsSpec => []DeedsMatchWords
<1>1. TurnInv => DeedsMatchWords
  BY DEF TurnInv, Consistent, Justified, DeedsMatchWords
<1>2. QED
  BY TurnInvInit, TurnInvStep, <1>1, PTL DEF ReplyTurnsSpec

-----------------------------------------------------------------------------
(* Histories and the lock of a chat *)

Rows == [role : {"user", "assistant"}, of : Inbound \cup {NoMessage}]

(* The last row of a message, if there is one, is that message's.          *)
EndsWith(history, m) ==
    \A j \in LastBefore(history, Len(history) + 1) : history[j] = Row("user", m)

LEMMA NoInboundIsNoMessage == NoMessage \notin Inbound
  BY DEF NoMessage, Inbound

LEMMA RowsAreRows ==
    \A m \in Inbound \cup {NoMessage} :
        /\ Row("user", m) \in Rows /\ Row("user", m).role = "user" /\ Row("user", m).of = m
        /\ Row("assistant", m) \in Rows /\ Row("assistant", m).role = "assistant"
        /\ Row("assistant", m).of = m
  BY DEF Rows, Row

(* One row more: an answer follows if its message was the last.            *)
LEMMA OneMoreRow ==
    ASSUME NEW h \in Seq(Rows), NEW r \in Rows
    PROVE  /\ h \o <<r>> \in Seq(Rows)
           /\ AnswersFollow(h) /\ (r.role = "assistant" /\ r.of # NoMessage => EndsWith(h, r.of)) =>
                AnswersFollow(h \o <<r>>)
           /\ \A m \in Inbound : r = Row("user", m) => EndsWith(h \o <<r>>, m)
           /\ \A m \in Inbound : r.of = NoMessage /\ EndsWith(h, m) => EndsWith(h \o <<r>>, m)
<1> DEFINE g == h \o <<r>>
           n == Len(h)
<1>1. /\ g \in Seq(Rows) /\ n \in Nat /\ Len(g) = n + 1 /\ DOMAIN g = 1 .. n + 1 /\ DOMAIN h = 1 .. n
      /\ \A i \in 1 .. n : g[i] = h[i]
      /\ g[n + 1] = r
  OBVIOUS
<1> HIDE DEF g, n
<1>2. ASSUME NEW i \in 1 .. n + 1 PROVE LastBefore(g, i) = LastBefore(h, i)
  <2>1. i \in Int /\ \A j \in 1 .. i - 1 : g[j] = h[j]
    BY <1>1
  <2>2. ASSUME NEW j \in 1 .. i - 1
        PROVE  (\A k \in j + 1 .. i - 1 : g[k].of = NoMessage) <=>
               (\A k \in j + 1 .. i - 1 : h[k].of = NoMessage)
    <3>1. \A k \in j + 1 .. i - 1 : g[k] = h[k]
      BY <2>1
    <3>2. QED
      BY <3>1
  <2>3. QED
    BY <2>1, <2>2 DEF LastBefore
<1>3. ASSUME AnswersFollow(h), r.role = "assistant" /\ r.of # NoMessage => EndsWith(h, r.of),
             NEW i \in DOMAIN g, g[i].role = "assistant", g[i].of # NoMessage,
             NEW j \in LastBefore(g, i)
      PROVE  g[j] = Row("user", g[i].of)
  <2>1. i \in 1 .. n + 1 /\ j \in LastBefore(h, i) /\ j \in 1 .. i - 1 /\ i \in Int
    BY <1>1, <1>2, <1>3 DEF LastBefore
  <2>2. g[j] = h[j]
    BY <1>1, <2>1
  <2>3. CASE i = n + 1
    BY <1>1, <1>3, <2>1, <2>2, <2>3 DEF EndsWith, n
  <2>4. CASE i # n + 1
    <3>1. i \in DOMAIN h /\ g[i] = h[i]
      BY <1>1, <2>1, <2>4
    <3>2. QED
      BY <1>3, <2>1, <2>2, <3>1 DEF AnswersFollow
  <2>5. QED
    BY <2>3, <2>4
<1>4. ASSUME NEW m \in Inbound, r = Row("user", m), NEW j \in LastBefore(g, n + 2)
      PROVE  g[j] = Row("user", m)
  <2>1. /\ j \in 1 .. n + 1
        /\ \A k \in j + 1 .. n + 1 : g[k].of = NoMessage
    BY <1>1, <1>4 DEF LastBefore
  <2>2. j # n + 1 => n + 1 \in j + 1 .. n + 1
    BY <1>1, <2>1
  <2>3. g[n + 1].of # NoMessage
    BY <1>1, <1>4, RowsAreRows, NoInboundIsNoMessage
  <2>4. QED
    BY <1>1, <1>4, <2>1, <2>2, <2>3
<1>5. ASSUME NEW m \in Inbound, r.of = NoMessage, EndsWith(h, m), NEW j \in LastBefore(g, n + 2)
      PROVE  g[j] = Row("user", m)
  <2>1. /\ j \in 1 .. n + 1 /\ g[j].of # NoMessage
        /\ \A k \in j + 1 .. n + 1 : g[k].of = NoMessage
    BY <1>1, <1>5 DEF LastBefore
  <2>2. j \in 1 .. n /\ j \in LastBefore(h, n + 1)
    <3>1. j \in 1 .. n
      BY <1>1, <1>5, <2>1
    <3>2. h[j] = g[j] /\ \A k \in j + 1 .. n : h[k] = g[k] /\ k \in j + 1 .. n + 1
      BY <1>1, <3>1
    <3>3. QED
      BY <1>1, <2>1, <3>1, <3>2 DEF LastBefore
  <2>3. QED
    BY <1>1, <1>5, <2>2 DEF EndsWith, n
<1>6. Len(g) + 1 = n + 2
  BY <1>1
<1>7. AnswersFollow(h) /\ (r.role = "assistant" /\ r.of # NoMessage => EndsWith(h, r.of)) =>
        AnswersFollow(g)
  BY <1>3 DEF AnswersFollow
<1>8. /\ \A m \in Inbound : r = Row("user", m) => EndsWith(g, m)
      /\ \A m \in Inbound : r.of = NoMessage /\ EndsWith(h, m) => EndsWith(g, m)
  BY <1>4, <1>5, <1>6 DEF EndsWith
<1>9. QED
  BY <1>1, <1>7, <1>8 DEF g

(* What is trimmed off the front takes no answer from its message but the  *)
(* first.                                                                  *)
LEMMA KeptFollows ==
    ASSUME NEW h \in Seq(Rows)
    PROVE  /\ Kept(h) \in Seq(Rows)
           /\ AnswersFollow(h) => AnswersFollow(Kept(h))
           /\ \A m \in Inbound : EndsWith(h, m) => EndsWith(Kept(h), m)
<1>1. CASE ~ (Len(h) > MaxRows)
  BY <1>1 DEF Kept
<1>2. CASE Len(h) > MaxRows
  <2> DEFINE d == Len(h) - MaxRows
             g == Kept(h)
  <2>1. Len(h) \in Nat /\ MaxRows \in Nat /\ d \in Nat /\ Len(h) = d + MaxRows
    BY <1>2, ReplyTurnsAssumption
  <2>2. /\ g \in Seq(Rows) /\ Len(g) = MaxRows /\ DOMAIN g = 1 .. MaxRows
        /\ \A i \in 1 .. MaxRows : g[i] = h[i + d] /\ i + d \in DOMAIN h
    BY <1>2, <2>1 DEF Kept
  <2> HIDE DEF g, d
  <2>3. ASSUME NEW i \in 1 .. MaxRows + 1, NEW j \in LastBefore(g, i)
        PROVE  j + d \in LastBefore(h, i + d) /\ g[j] = h[j + d]
    <3>1. /\ j \in 1 .. i - 1 /\ g[j].of # NoMessage /\ i \in Int /\ j \in Int
          /\ \A k \in j + 1 .. i - 1 : g[k].of = NoMessage
      BY <2>1, <2>3 DEF LastBefore
    <3>2. g[j] = h[j + d] /\ j + d \in 1 .. i + d - 1
      BY <2>1, <2>2, <3>1
    <3> DEFINE e == j + d
               f == i + d
    <3>3. ASSUME NEW k \in e + 1 .. f - 1 PROVE h[k].of = NoMessage
      <4>1. k - d \in j + 1 .. i - 1 /\ k - d \in 1 .. MaxRows /\ k - d + d = k
        BY <2>1, <3>1
      <4>2. h[k] = g[k - d]
        BY <2>2, <4>1
      <4>3. QED
        BY <3>1, <4>1, <4>2
    <3>4. e \in 1 .. f - 1 /\ h[e].of # NoMessage /\ g[j] = h[e]
      BY <2>1, <3>1, <3>2
    <3> HIDE DEF e, f
    <3>5. e \in LastBefore(h, f)
      BY <3>3, <3>4 DEF LastBefore
    <3>6. QED
      BY <3>4, <3>5 DEF e, f
  <2>4. AnswersFollow(h) => AnswersFollow(g)
    <3>1. ASSUME AnswersFollow(h), NEW i \in DOMAIN g, g[i].role = "assistant",
                 g[i].of # NoMessage, NEW j \in LastBefore(g, i)
          PROVE  g[j] = Row("user", g[i].of)
      <4>1. i \in 1 .. MaxRows + 1 /\ i + d \in DOMAIN h /\ g[i] = h[i + d]
        BY <2>1, <2>2
      <4>2. QED
        BY <2>3, <3>1, <4>1 DEF AnswersFollow
    <3>2. QED
      BY <3>1 DEF AnswersFollow
  <2>5. ASSUME NEW m \in Inbound, EndsWith(h, m) PROVE EndsWith(g, m)
    <3>1. MaxRows + 1 \in 1 .. MaxRows + 1 /\ MaxRows + 1 + d = Len(h) + 1
      BY <2>1
    <3>2. QED
      BY <2>2, <2>3, <2>5, <3>1 DEF EndsWith
  <2>6. QED
    BY <2>2, <2>4, <2>5 DEF g
<1>3. QED
  BY <1>1, <1>2

(* The handlers that have the lock of their chat, and those that wait.     *)
Active == {"opening", "refusing", "pdf", "replying", "thinking", "answering", "reacting",
           "apologising"}

LockInv ==
    /\ chatLock \in [Chats -> Seq(Inbound)]
    /\ \A c \in Chats : \A j, k \in DOMAIN chatLock[c] : chatLock[c][j] = chatLock[c][k] => j = k
    /\ \A c \in Chats : \A k \in DOMAIN chatLock[c] :
          /\ ChatOf[chatLock[c][k]] = c
          /\ turn[chatLock[c][k]] \in Active \cup {"queued"}
    /\ \A m \in Inbound : turn[m] = "queued" =>
          \E k \in DOMAIN chatLock[ChatOf[m]] : chatLock[ChatOf[m]][k] = m
    /\ \A m \in Inbound : turn[m] \in Active =>
          chatLock[ChatOf[m]] # <<>> /\ chatLock[ChatOf[m]][1] = m

(* A handler at work goes on alone.                                        *)
Works(m) == \E at \in Active :
    turn[m] \in Active /\ turn' = [turn EXCEPT ![m] = at] /\ chatLock' = chatLock

(* What a step does to the turns and the locks.                            *)
LockMoves ==
    \/ chatLock' = chatLock /\ \A m \in Inbound : turn'[m] = turn[m]
    \/ \E m \in Inbound : BatchArrives(m) \/ Queued(m) \/ TurnOpens(m) \/ Works(m)
    \/ \E m \in Inbound : turn[m] \in Active /\ Settles(m)
    \/ Rejects

LEMMA ChatsOfInbound == \A m \in Inbound : ChatOf[m] \in Chats
  BY DEF Chats

LEMMA LockInvStep == ASSUME TurnInv, LockInv, LockMoves PROVE LockInv'
<1>0. DOMAIN turn = Inbound /\ chatLock \in [Chats -> Seq(Inbound)]
  BY DEF TurnInv, LockInv
<1>1. CASE chatLock' = chatLock /\ \A m \in Inbound : turn'[m] = turn[m]
  <2>1. \A c \in Chats : \A k \in DOMAIN chatLock[c] : chatLock[c][k] \in Inbound
    BY <1>0
  <2>2. QED
    BY <1>1, <2>1 DEF LockInv
<1>2. ASSUME NEW m \in Inbound, BatchArrives(m) PROVE LockInv'
  <2>1. /\ turn[m] = "unseen" /\ turn' = [turn EXCEPT ![m] = "arriving"] /\ chatLock' = chatLock
    BY <1>2 DEF BatchArrives
  <2>2. turn'[m] = "arriving" /\ \A n \in Inbound \ {m} : turn'[n] = turn[n]
    BY <1>0, <2>1
  <2>3. \A n \in Inbound : turn[n] \in Active \cup {"queued"} \/ turn'[n] \in Active \cup {"queued"}
                             => turn'[n] = turn[n]
    BY <2>1, <2>2 DEF Active
  <2>4. \A c \in Chats : \A k \in DOMAIN chatLock[c] : chatLock[c][k] \in Inbound
    BY <1>0
  <2>5. QED
    BY <2>1, <2>3, <2>4 DEF LockInv
<1>3. ASSUME NEW m \in Inbound, Queued(m) PROVE LockInv'
  <2> DEFINE c == ChatOf[m]
             line == Append(chatLock[c], m)
  <2>1. /\ turn[m] = "arriving" /\ turn' = [turn EXCEPT ![m] = "queued"]
        /\ chatLock' = [chatLock EXCEPT ![c] = line] /\ c \in Chats
    BY <1>3, ChatsOfInbound DEF Queued
  <2>2. turn'[m] = "queued" /\ \A n \in Inbound \ {m} : turn'[n] = turn[n]
    BY <1>0, <2>1
  <2>3. /\ line \in Seq(Inbound) /\ Len(chatLock[c]) \in Nat
        /\ DOMAIN chatLock[c] = 1 .. Len(chatLock[c]) /\ DOMAIN line = 1 .. Len(chatLock[c]) + 1
        /\ \A k \in DOMAIN chatLock[c] : line[k] = chatLock[c][k]
        /\ line[Len(chatLock[c]) + 1] = m
    BY <1>0, <2>1
  <2> HIDE DEF line, c
  <2>4. /\ chatLock' \in [Chats -> Seq(Inbound)] /\ chatLock'[c] = line
        /\ \A d \in Chats \ {c} : chatLock'[d] = chatLock[d]
    BY <1>0, <2>1, <2>3
  <2>5. \A d \in Chats : \A k \in DOMAIN chatLock[d] : chatLock[d][k] \in Inbound \ {m}
    <3>1. \A d \in Chats : \A k \in DOMAIN chatLock[d] : chatLock[d][k] \in Inbound
      BY <1>0
    <3>2. turn[m] \notin Active \cup {"queued"}
      BY <2>1 DEF Active
    <3>3. QED
      BY <3>1, <3>2 DEF LockInv
  <2>6. \A d \in Chats : \A j, k \in DOMAIN chatLock'[d] : chatLock'[d][j] = chatLock'[d][k] => j = k
    <3>1. ASSUME NEW j \in DOMAIN line, NEW k \in DOMAIN line, line[j] = line[k] PROVE j = k
      <4>1. j \in DOMAIN chatLock[c] \/ j = Len(chatLock[c]) + 1
        BY <2>3
      <4>2. k \in DOMAIN chatLock[c] \/ k = Len(chatLock[c]) + 1
        BY <2>3
      <4>3. QED
        BY <2>1, <2>3, <2>5, <3>1, <4>1, <4>2 DEF LockInv
    <3>2. ASSUME NEW d \in Chats
          PROVE  \A j, k \in DOMAIN chatLock'[d] : chatLock'[d][j] = chatLock'[d][k] => j = k
      <4>1. CASE d = c
        BY <2>4, <3>1, <4>1
      <4>2. CASE d # c
        BY <2>4, <4>2 DEF LockInv
      <4>3. QED
        BY <4>1, <4>2
    <3>3. QED
      BY <3>2
  <2>7. \A d \in Chats : \A k \in DOMAIN chatLock'[d] :
          /\ ChatOf[chatLock'[d][k]] = d
          /\ turn'[chatLock'[d][k]] \in Active \cup {"queued"}
    <3>1. ASSUME NEW k \in DOMAIN line
          PROVE  ChatOf[line[k]] = c /\ turn'[line[k]] \in Active \cup {"queued"}
      <4>1. CASE k \in DOMAIN chatLock[c]
        BY <2>1, <2>2, <2>3, <2>5, <4>1 DEF LockInv
      <4>2. CASE k = Len(chatLock[c]) + 1
        BY <2>2, <2>3, <4>2 DEF c
      <4>3. QED
        BY <2>3, <4>1, <4>2
    <3>2. ASSUME NEW d \in Chats, NEW k \in DOMAIN chatLock'[d]
          PROVE  ChatOf[chatLock'[d][k]] = d /\ turn'[chatLock'[d][k]] \in Active \cup {"queued"}
      <4>1. CASE d = c
        BY <2>4, <3>1, <4>1
      <4>2. CASE d # c
        <5>1. chatLock'[d] = chatLock[d] /\ chatLock[d][k] \in Inbound \ {m}
          BY <2>4, <2>5, <4>2
        <5>2. QED
          BY <2>2, <5>1 DEF LockInv
      <4>3. QED
        BY <4>1, <4>2
    <3>3. QED
      BY <3>2
  <2>8. ASSUME NEW n \in Inbound, turn'[n] = "queued"
        PROVE  \E k \in DOMAIN chatLock'[ChatOf[n]] : chatLock'[ChatOf[n]][k] = n
    <3>1. CASE n = m
      <4>1. ChatOf[n] = c /\ chatLock'[c] = line
        BY <2>4, <3>1 DEF c
      <4>2. Len(chatLock[c]) + 1 \in DOMAIN line /\ line[Len(chatLock[c]) + 1] = m
        BY <2>3
      <4>3. QED
        BY <4>1, <4>2, <3>1
    <3>2. CASE n # m
      <4>1. PICK k \in DOMAIN chatLock[ChatOf[n]] : chatLock[ChatOf[n]][k] = n
        BY <2>2, <2>8, <3>2 DEF LockInv
      <4>2. ChatOf[n] \in Chats
        BY ChatsOfInbound
      <4>3. CASE ChatOf[n] = c
        <5>1. chatLock'[c] = line /\ k \in DOMAIN chatLock[c] /\ chatLock[c][k] = n
          BY <2>4, <4>1, <4>3
        <5>2. k \in DOMAIN line /\ line[k] = chatLock[c][k]
          BY <2>3, <5>1
        <5>3. QED
          BY <4>3, <5>1, <5>2
      <4>4. CASE ChatOf[n] # c
        BY <2>4, <4>1, <4>2, <4>4
      <4>5. QED
        BY <4>3, <4>4
    <3>3. QED
      BY <3>1, <3>2
  <2>9. ASSUME NEW n \in Inbound, turn'[n] \in Active
        PROVE  chatLock'[ChatOf[n]] # <<>> /\ chatLock'[ChatOf[n]][1] = n
    <3>1. n # m /\ turn[n] \in Active
      BY <2>2, <2>9 DEF Active
    <3>2. chatLock[ChatOf[n]] # <<>> /\ chatLock[ChatOf[n]][1] = n /\ ChatOf[n] \in Chats
      BY <3>1, ChatsOfInbound DEF LockInv
    <3>3. CASE ChatOf[n] = c
      <4>1. chatLock[c] \in Seq(Inbound) /\ 1 \in DOMAIN chatLock[c]
        BY <1>0, <2>1, <3>2, <3>3
      <4>2. line # <<>> /\ line[1] = n
        BY <2>3, <3>2, <3>3, <4>1
      <4>3. QED
        BY <2>4, <3>3, <4>2
    <3>4. CASE ChatOf[n] # c
      BY <2>4, <3>2, <3>4
    <3>5. QED
      BY <3>3, <3>4
  <2>10. QED
    BY <2>4, <2>6, <2>7, <2>8, <2>9 DEF LockInv
<1>4. ASSUME NEW m \in Inbound, TurnOpens(m) \/ Works(m) PROVE LockInv'
  <2>1. PICK at \in Active : /\ turn' = [turn EXCEPT ![m] = at] /\ chatLock' = chatLock
                             /\ turn[m] \in Active \cup {"queued"}
                             /\ turn[m] = "queued" => chatLock[ChatOf[m]][1] = m
    BY <1>4 DEF TurnOpens, Works, Active
  <2>2. turn'[m] = at /\ at # "queued" /\ \A n \in Inbound \ {m} : turn'[n] = turn[n]
    BY <1>0, <2>1 DEF Active
  <2>3. chatLock[ChatOf[m]] # <<>> /\ chatLock[ChatOf[m]][1] = m
    <3>1. CASE turn[m] = "queued"
      <4>1. PICK k \in DOMAIN chatLock[ChatOf[m]] : TRUE
        BY <3>1 DEF LockInv
      <4>2. QED
        BY <2>1, <3>1, <4>1
    <3>2. CASE turn[m] \in Active
      BY <3>2 DEF LockInv
    <3>3. QED
      BY <2>1, <3>1, <3>2
  <2>4. \A d \in Chats : \A k \in DOMAIN chatLock[d] : chatLock[d][k] \in Inbound
    BY <1>0
  <2>5. QED
    BY <2>1, <2>2, <2>3, <2>4 DEF LockInv
<1>5. ASSUME NEW m \in Inbound, turn[m] \in Active, Settles(m) PROVE LockInv'
  <2> DEFINE c == ChatOf[m]
             line == Tail(chatLock[c])
  <2>1. /\ chatLock' = [chatLock EXCEPT ![c] = line] /\ c \in Chats
        /\ turn' = [n \in Inbound |-> IF n = m THEN "done"
                                      ELSE IF n \in NextOfBatch(m) THEN "arriving" ELSE turn[n]]
        /\ chatLock[c] # <<>> /\ chatLock[c][1] = m /\ chatLock[c] \in Seq(Inbound)
    BY <1>0, <1>5, ChatsOfInbound DEF Settles, LockInv
  <2>2. /\ line \in Seq(Inbound) /\ 1 \in DOMAIN chatLock[c]
        /\ \A k \in DOMAIN line : k + 1 \in DOMAIN chatLock[c] /\ line[k] = chatLock[c][k + 1]
        /\ \A k \in DOMAIN chatLock[c] :
              k = 1 \/ (k - 1 \in DOMAIN line /\ chatLock[c][k] = line[k - 1])
        /\ \A j, k \in DOMAIN line : j + 1 = k + 1 => j = k
        /\ \A k \in DOMAIN line : k + 1 # 1
    <3>1. \A k \in DOMAIN line : k \in Nat /\ k >= 1
      BY <2>1, TailOf
    <3>2. QED
      BY <2>1, <3>1, TailOf
  <2> HIDE DEF line, c
  <2>3. /\ chatLock' \in [Chats -> Seq(Inbound)] /\ chatLock'[c] = line
        /\ \A d \in Chats \ {c} : chatLock'[d] = chatLock[d]
    BY <1>0, <2>1, <2>2
  <2>4. \A n \in Inbound \ {m} : /\ turn[n] \in Active \cup {"queued"} => turn'[n] = turn[n]
                                 /\ turn'[n] \in Active \cup {"queued"} => turn'[n] = turn[n]
    <3>1. \A n \in NextOfBatch(m) : turn[n] = "unseen"
      BY <1>5 DEF TurnInv, InTurn, Ended, Active
    <3>2. QED
      BY <2>1, <3>1 DEF Active
  <2>5. \A d \in Chats : \A k \in DOMAIN chatLock'[d] :
          /\ chatLock'[d][k] \in Inbound \ {m} /\ ChatOf[chatLock'[d][k]] = d
          /\ turn[chatLock'[d][k]] \in Active \cup {"queued"}
    <3>1. ASSUME NEW k \in DOMAIN line
          PROVE  /\ line[k] \in Inbound \ {m} /\ ChatOf[line[k]] = c
                 /\ turn[line[k]] \in Active \cup {"queued"}
      <4>1. k + 1 \in DOMAIN chatLock[c] /\ line[k] = chatLock[c][k + 1] /\ line[k] \in Inbound
        BY <2>2
      <4>2. line[k] # m
        BY <2>1, <2>2, <4>1 DEF LockInv
      <4>3. QED
        BY <2>1, <4>1, <4>2 DEF LockInv
    <3>2. ASSUME NEW d \in Chats \ {c}, NEW k \in DOMAIN chatLock[d]
          PROVE  /\ chatLock[d][k] \in Inbound \ {m} /\ ChatOf[chatLock[d][k]] = d
                 /\ turn[chatLock[d][k]] \in Active \cup {"queued"}
      <4>1. chatLock[d][k] \in Inbound
        BY <1>0
      <4>2. QED
        BY <4>1 DEF LockInv, c
    <3>3. QED
      BY <2>3, <3>1, <3>2
  <2>6. \A d \in Chats : \A j, k \in DOMAIN chatLock'[d] : chatLock'[d][j] = chatLock'[d][k] => j = k
    <3>1. ASSUME NEW j \in DOMAIN line, NEW k \in DOMAIN line, line[j] = line[k] PROVE j = k
      <4>1. j + 1 = k + 1
        BY <2>1, <2>2, <3>1 DEF LockInv
      <4>2. QED
        BY <2>2, <4>1
    <3>2. ASSUME NEW d \in Chats
          PROVE  \A j, k \in DOMAIN chatLock'[d] : chatLock'[d][j] = chatLock'[d][k] => j = k
      <4>1. CASE d = c
        BY <2>3, <3>1, <4>1
      <4>2. CASE d # c
        BY <2>3, <4>2 DEF LockInv
      <4>3. QED
        BY <4>1, <4>2
    <3>3. QED
      BY <3>2
  <2>7. ASSUME NEW n \in Inbound, turn'[n] = "queued"
        PROVE  \E k \in DOMAIN chatLock'[ChatOf[n]] : chatLock'[ChatOf[n]][k] = n
    <3>1. n # m /\ turn[n] = "queued" /\ ChatOf[n] \in Chats
      BY <2>1, <2>4, <2>7, ChatsOfInbound
    <3>2. PICK k \in DOMAIN chatLock[ChatOf[n]] : chatLock[ChatOf[n]][k] = n
      BY <3>1 DEF LockInv
    <3>3. CASE ChatOf[n] = c
      BY <2>1, <2>2, <2>3, <3>1, <3>2, <3>3
    <3>4. CASE ChatOf[n] # c
      BY <2>3, <3>1, <3>2, <3>4
    <3>5. QED
      BY <3>3, <3>4
  <2>8. ASSUME NEW n \in Inbound, turn'[n] \in Active
        PROVE  chatLock'[ChatOf[n]] # <<>> /\ chatLock'[ChatOf[n]][1] = n
    <3>1. n # m /\ turn[n] \in Active /\ ChatOf[n] \in Chats
      BY <2>1, <2>4, <2>8, ChatsOfInbound DEF Active
    <3>2. chatLock[ChatOf[n]] # <<>> /\ chatLock[ChatOf[n]][1] = n
      BY <3>1 DEF LockInv
    <3>3. ChatOf[n] # c
      BY <2>1, <3>1, <3>2
    <3>4. QED
      BY <2>3, <3>1, <3>2, <3>3
  <2>9. QED
    BY <2>3, <2>4, <2>5, <2>6, <2>7, <2>8 DEF LockInv
<1>6. CASE Rejects
  <2>1. /\ chatLock' = [c \in Chats |-> <<>>]
        /\ \A n \in Inbound : turn'[n] = "lost" \/ (turn'[n] = turn[n] /\ ~ Underway(n))
    BY <1>6 DEF Rejects
  <2>2. \A n \in Inbound : turn'[n] \notin Active \cup {"queued"}
    BY <2>1 DEF Underway, Active
  <2>3. << >> \in Seq(Inbound) /\ DOMAIN << >> = {}
    OBVIOUS
  <2>4. QED
    BY <2>1, <2>2, <2>3 DEF LockInv
<1>7. QED
  BY <1>1, <1>2, <1>3, <1>4, <1>5, <1>6 DEF LockMoves

(* Every step of a turn is one of these.                                   *)
LEMMA LoopEndsMoves ==
    ASSUME NEW m \in Inbound, NEW text, LoopEnds(m, text) PROVE LockMoves
<1>1. CASE turn[m] = "thinking"
  <2>1. turn[m] \in Active /\ "reacting" \in Active /\ "answering" \in Active
    BY <1>1 DEF Active
  <2>2. Responds(m, text)
    BY <1>1 DEF LoopEnds
  <2>3. Settles(m) \/ Works(m)
    BY <2>1, <2>2 DEF Responds, KeepsAnswer, Works
  <2>4. QED
    BY <2>1, <2>3 DEF LockMoves
<1>2. CASE turn[m] # "thinking"
  BY <1>2 DEF LoopEnds, LockMoves
<1>3. QED
  BY <1>1, <1>2

LEMMA StepsMove == ASSUME TurnInv, [ReplyTurnsNext]_turnVars PROVE LockMoves
<1>0. DOMAIN turn = Inbound
  BY DEF TurnInv
<1>1. ASSUME NEW m \in Inbound, BatchArrives(m) \/ Queued(m) \/ TurnOpens(m) PROVE LockMoves
  BY <1>1 DEF LockMoves
<1>2. ASSUME NEW m \in Inbound, Ignored(m) \/ Heard(m) \/ AnsweredAside(m) PROVE LockMoves
  <2>1. turn[m] \in Active /\ Settles(m)
    BY <1>2 DEF Ignored, Heard, AnsweredAside, Active
  <2>2. QED
    BY <2>1 DEF LockMoves
<1>3. ASSUME NEW m \in Inbound, AnswersAside(m) \/ AsksModel(m) \/ TimesOut(m) \/ Reacted(m) \/ SendRejects(m)
      PROVE  LockMoves
  <2>1. Works(m)
    BY <1>3 DEF AnswersAside, AsksModel, TimesOut, Reacted, SendRejects, KeepsAnswer, Works, Active
  <2>2. QED
    BY <2>1 DEF LockMoves
<1>4. ASSUME NEW m \in Inbound, AnswerSent(m) \/ Apologised(m) \/ OpeningThrows(m) PROVE LockMoves
  <2>1. turn[m] \in Active
    BY <1>4 DEF AnswerSent, Apologised, OpeningThrows, Active
  <2>2. Settles(m) \/ Works(m) \/ Rejects
    BY <1>4, <2>1 DEF AnswerSent, Apologised, OpeningThrows, Works, Active
  <2>3. QED
    BY <2>1, <2>2 DEF LockMoves
<1>5. ASSUME NEW m \in Inbound, ModelCallsTools(m) \/ ToolsReturn(m) PROVE LockMoves
  BY <1>5 DEF ModelCallsTools, ToolsReturn, LockMoves
<1>6. ASSUME NEW m \in Inbound, ModelAnswers(m) \/ RetryAnswers(m) PROVE LockMoves
  <2>1. UNCHANGED <<turn, chatLock>> \/ \E text : LoopEnds(m, text)
    BY <1>6 DEF ModelAnswers, RetryAnswers
  <2>2. QED
    BY <2>1, LoopEndsMoves DEF LockMoves
<1>7. ASSUME NEW m \in Inbound, ModelFails(m) PROVE LockMoves
  <2>1. /\ turn' = [turn EXCEPT ![m] = IF turn[m] = "thinking" THEN "apologising" ELSE turn[m]]
        /\ chatLock' = chatLock
    BY <1>0, <1>7 DEF ModelFails
  <2>2. CASE turn[m] = "thinking"
    <3>1. Works(m)
      BY <2>1, <2>2 DEF Works, Active
    <3>2. QED
      BY <3>1 DEF LockMoves
  <2>3. CASE turn[m] # "thinking"
    <3>1. turn' = [turn EXCEPT ![m] = turn[m]]
      BY <2>1, <2>3
    <3>2. \A n \in Inbound : turn'[n] = turn[n]
      BY <1>0, <3>1
    <3>3. QED
      BY <2>1, <3>2 DEF LockMoves
  <2>4. QED
    BY <2>2, <2>3
<1>8. ASSUME NEW c \in Chats, Note(c) PROVE LockMoves
  BY <1>8 DEF Note, LockMoves
<1>9. CASE UNCHANGED turnVars
  BY <1>9 DEF turnVars, LockMoves
<1>10. QED
  BY <1>1, <1>2, <1>3, <1>4, <1>5, <1>6, <1>7, <1>8, <1>9
     DEF ReplyTurnsNext, HandlerSteps, LoopSteps

(* Of a chat one handler is at work, and a step of it neither wakes nor    *)
(* moves another.                                                          *)
LEMMA OneAtWork ==
    ASSUME LockInv, NEW m \in Inbound, NEW n \in Inbound, ChatOf[m] = ChatOf[n],
           turn[m] \in Active, turn[n] \in Active
    PROVE  m = n
  BY DEF LockInv

Asked == {"thinking", "reacting"}

LEMMA OthersAsked ==
    ASSUME TurnInv, NEW m \in Inbound, Works(m) \/ Settles(m)
    PROVE  /\ \A n \in Inbound \ {m} : turn'[n] \in Asked => turn[n] \in Asked
           /\ Settles(m) => turn'[m] \notin Asked
<1>1. CASE Works(m)
  <2>1. \A n \in Inbound \ {m} : turn'[n] = turn[n]
    BY <1>1 DEF Works, TurnInv
  <2>2. Settles(m) => turn'[m] \notin Asked
    BY DEF Settles, Asked
  <2>3. QED
    BY <2>1, <2>2
<1>2. CASE Settles(m)
  BY <1>2 DEF Settles, Asked
<1>3. QED
  BY <1>1, <1>2

HistoryInv ==
    /\ rows \in [Chats -> Seq(Rows)]
    /\ AnswersFollowTheirMessage
    /\ \A m \in Inbound : turn[m] \in Asked => EndsWith(rows[ChatOf[m]], m)

LEMMA SameHistory ==
    ASSUME HistoryInv, rows' = rows, \A m \in Inbound : turn'[m] \in Asked => turn[m] \in Asked
    PROVE  HistoryInv'
  BY DEF HistoryInv, AnswersFollowTheirMessage

(* The handler at work may change its chat's history.                      *)
LEMMA OwnHistory ==
    ASSUME TurnInv, LockInv, HistoryInv, NEW m \in Inbound, turn[m] \in Active,
           Works(m) \/ Settles(m), NEW h \in Seq(Rows), AnswersFollow(h),
           rows' = [rows EXCEPT ![ChatOf[m]] = h], turn'[m] \in Asked => EndsWith(h, m)
    PROVE  HistoryInv'
<1>1. /\ rows' \in [Chats -> Seq(Rows)] /\ rows'[ChatOf[m]] = h
      /\ \A c \in Chats \ {ChatOf[m]} : rows'[c] = rows[c]
  BY ChatsOfInbound DEF HistoryInv
<1>2. \A c \in Chats : AnswersFollow(rows'[c])
  <2>1. ASSUME NEW c \in Chats PROVE AnswersFollow(rows'[c])
    <3>1. CASE c = ChatOf[m]
      BY <1>1, <3>1
    <3>2. CASE c # ChatOf[m]
      BY <1>1, <3>2 DEF HistoryInv, AnswersFollowTheirMessage
    <3>3. QED
      BY <3>1, <3>2
  <2>2. QED
    BY <2>1
<1>3. ASSUME NEW n \in Inbound, turn'[n] \in Asked PROVE EndsWith(rows'[ChatOf[n]], n)
  <2>1. CASE n = m
    BY <1>1, <1>3, <2>1
  <2>2. CASE n # m
    <3>1. turn[n] \in Asked /\ turn[n] \in Active
      BY <1>3, <2>2, OthersAsked DEF Asked, Active
    <3>2. ChatOf[n] # ChatOf[m]
      BY <2>2, <3>1, OneAtWork
    <3>3. QED
      BY <1>1, <3>1, <3>2, ChatsOfInbound DEF HistoryInv
  <2>3. QED
    BY <2>1, <2>2
<1>4. AnswersFollowTheirMessage'
  BY <1>2 DEF AnswersFollowTheirMessage
<1>5. QED
  BY <1>1, <1>3, <1>4 DEF HistoryInv

(* It keeps the message,                                                   *)
LEMMA MessageKept ==
    ASSUME TurnInv, LockInv, HistoryInv, NEW m \in Inbound, turn[m] \in Active,
           Works(m) \/ Settles(m), AddMessages(ChatOf[m], <<Row("user", m)>>)
    PROVE  HistoryInv'
<1> DEFINE h == rows[ChatOf[m]] \o <<Row("user", m)>>
<1>1. rows[ChatOf[m]] \in Seq(Rows) /\ AnswersFollow(rows[ChatOf[m]]) /\ Row("user", m) \in Rows
      /\ Row("user", m).role # "assistant"
  BY ChatsOfInbound, RowsAreRows DEF HistoryInv, AnswersFollowTheirMessage
<1>2. h \in Seq(Rows) /\ AnswersFollow(h) /\ EndsWith(h, m)
  BY <1>1, OneMoreRow
<1>3. rows' = [rows EXCEPT ![ChatOf[m]] = Kept(h)]
  BY DEF AddMessages
<1> HIDE DEF h
<1>4. Kept(h) \in Seq(Rows) /\ AnswersFollow(Kept(h)) /\ EndsWith(Kept(h), m)
  BY <1>2, KeptFollows
<1>5. QED
  BY <1>3, <1>4, OwnHistory

(* and the answer after it.                                                *)
LEMMA AnswerKept ==
    ASSUME TurnInv, LockInv, HistoryInv, NEW m \in Inbound, turn[m] \in Asked, KeepsAnswer(m)
    PROVE  HistoryInv'
<1> DEFINE h == rows[ChatOf[m]] \o <<Row("assistant", m)>>
<1>1. rows[ChatOf[m]] \in Seq(Rows) /\ AnswersFollow(rows[ChatOf[m]])
      /\ EndsWith(rows[ChatOf[m]], m) /\ Row("assistant", m) \in Rows
      /\ Row("assistant", m).of = m
  BY ChatsOfInbound, RowsAreRows DEF HistoryInv, AnswersFollowTheirMessage
<1>2. h \in Seq(Rows) /\ AnswersFollow(h)
  BY <1>1, OneMoreRow
<1>3. rows' = [rows EXCEPT ![ChatOf[m]] = Kept(h)]
  BY DEF KeepsAnswer, AddMessages
<1> HIDE DEF h
<1>4. Kept(h) \in Seq(Rows) /\ AnswersFollow(Kept(h))
  BY <1>2, KeptFollows
<1>5. turn[m] \in Active /\ Works(m) /\ turn'[m] = "answering"
  BY DEF KeepsAnswer, Works, Asked, Active, TurnInv
<1>6. QED
  BY <1>3, <1>4, <1>5, OwnHistory DEF Asked

LEMMA LoopEndsHistory ==
    ASSUME TurnInv, LockInv, HistoryInv, NEW m \in Inbound, NEW text, LoopEnds(m, text)
    PROVE  HistoryInv'
<1>1. CASE turn[m] = "thinking"
  <2>1. turn[m] \in Asked /\ turn[m] \in Active
    BY <1>1 DEF Asked, Active
  <2>2. CASE KeepsAnswer(m)
    BY <2>1, <2>2, AnswerKept
  <2>3. CASE rows' = rows /\ Settles(m)
    BY <2>3, OthersAsked, SameHistory
  <2>4. CASE rows' = rows /\ turn' = [turn EXCEPT ![m] = "reacting"]
    <3>1. \A n \in Inbound : turn'[n] \in Asked => turn[n] \in Asked
      BY <2>1, <2>4 DEF TurnInv
    <3>2. QED
      BY <2>4, <3>1, SameHistory
  <2>5. QED
    BY <1>1, <2>2, <2>3, <2>4 DEF LoopEnds, Responds
<1>2. CASE turn[m] # "thinking"
  BY <1>2, SameHistory DEF LoopEnds
<1>3. QED
  BY <1>1, <1>2

LEMMA TwoRows ==
    ASSUME NEW T, NEW h \in Seq(T), NEW u \in T, NEW a \in T
    PROVE  (h \o <<u>>) \o <<a>> = h \o <<u, a>>
<1> DEFINE n == Len(h)
           one == h \o <<u>>
           l == one \o <<a>>
           r == h \o <<u, a>>
<1>1. /\ n \in Nat /\ one \in Seq(T) /\ Len(one) = n + 1
      /\ \A i \in 1 .. n : one[i] = h[i]
      /\ one[n + 1] = u
  OBVIOUS
<1>2. /\ r \in Seq(T) /\ Len(r) = n + 2
      /\ \A i \in 1 .. n : r[i] = h[i]
      /\ r[n + 1] = u /\ r[n + 2] = a
  OBVIOUS
<1> HIDE DEF one, r, n
<1>3. /\ l \in Seq(T) /\ Len(l) = n + 2
      /\ \A i \in 1 .. n + 1 : l[i] = one[i]
      /\ l[n + 2] = a
  BY <1>1
<1> HIDE DEF l
<1>4. ASSUME NEW i \in 1 .. n + 2 PROVE l[i] = r[i]
  <2>1. i \in 1 .. n \/ i = n + 1 \/ i = n + 2
    BY <1>1
  <2>2. i \in 1 .. n => i \in 1 .. n + 1
    BY <1>1
  <2>3. n + 1 \in 1 .. n + 1
    BY <1>1
  <2>4. QED
    BY <1>1, <1>2, <1>3, <2>1, <2>2, <2>3
<1>5. DOMAIN l = 1 .. n + 2 /\ DOMAIN r = 1 .. n + 2
  BY <1>2, <1>3
<1>6. l = r
  BY <1>2, <1>3, <1>4, <1>5
<1>7. QED
  BY <1>6 DEF l, one, r

LEMMA HistoryStep ==
    ASSUME TurnInv, LockInv, HistoryInv, [ReplyTurnsNext]_turnVars
    PROVE  HistoryInv'
<1>0. DOMAIN turn = Inbound
  BY DEF TurnInv
<1>1. ASSUME NEW m \in Inbound, \/ BatchArrives(m) \/ Queued(m) \/ TurnOpens(m) \/ SendRejects(m)
                                \/ ModelCallsTools(m) \/ ToolsReturn(m) \/ ModelFails(m)
      PROVE  HistoryInv'
  <2>1. rows' = rows
    BY <1>1 DEF BatchArrives, Queued, TurnOpens, SendRejects, ModelCallsTools, ToolsReturn,
                ModelFails
  <2>2. \A n \in Inbound : turn'[n] \in Asked => turn[n] \in Asked
    BY <1>0, <1>1 DEF BatchArrives, Queued, TurnOpens, SendRejects, ModelCallsTools, ToolsReturn,
                      ModelFails, Asked
  <2>3. QED
    BY <2>1, <2>2, SameHistory
<1>2. ASSUME NEW m \in Inbound, Ignored(m) \/ AnswerSent(m) PROVE HistoryInv'
  <2>1. rows' = rows
    BY <1>2 DEF Ignored, AnswerSent
  <2>2. Settles(m) \/ turn' = [turn EXCEPT ![m] = "apologising"]
    BY <1>2 DEF Ignored, AnswerSent
  <2>3. \A n \in Inbound : turn'[n] \in Asked => turn[n] \in Asked
    BY <1>0, <2>2 DEF Settles, Asked
  <2>4. QED
    BY <2>1, <2>3, SameHistory
<1>3. ASSUME NEW m \in Inbound, Apologised(m) \/ OpeningThrows(m) PROVE HistoryInv'
  <2>1. rows' = rows /\ (Settles(m) \/ Rejects)
    BY <1>3 DEF Apologised, OpeningThrows
  <2>2. \A n \in Inbound : turn'[n] \in Asked => turn[n] \in Asked
    BY <2>1 DEF Settles, Rejects, Asked
  <2>3. QED
    BY <2>1, <2>2, SameHistory
<1>4. ASSUME NEW m \in Inbound, Heard(m) \/ AsksModel(m) PROVE HistoryInv'
  <2>1. turn[m] \in Active /\ (Works(m) \/ Settles(m)) /\ AddMessages(ChatOf[m], <<Row("user", m)>>)
    BY <1>4 DEF Heard, AsksModel, Works, Active
  <2>2. QED
    BY <2>1, MessageKept
<1>5. ASSUME NEW m \in Inbound, AnswersAside(m) PROVE HistoryInv'
  <2>1. PICK at \in {"refusing", "replying", "pdf"} : turn' = [turn EXCEPT ![m] = at]
    BY <1>5 DEF AnswersAside
  <2>2. turn[m] \in Active /\ Works(m) /\ turn'[m] \notin Asked
        /\ \A n \in Inbound : turn'[n] \in Asked => turn[n] \in Asked
    BY <1>0, <1>5, <2>1 DEF AnswersAside, Works, Active, Asked
  <2>3. CASE rows' = rows
    BY <2>2, <2>3, SameHistory
  <2>4. CASE rows' = [rows EXCEPT ![ChatOf[m]] = <<>>]
    <3>1. << >> \in Seq(Rows) /\ AnswersFollow(<< >>)
      BY DEF AnswersFollow
    <3>2. QED
      BY <2>2, <2>4, <3>1, OwnHistory
  <2>5. QED
    BY <1>5, <2>3, <2>4 DEF AnswersAside
<1>6. ASSUME NEW m \in Inbound, AnsweredAside(m) PROVE HistoryInv'
  <2>1. turn[m] \in Active /\ Settles(m)
    BY <1>6 DEF AnsweredAside, Active
  <2>2. CASE rows' = rows
    BY <2>1, <2>2, OthersAsked, SameHistory
  <2>3. CASE AddMessages(ChatOf[m], <<Row("user", m), Row("assistant", m)>>)
    <3> DEFINE h == rows[ChatOf[m]]
               u == Row("user", m)
               a == Row("assistant", m)
               asked == h \o <<u>>
               answered == asked \o <<a>>
    <3>1. h \in Seq(Rows) /\ AnswersFollow(h) /\ u \in Rows /\ a \in Rows
          /\ u.role # "assistant" /\ a.of = m
      BY ChatsOfInbound, RowsAreRows DEF HistoryInv, AnswersFollowTheirMessage
    <3>2. u = Row("user", m) /\ rows' = [rows EXCEPT ![ChatOf[m]] = Kept(h \o <<u, a>>)]
      BY <2>3 DEF AddMessages
    <3> HIDE DEF h, u, a
    <3>3. asked \in Seq(Rows) /\ AnswersFollow(asked) /\ EndsWith(asked, m)
      BY <3>1, <3>2, OneMoreRow
    <3> HIDE DEF asked
    <3>4. answered \in Seq(Rows) /\ AnswersFollow(answered)
      BY <3>1, <3>3, OneMoreRow
    <3>5. answered = h \o <<u, a>>
      BY <3>1, TwoRows DEF asked
    <3> HIDE DEF answered
    <3>6. Kept(answered) \in Seq(Rows) /\ AnswersFollow(Kept(answered))
      BY <3>4, KeptFollows
    <3>7. turn'[m] \notin Asked
      BY <2>1, OthersAsked
    <3>8. QED
      BY <2>1, <3>2, <3>5, <3>6, <3>7, OwnHistory
  <2>4. QED
    BY <1>6, <2>2, <2>3 DEF AnsweredAside
<1>7. ASSUME NEW m \in Inbound, TimesOut(m) \/ Reacted(m) PROVE HistoryInv'
  BY <1>7, AnswerKept DEF TimesOut, Reacted, Asked
<1>8. ASSUME NEW m \in Inbound, ModelAnswers(m) \/ RetryAnswers(m) PROVE HistoryInv'
  <2>1. UNCHANGED <<turn, rows>> \/ \E text : LoopEnds(m, text)
    BY <1>8 DEF ModelAnswers, RetryAnswers
  <2>2. QED
    BY <2>1, LoopEndsHistory, SameHistory
<1>9. ASSUME NEW c \in Chats, Note(c) PROVE HistoryInv'
  <2> DEFINE h == rows[c] \o <<Row("assistant", NoMessage)>>
  <2>1. /\ rows[c] \in Seq(Rows) /\ AnswersFollow(rows[c])
        /\ Row("assistant", NoMessage) \in Rows /\ Row("assistant", NoMessage).of = NoMessage
    BY RowsAreRows DEF HistoryInv, AnswersFollowTheirMessage
  <2>2. /\ h \in Seq(Rows) /\ AnswersFollow(h)
        /\ \A m \in Inbound : EndsWith(rows[c], m) => EndsWith(h, m)
    BY <2>1, OneMoreRow
  <2>3. rows' = [rows EXCEPT ![c] = Kept(h)] /\ turn' = turn
    BY <1>9 DEF Note, AddMessages
  <2> HIDE DEF h
  <2>4. /\ Kept(h) \in Seq(Rows) /\ AnswersFollow(Kept(h))
        /\ \A m \in Inbound : EndsWith(rows[c], m) => EndsWith(Kept(h), m)
    BY <2>2, KeptFollows
  <2>5. /\ rows' \in [Chats -> Seq(Rows)] /\ rows'[c] = Kept(h)
        /\ \A d \in Chats \ {c} : rows'[d] = rows[d]
    BY <2>3, <2>4 DEF HistoryInv
  <2>6. \A m \in Inbound : turn'[m] \in Asked => EndsWith(rows'[ChatOf[m]], m)
    <3>1. ASSUME NEW m \in Inbound, turn[m] \in Asked PROVE EndsWith(rows'[ChatOf[m]], m)
      <4>1. EndsWith(rows[ChatOf[m]], m) /\ ChatOf[m] \in Chats
        BY <3>1, ChatsOfInbound DEF HistoryInv
      <4>2. CASE ChatOf[m] = c
        BY <2>4, <2>5, <4>1, <4>2
      <4>3. CASE ChatOf[m] # c
        BY <2>5, <4>1, <4>3
      <4>4. QED
        BY <4>2, <4>3
    <3>2. QED
      BY <2>3, <3>1
  <2>7. AnswersFollowTheirMessage'
    <3>1. ASSUME NEW d \in Chats PROVE AnswersFollow(rows'[d])
      <4>1. CASE d = c
        BY <2>4, <2>5, <4>1
      <4>2. CASE d # c
        BY <2>5, <4>2 DEF HistoryInv, AnswersFollowTheirMessage
      <4>3. QED
        BY <4>1, <4>2
    <3>2. QED
      BY <3>1 DEF AnswersFollowTheirMessage
  <2>8. QED
    BY <2>5, <2>6, <2>7 DEF HistoryInv
<1>10. CASE UNCHANGED turnVars
  BY <1>10, SameHistory DEF turnVars
<1>11. QED
  BY <1>1, <1>2, <1>3, <1>4, <1>5, <1>6, <1>7, <1>8, <1>9, <1>10
     DEF ReplyTurnsNext, HandlerSteps, LoopSteps

(* However batches, timeouts and callbacks interleave, an answer stands in *)
(* its chat's history right after its message, but for what the bot says   *)
(* of its own accord (conversation.ts as whatsapp/index.ts and             *)
(* whatsapp/response-handler.ts use it under whatsapp/chat-lock.ts).       *)
THEOREM AnswersAlwaysFollow == ReplyTurnsSpec => []AnswersFollowTheirMessage
<1> DEFINE Inv == TurnInv /\ LockInv /\ HistoryInv
<1>1. ReplyTurnsInit => Inv
  <2> SUFFICES ASSUME ReplyTurnsInit PROVE Inv
    OBVIOUS
  <2>1. << >> \in Seq(Inbound) /\ << >> \in Seq(Rows) /\ DOMAIN << >> = {}
        /\ AnswersFollow(<< >>)
    BY DEF AnswersFollow
  <2>2. \A m \in Inbound : turn[m] = "unseen"
    BY DEF ReplyTurnsInit
  <2>3. LockInv
    BY <2>1, <2>2 DEF ReplyTurnsInit, LockInv, Active
  <2>4. HistoryInv
    BY <2>1, <2>2 DEF ReplyTurnsInit, HistoryInv, Asked, AnswersFollowTheirMessage
  <2>5. QED
    BY <2>3, <2>4, TurnInvInit
<1>2. Inv /\ [ReplyTurnsNext]_turnVars => Inv'
  <2> SUFFICES ASSUME Inv, [ReplyTurnsNext]_turnVars PROVE Inv'
    OBVIOUS
  <2>1. TurnInv' /\ LockMoves
    BY TurnInvStep, StepsMove
  <2>2. LockInv'
    BY <2>1, LockInvStep
  <2>3. HistoryInv'
    BY HistoryStep
  <2>4. QED
    BY <2>1, <2>2, <2>3
<1>3. Inv => AnswersFollowTheirMessage
  BY DEF HistoryInv
<1>4. QED
  BY <1>1, <1>2, <1>3, PTL DEF ReplyTurnsSpec


-----------------------------------------------------------------------------
(* Capabilities *)

(* A copy among the approved has been decided on; as long as no decision   *)
(* was cut short, it is the only copy and the decision was yes.            *)
CapabilityInv ==
    /\ CapabilitiesTypeOK
    /\ spec["approved"] # "none" => verdict # "none"
    /\ capDeaths = 0 /\ spec["approved"] # "none" =>
         spec["pending"] = "none" /\ verdict = "approved"

LEMMA CapabilityInvInit == CapabilitiesInit => CapabilityInv
<1> SUFFICES ASSUME CapabilitiesInit PROVE CapabilityInv
  OBVIOUS
<1>1. CapabilitiesTypeOK
  <2>1. capDeaths \in 0 .. MaxCapDeaths
    BY DeathsAssumption DEF CapabilitiesInit
  <2>2. restartDue \in BOOLEAN
    BY Zenon DEF CapabilitiesInit
  <2>3. spec \in [Dirs -> {"none", "whole", "torn"}]
    BY DEF CapabilitiesInit
  <2>4. QED
    BY <2>1, <2>2, <2>3, Zenon DEF CapabilitiesInit, CapabilitiesTypeOK
<1>2. spec["approved"] = "none"
  BY DEF CapabilitiesInit, Dirs
<1>3. QED
  BY <1>1, <1>2 DEF CapabilityInv

(* Who moves a run on leaves the directories and the owner's word alone.   *)
LEMMA RunsMoveOn ==
    ASSUME CapabilityInv, UNCHANGED <<spec, capDeaths, verdict>>,
           NEW r \in CapRuns, NEW from, NEW to \in {"idle", "announcing", "yuri",
                                                    "reporting", "excusing", "claude"},
           Goes(r, from, to) \/ UNCHANGED capRun,
           tree' \in {"none", "clean", "changed"}, restartDue' \in BOOLEAN
    PROVE  CapabilityInv'
  BY DEF CapabilityInv, CapabilitiesTypeOK, Goes

LEMMA CapabilityInvStep == CapabilityInv /\ [CapabilitiesNext]_capVars => CapabilityInv'
<1> SUFFICES ASSUME CapabilityInv, [CapabilitiesNext]_capVars PROVE CapabilityInv'
  OBVIOUS
<1> USE DEF CapabilityInv, CapabilitiesTypeOK
<1>1. ASSUME NEW r \in CapRuns, OwnerRequests(r) PROVE CapabilityInv'
  BY <1>1 DEF OwnerRequests, Goes, Dirs
<1>2. ASSUME NEW r \in CapRuns, OwnerApproves(r) PROVE CapabilityInv'
  BY <1>2 DEF OwnerApproves, Moved, Dirs
<1>3. ASSUME NEW r \in CapRuns,
             \/ RunCapability(r) \/ Announced(r) \/ YuriDeploys(r) \/ YuriDone(r)
             \/ RunBreaks(r) \/ Reported(r)
             \/ CodeImplement(r) \/ ClaudeDone(r) \/ ClaudeFails(r)
      PROVE  CapabilityInv'
  <2>1. UNCHANGED <<spec, capDeaths, verdict>>
    BY <1>3 DEF RunCapability, Announced, YuriDeploys, YuriDone, RunBreaks, Reported,
                CodeImplement, ClaudeDone, ClaudeFails
  <2>2. tree' \in {"none", "clean", "changed"} /\ restartDue' \in BOOLEAN
    BY <1>3 DEF RunCapability, Announced, YuriDeploys, YuriDone, RunBreaks, Reported,
                CodeImplement, ClaudeDone, ClaudeFails
  <2>3. \E from, to \in {"idle", "announcing", "yuri", "reporting", "excusing", "claude"} :
          Goes(r, from, to) \/ UNCHANGED capRun
    BY <1>3 DEF RunCapability, Announced, YuriDeploys, YuriDone, RunBreaks, Reported,
                CodeImplement, ClaudeDone, ClaudeFails
  <2>4. QED
    BY <2>1, <2>2, <2>3, RunsMoveOn
<1>4. ASSUME NEW to \in Dirs, DiesDeciding(to) PROVE CapabilityInv'
  <2>1. /\ capDeaths \in Nat /\ capDeaths' = capDeaths + 1 /\ capDeaths < MaxCapDeaths
        /\ to \in {"approved", "rejected"} /\ verdict' = to
        /\ capRun' = [r \in CapRuns |-> "idle"] /\ restartDue' = FALSE /\ UNCHANGED tree
    BY <1>4 DEF DiesDeciding
  <2>2. PICK written \in {"torn", "whole"} : spec' = [spec EXCEPT ![to] = written]
    BY <1>4 DEF DiesDeciding
  <2>3. capDeaths' \in 0 .. MaxCapDeaths /\ capDeaths' # 0
    BY <2>1, DeathsAssumption
  <2>4. spec' \in [Dirs -> {"none", "whole", "torn"}]
    BY <2>2
  <2>5. spec'["approved"] # "none" => verdict' # "none"
    BY <2>1
  <2>6. QED
    BY <2>1, <2>3, <2>4, <2>5
<1>5. CASE OthersRequest
  BY <1>5 DEF OthersRequest, Dirs
<1>6. CASE OwnerRejects
  BY <1>6 DEF OwnerRejects, Moved, Dirs
<1>7. CASE BotRestarts
  BY <1>7 DEF BotRestarts
<1>8. CASE CodeStartSession \/ TreeChanges \/ CodeApply \/ CodeCleanup
  BY <1>8 DEF CodeStartSession, TreeChanges, CodeApply, CodeCleanup
<1>9. CASE UNCHANGED capVars
  BY <1>9 DEF capVars
<1>10. QED
  BY <1>1, <1>2, <1>3, <1>4, <1>5, <1>6, <1>7, <1>8, <1>9 DEF CapabilitiesNext

(* Work begins by the owner's own request, by his approval, or on a copy   *)
(* that counts as approved.                                                *)
LEMMA WorkBegins ==
    ASSUME CapabilityInv, CapabilitiesNext,
           NEW r \in CapRuns, capRun[r] = "idle", capRun'[r] # "idle"
    PROVE  \/ verdict' = "approved"
           \/ Status = "approved" /\ UNCHANGED <<verdict, capDeaths>>
<1> USE DEF CapabilityInv, CapabilitiesTypeOK
<1>1. ASSUME NEW q \in CapRuns, OwnerRequests(q) \/ OwnerApproves(q)
      PROVE  verdict' = "approved"
  BY <1>1 DEF OwnerRequests, OwnerApproves
<1>2. ASSUME NEW q \in CapRuns, RunCapability(q) \/ CodeImplement(q)
      PROVE  Status = "approved" /\ UNCHANGED <<verdict, capDeaths>>
  BY <1>2 DEF RunCapability, CodeImplement
<1>3. ASSUME NEW q \in CapRuns,
             \/ Announced(q) \/ YuriDeploys(q) \/ YuriDone(q) \/ RunBreaks(q) \/ Reported(q)
             \/ ClaudeDone(q) \/ ClaudeFails(q)
      PROVE  FALSE
  BY <1>3 DEF Announced, YuriDeploys, YuriDone, RunBreaks, Reported, ClaudeDone,
              ClaudeFails, Goes
<1>4. ASSUME \/ OthersRequest \/ OwnerRejects \/ BotRestarts
             \/ CodeStartSession \/ TreeChanges \/ CodeApply \/ CodeCleanup
             \/ \E to \in Dirs : DiesDeciding(to)
      PROVE  FALSE
  BY <1>4 DEF OthersRequest, OwnerRejects, BotRestarts, CodeStartSession, TreeChanges,
              CodeApply, CodeCleanup, DiesDeciding
<1>5. QED
  BY <1>1, <1>2, <1>3, <1>4 DEF CapabilitiesNext

(* Whatever runs, dies and restarts meanwhile, nothing is built that was   *)
(* not approved (NothingUnapprovedBegins).                                 *)
THEOREM OnlyApprovedIsBuilt == CapabilitiesSpec => NothingUnapprovedBegins
<1>1. CapabilityInv /\ [CapabilitiesNext]_capVars =>
        [\A r \in CapRuns : capRun[r] = "idle" /\ capRun'[r] # "idle" =>
            verdict' # "none" /\ (verdict' = "rejected" => capDeaths > 0)]_capVars
  <2> SUFFICES ASSUME CapabilityInv, CapabilitiesNext, NEW r \in CapRuns,
                      capRun[r] = "idle", capRun'[r] # "idle"
               PROVE  verdict' # "none" /\ (verdict' = "rejected" => capDeaths > 0)
    BY DEF capVars
  <2>1. CASE verdict' = "approved"
    BY <2>1
  <2>2. CASE Status = "approved" /\ verdict' = verdict
    <3>1. spec["approved"] # "none"
      BY <2>2 DEF Status
    <3>2. capDeaths \in Nat
      BY DEF CapabilityInv, CapabilitiesTypeOK
    <3>3. QED
      BY <2>2, <3>1, <3>2 DEF CapabilityInv
  <2>3. QED
    BY <2>1, <2>2, WorkBegins
<1>2. QED
  BY CapabilityInvInit, CapabilityInvStep, <1>1, PTL
     DEF CapabilitiesSpec, NothingUnapprovedBegins

-----------------------------------------------------------------------------
(* Plans *)

PlanInv == planDeaths \in Nat /\ PlanStatusFits

LEMMA PlanInvStep == PlanInv /\ [PlansNext]_planVars => PlanInv'
<1> SUFFICES ASSUME PlanInv, [PlansNext]_planVars PROVE PlanInv'
  OBVIOUS
<1> USE DEF PlanInv, PlanStatusFits
<1>1. ASSUME NEW s \in PlanSteps, NEW status \in StepStatus, UpdateStep(s, status)
      PROVE  PlanInv'
  BY <1>1 DEF UpdateStep, Finished
<1>2. ASSUME NEW s \in PlanSteps, NEW status \in StepStatus, DiesUpdating(s, status)
      PROVE  PlanInv'
  <2>1. planDeaths' = planDeaths + 1 /\ planDeaths \in Nat
    BY <1>2 DEF DiesUpdating
  <2>2. plan = "completed" => Finished(step') \/ reopened'
    BY <1>2, Zenon DEF DiesUpdating
  <2>3. plan' = plan
    BY <1>2 DEF DiesUpdating
  <2>4. Finished(step)' <=> Finished(step')
    BY DEF Finished
  <2>5. QED
    BY <2>1, <2>2, <2>3, <2>4
<1>3. CASE CreatePlan
  BY <1>3 DEF CreatePlan, Finished
<1>4. CASE CleanCompletedPlans
  BY <1>4 DEF CleanCompletedPlans
<1>5. CASE UNCHANGED planVars
  BY <1>5 DEF planVars, Finished
<1>6. QED
  BY <1>1, <1>2, <1>3, <1>4, <1>5 DEF PlansNext

(* A plan's row says what its steps say, whoever updates which step, but   *)
(* for a death between the two writes (PlanStatusFits).                    *)
THEOREM PlansFitTheirSteps == PlansSpec => []PlanStatusFits
<1>1. PlansInit => PlanInv
  BY DEF PlansInit, PlanInv, PlanStatusFits
<1>2. PlanInv => PlanStatusFits
  BY DEF PlanInv
<1>3. QED
  BY <1>1, <1>2, PlanInvStep, PTL DEF PlansSpec

-----------------------------------------------------------------------------
(* The connection and the dashboard's notes *)

(* A client starts its poller when it connects, and a poll runs to its end *)
(* or dies with its process.  A request that has read the file knows all   *)
(* that is in it, and what it read and is no longer there was cleared by a *)
(* poll beside it.                                                         *)
PollsLive ==
    /\ link = "connecting" => pollers < client
    /\ polling.on => link \notin {"ended", "loggedOut"}

RequestKnows ==
    IF request.at = "read"
    THEN noteFile \subseteq request.read /\ request.read \subseteq noteFile \cup muddled
    ELSE request.read = {} /\ request.note = {}

(* Nothing is known of a follow-up not yet completed, and the note of a    *)
(* request is nowhere but in its hands.                                    *)
Untouched(n) == handed[n] = 0 /\ n \notin noteFile \cup request.read

NotesNew ==
    /\ \A n \in Completions \ completed : Untouched(n) /\ n \notin request.note
    /\ \A n \in request.note : Untouched(n) /\ n \in completed

(* What lies in the file was handed over by the poll under way, if there   *)
(* is one, and by none before it.                                          *)
FileToCome ==
    \A n \in noteFile \ muddled :
        IF polling.on THEN handed[n] > 0 ELSE deaths = 0 => handed[n] = 0

ConnectionInv ==
    ConnectionTypeOK /\ PollsLive /\ RequestKnows /\ NotesNew /\ FileToCome
    /\ NotesHandedOnce

LEMMA NothingUnderWay ==
    /\ NoPoll \in [on : BOOLEAN, read : SUBSET Completions] /\ ~ NoPoll.on
    /\ NoRequest \in [at : {"idle", "read"}, note : SUBSET Completions, read : SUBSET Completions]
    /\ NoRequest.at = "idle" /\ NoRequest.note = {} /\ NoRequest.read = {}
<1>1. "idle" \in {"idle", "read"} /\ {} \in SUBSET Completions /\ FALSE \in BOOLEAN
  OBVIOUS
<1>2. QED
  BY <1>1 DEF NoPoll, NoRequest

LEMMA ConnectionInvInit == ConnectionInit => ConnectionInv
<1> SUFFICES ASSUME ConnectionInit PROVE ConnectionInv
  OBVIOUS
<1>1. /\ link = "connecting" /\ client = 1 /\ quiet = {} /\ pollers = 0 /\ polling = NoPoll
      /\ noteFile = {} /\ request = NoRequest /\ completed = {} /\ deaths = 0
      /\ handed = [n \in Completions |-> 0] /\ muddled = {} /\ shotDown = FALSE
  BY DEF ConnectionInit
<1>2. handed \in [Completions -> 0 .. 2] /\ 1 \in Clients /\ 0 \in 0 .. MaxDeaths /\ 0 \in 0 .. 1
  BY <1>1, ConnectionAssumption DEF Clients
<1>3. ConnectionTypeOK
  BY <1>1, <1>2, NothingUnderWay DEF ConnectionTypeOK
<1>4. RequestKnows /\ NotesNew
  BY <1>1, NothingUnderWay DEF RequestKnows, NotesNew, Untouched
<1>5. PollsLive /\ FileToCome /\ NotesHandedOnce
  BY <1>1, NothingUnderWay DEF PollsLive, FileToCome, NotesHandedOnce
<1>6. QED
  BY <1>3, <1>4, <1>5 DEF ConnectionInv

(* What leaves the file and the poll alone leaves the notes as they are.   *)
LEMMA NotesAtRest ==
    ASSUME RequestKnows, NotesNew, FileToCome, NotesHandedOnce,
           UNCHANGED noteVars, UNCHANGED deaths, polling'.on = polling.on
    PROVE  RequestKnows' /\ NotesNew' /\ FileToCome' /\ NotesHandedOnce'
  BY DEF noteVars, RequestKnows, NotesNew, Untouched, FileToCome, NotesHandedOnce

LEMMA ConnectionInvStep == ConnectionInv /\ [ConnectionNext]_connectionVars => ConnectionInv'
<1> SUFFICES ASSUME ConnectionInv, [ConnectionNext]_connectionVars PROVE ConnectionInv'
  OBVIOUS
<1>a. /\ link \in {"connecting", "open", "waiting", "ended", "loggedOut"}
      /\ client \in Nat /\ client >= 1 /\ client <= LastClient /\ LastClient \in Nat
      /\ quiet \subseteq 1 .. client /\ pollers \in 0 .. client
      /\ polling \in [on : BOOLEAN, read : SUBSET Completions]
      /\ noteFile \subseteq Completions
      /\ request \in [at : {"idle", "read"}, note : SUBSET Completions, read : SUBSET Completions]
      /\ completed \subseteq Completions /\ deaths \in 0 .. MaxDeaths /\ MaxDeaths \in Nat
      /\ handed \in [Completions -> 0 .. 2] /\ muddled \subseteq Completions
      /\ shotDown \in BOOLEAN
  BY ConnectionAssumption DEF ConnectionInv, ConnectionTypeOK, Clients
<1>b. PollsLive /\ RequestKnows /\ NotesNew /\ FileToCome /\ NotesHandedOnce
  BY DEF ConnectionInv
<1>1. CASE \/ Opens \/ Closes \/ LoggedOut \/ Reconnects \/ ReconnectFails \/ HearsMessage
           \/ \E c \in Clients : FallsQuiet(c)
  <2>1. UNCHANGED noteVars /\ UNCHANGED <<deaths, polling, shotDown>>
    BY <1>1 DEF Opens, Closes, LoggedOut, Reconnects, ReconnectFails, HearsMessage, FallsQuiet
  <2>2. RequestKnows' /\ NotesNew' /\ FileToCome' /\ NotesHandedOnce'
    BY <1>b, <2>1, NotesAtRest
  <2>3. /\ link' \in {"connecting", "open", "waiting", "ended", "loggedOut"}
        /\ client' \in Nat /\ client' >= client /\ client' <= LastClient
    BY <1>1, <1>a
       DEF Opens, Closes, LoggedOut, Reconnects, ReconnectFails, HearsMessage, FallsQuiet
  <2>4. pollers' \in 0 .. client'
    BY <1>1, <1>a, <1>b
       DEF Opens, Closes, LoggedOut, Reconnects, ReconnectFails, HearsMessage, FallsQuiet,
           PollsLive
  <2>5. quiet' \subseteq 1 .. client'
    <3>1. \/ quiet' \subseteq quiet
          \/ \E c \in 1 .. client : quiet' = quiet \cup {c} /\ client' = client
      BY <1>1
         DEF Opens, Closes, LoggedOut, Reconnects, ReconnectFails, HearsMessage, FallsQuiet
    <3>2. 1 .. client \subseteq 1 .. client'
      BY <1>a, <2>3
    <3>3. QED
      BY <1>a, <3>1, <3>2
  <2>6. ConnectionTypeOK'
    BY <1>a, <2>1, <2>3, <2>4, <2>5 DEF ConnectionTypeOK, Clients, noteVars
  <2>7. PollsLive'
    BY <1>1, <1>a, <1>b, <2>1
       DEF Opens, Closes, LoggedOut, Reconnects, ReconnectFails, HearsMessage, FallsQuiet,
           PollsLive
  <2>8. QED
    BY <2>2, <2>6, <2>7 DEF ConnectionInv
<1>2. ASSUME NEW c \in Clients, HealthCheckExits(c) PROVE ConnectionInv'
  <2>1. /\ UNCHANGED noteVars /\ UNCHANGED <<deaths, polling, client, quiet, pollers>>
        /\ link' = "ended" /\ shotDown' = (client \notin quiet) /\ c \in quiet /\ ~ polling.on
    BY <1>2 DEF HealthCheckExits
  <2>2. RequestKnows' /\ NotesNew' /\ FileToCome' /\ NotesHandedOnce'
    BY <1>b, <2>1, NotesAtRest
  <2>3. shotDown' \in BOOLEAN
    BY <2>1, Zenon
  <2>4. ConnectionTypeOK'
    BY <1>a, <2>1, <2>3 DEF ConnectionTypeOK, Clients, noteVars
  <2>5. QED
    BY <2>1, <2>2, <2>4 DEF ConnectionInv, PollsLive
<1>3. CASE Pm2Restarts
  <2>1. /\ UNCHANGED noteVars /\ UNCHANGED deaths /\ ~ polling.on /\ polling' = NoPoll
        /\ link' = "connecting" /\ client' = 1 /\ quiet' = {} /\ pollers' = 0 /\ shotDown' = FALSE
    BY <1>3, <1>b DEF Pm2Restarts, PollsLive
  <2>2. polling'.on = polling.on
    BY <1>a, <2>1 DEF NoPoll
  <2>3. RequestKnows' /\ NotesNew' /\ FileToCome' /\ NotesHandedOnce'
    BY <1>b, <2>1, <2>2, NotesAtRest
  <2>4. PollsLive'
    BY <2>1, NothingUnderWay DEF PollsLive
  <2>5. client' \in Clients /\ quiet' \subseteq 1 .. client' /\ pollers' \in 0 .. client'
    BY <1>a, <2>1 DEF Clients
  <2>6. ConnectionTypeOK'
    BY <1>a, <2>1, <2>5, NothingUnderWay DEF ConnectionTypeOK, Clients, noteVars
  <2>7. QED
    BY <2>3, <2>4, <2>6 DEF ConnectionInv
<1>4. CASE Killed
  <2>1. /\ UNCHANGED <<noteFile, request, completed, handed, muddled, client, quiet, pollers>>
        /\ deaths' = deaths + 1 /\ deaths < MaxDeaths /\ polling' = NoPoll
        /\ link' = "ended" /\ shotDown' = FALSE
    BY <1>4 DEF Killed, noteVars
  <2>0. deaths' \in 0 .. MaxDeaths
    BY <1>a, <2>1
  <2>2. ConnectionTypeOK' /\ PollsLive'
    <3>1. PollsLive'
      BY <2>1, NothingUnderWay DEF PollsLive
    <3>2. link' \in {"connecting", "open", "waiting", "ended", "loggedOut"}
      BY <2>1
    <3>3. shotDown' \in BOOLEAN
      BY <2>1, Zenon
    <3>4. polling' \in [on : BOOLEAN, read : SUBSET Completions]
      BY <2>1, NothingUnderWay
    <3>5. client \in Clients
      BY <1>a DEF Clients
    <3>6. ConnectionTypeOK'
      BY <1>a, <2>0, <2>1, <3>2, <3>3, <3>4, <3>5 DEF ConnectionTypeOK
    <3>7. QED
      BY <3>1, <3>6
  <2>3. RequestKnows' /\ NotesNew'
    BY <1>b, <2>1 DEF RequestKnows, NotesNew, Untouched
  <2>4. FileToCome' /\ NotesHandedOnce'
    BY <1>a, <1>b, <2>1 DEF FileToCome, NotesHandedOnce, NoPoll
  <2>5. QED
    BY <2>2, <2>3, <2>4 DEF ConnectionInv
<1>5. ASSUME NEW n \in Completions, DashboardReadsNotes(n) PROVE ConnectionInv'
  <2>1. /\ request = NoRequest /\ n \notin completed /\ completed' = completed \cup {n}
        /\ request' = [at |-> "read", note |-> {n}, read |-> noteFile]
        /\ muddled' = IF polling.on THEN muddled \cup {n} \cup noteFile ELSE muddled
        /\ UNCHANGED <<link, client, quiet, pollers, polling, deaths, shotDown, noteFile, handed>>
    BY <1>5 DEF DashboardReadsNotes
  <2>2. request'.at = "read" /\ request'.note = {n} /\ request'.read = noteFile
        /\ request.note = {} /\ request.read = {}
    BY <2>1 DEF NoRequest
  <2>3. ConnectionTypeOK' /\ PollsLive'
    BY <1>a, <1>b, <2>1 DEF ConnectionTypeOK, Clients, PollsLive
  <2>4. RequestKnows'
    BY <2>1, <2>2 DEF RequestKnows
  <2>5. handed[n] = 0 /\ n \notin noteFile
    BY <1>b, <2>1 DEF NotesNew, Untouched
  <2>6. NotesNew'
    BY <1>b, <2>1, <2>2, <2>5 DEF NotesNew, Untouched
  <2>7. FileToCome'
    BY <1>b, <2>1 DEF FileToCome
  <2>8. NotesHandedOnce'
    BY <1>b, <2>1, <2>2, <2>5 DEF NotesHandedOnce
  <2>9. QED
    BY <2>3, <2>4, <2>6, <2>7, <2>8 DEF ConnectionInv
<1>6. CASE DashboardWritesNotes
  <2>1. /\ request.at = "read" /\ noteFile' = request.read \cup request.note
        /\ muddled' = IF polling.on THEN muddled \cup request.note ELSE muddled
        /\ request' = NoRequest
        /\ UNCHANGED <<link, client, quiet, pollers, polling, deaths, shotDown, completed, handed>>
    BY <1>6 DEF DashboardWritesNotes
  <2>2. request'.at = "idle" /\ request'.note = {} /\ request'.read = {}
    BY <2>1 DEF NoRequest
  <2>3. ConnectionTypeOK' /\ PollsLive'
    BY <1>a, <1>b, <2>1 DEF ConnectionTypeOK, Clients, PollsLive, NoRequest
  <2>4. RequestKnows'
    BY <2>2 DEF RequestKnows
  <2>5. noteFile \subseteq request.read /\ request.read \subseteq noteFile \cup muddled
    BY <1>b, <2>1 DEF RequestKnows
  <2>6. NotesNew'
    BY <1>b, <2>1, <2>2 DEF NotesNew, Untouched
  <2>7. FileToCome'
    BY <1>b, <2>1, <2>5 DEF FileToCome, NotesNew, Untouched
  <2>8. NotesHandedOnce'
    BY <1>b, <2>1, <2>2, <2>5 DEF NotesHandedOnce
  <2>9. QED
    BY <2>3, <2>4, <2>6, <2>7, <2>8 DEF ConnectionInv
<1>7. CASE PollReadsNotes
  <2>1. /\ link \notin {"ended", "loggedOut"} /\ ~ polling.on
        /\ polling' = [on |-> TRUE, read |-> noteFile]
        /\ handed' = [n \in Completions |-> IF n \in noteFile /\ handed[n] < 2 THEN handed[n] + 1
                                            ELSE handed[n]]
        /\ UNCHANGED <<link, client, quiet, pollers, deaths, shotDown, noteFile, request,
                       completed, muddled>>
    BY <1>7 DEF PollReadsNotes
  <2>2. \A n \in Completions :
           /\ handed[n] \in 0 .. 2 /\ handed'[n] \in 0 .. 2
           /\ n \in noteFile => handed'[n] > 0 /\ (handed[n] = 0 => handed'[n] = 1)
           /\ n \notin noteFile => handed'[n] = handed[n]
    BY <1>a, <2>1
  <2>3. ConnectionTypeOK' /\ PollsLive' /\ RequestKnows'
    BY <1>a, <1>b, <2>1, <2>2
       DEF ConnectionTypeOK, Clients, PollsLive, RequestKnows
  <2>4. NotesNew'
    BY <1>a, <1>b, <2>1, <2>2 DEF NotesNew, Untouched
  <2>5. FileToCome'
    BY <1>a, <2>1, <2>2 DEF FileToCome
  <2>6. NotesHandedOnce'
    <3>1. ASSUME NEW n \in completed \ muddled
          PROVE  /\ handed'[n] > 1 => deaths > 0
                 /\ handed'[n] = 0 => n \in noteFile \cup request.note
      BY <1>a, <1>b, <2>1, <2>2, <3>1 DEF NotesHandedOnce, FileToCome
    <3>2. QED
      BY <2>1, <3>1 DEF NotesHandedOnce
  <2>7. QED
    BY <2>3, <2>4, <2>5, <2>6 DEF ConnectionInv
<1>8. CASE PollClearsNotes
  <2>1. /\ polling.on /\ polling' = NoPoll /\ noteFile' = {}
        /\ muddled' = IF request.at = "read" THEN muddled \cup request.note \cup request.read
                      ELSE muddled
        /\ UNCHANGED <<link, client, quiet, pollers, deaths, shotDown, request, completed, handed>>
    BY <1>8 DEF PollClearsNotes
  <2>2. ConnectionTypeOK' /\ PollsLive'
    BY <1>a, <1>b, <2>1 DEF ConnectionTypeOK, Clients, PollsLive, NoPoll
  <2>3. RequestKnows' /\ NotesNew' /\ FileToCome'
    BY <1>a, <1>b, <2>1 DEF RequestKnows, NotesNew, Untouched, FileToCome
  <2>4. NotesHandedOnce'
    BY <1>a, <1>b, <2>1 DEF NotesHandedOnce, FileToCome, RequestKnows
  <2>5. QED
    BY <2>2, <2>3, <2>4 DEF ConnectionInv
<1>9. CASE UNCHANGED connectionVars
  BY <1>9, <1>a, <1>b, NotesAtRest
     DEF connectionVars, noteVars, ConnectionInv, ConnectionTypeOK, Clients, PollsLive
<1>10. QED
  BY <1>1, <1>2, <1>3, <1>4, <1>5, <1>6, <1>7, <1>8, <1>9 DEF ConnectionNext

(* A note the dashboard leaves (dashboard/app/api/followups/route.ts) is   *)
(* handed to the send queue once, however many pollers reconnections have  *)
(* left and whenever the process ends, but for a request that overlaps a   *)
(* poll and a death in one (NotesHandedOnce).                              *)
THEOREM NotesAreHandedOnce == ConnectionSpec => []NotesHandedOnce
<1>1. ConnectionInv => NotesHandedOnce
  BY DEF ConnectionInv
<1>2. QED
  BY ConnectionInvInit, ConnectionInvStep, <1>1, PTL DEF ConnectionSpec
=============================================================================
