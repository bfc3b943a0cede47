----------------------------- MODULE SendQueue -----------------------------
(***************************************************************************)
(* The outgoing queue (src/whatsapp/send-queue.ts): one processQueue loop  *)
(* per chat with a backlog, all loops sharing lastGlobalSend and the burst *)
(* window.  One action is one stretch of a loop between two awaits.        *)
(*                                                                         *)
(* Time passes in units of Tick.  A sleep ends at its deadline or later; a *)
(* capped age is as good as any larger one, for the code only compares it. *)
(***************************************************************************)
EXTENDS Integers, Sequences

CONSTANTS
    Recipients,        \* chats
    Messages,          \* each is sent to queuedSendMessage at most once
    None,              \* no message in hand
    GlobalMinDelay,    \* GLOBAL_MIN_DELAY
    GapMin, GapMax,    \* PER_CHAT_DELAY_MIN and _MAX
    BurstThreshold,    \* BURST_THRESHOLD
    BurstCooldown,     \* BURST_COOLDOWN
    BurstWindow        \* BURST_WINDOW

ASSUME NoneAssumption == None \notin Messages
ASSUME DelayAssumption ==
    /\ GlobalMinDelay \in Nat \ {0} /\ BurstCooldown \in Nat \ {0}
    /\ GapMin \in Nat \ {0} /\ GapMax \in Nat /\ GapMin <= GapMax
    /\ BurstThreshold \in Nat \ {0} /\ BurstWindow \in Nat

VARIABLES
    clientReady, \* clientRef is set
    queue,       \* chatQueues: the backlog of each chat
    at,          \* where a chat's processQueue loop awaits; "idle": no loop
    item,        \* the message a loop has shifted off its backlog
    timer,       \* what is left of a loop's sleep
    sinceSend,   \* Date.now() - lastGlobalSend, capped
    burst,       \* recentSendCount
    windowAge,   \* Date.now() - recentSendWindowStart, capped
    fate         \* what became of each message

queueVars ==
    <<clientReady, queue, at, item, timer, sinceSend, burst, windowAge, fate>>

Places == {"idle", "throttled", "cooling", "sending", "gap"}
Fates == {"unsent", "waiting", "resolved", "rejected", "lost"}

QueueTypeOK ==
    /\ clientReady \in BOOLEAN
    /\ queue \in [Recipients -> Seq(Messages)]
    /\ at \in [Recipients -> Places]
    /\ item \in [Recipients -> Messages \cup {None}]
    /\ timer \in [Recipients -> Nat]
    /\ sinceSend \in 0 .. GlobalMinDelay
    /\ burst \in 0 .. BurstThreshold - 1
    /\ windowAge \in 0 .. BurstWindow + 1
    /\ fate \in [Messages -> Fates]

QueueInit ==
    /\ clientReady = FALSE
    /\ queue = [c \in Recipients |-> <<>>]
    /\ at = [c \in Recipients |-> "idle"]
    /\ item = [c \in Recipients |-> None]
    /\ timer = [c \in Recipients |-> 0]
    /\ sinceSend = GlobalMinDelay
    /\ burst = 0
    /\ windowAge = BurstWindow + 1
    /\ fate = [m \in Messages |-> "unsent"]

-----------------------------------------------------------------------------
(* The stretches of processQueue. *)

Sleep(c, place, t) ==
    /\ at' = [at EXCEPT ![c] = place]
    /\ timer' = [timer EXCEPT ![c] = t]

Awake(c, place) == at[c] = place /\ timer[c] = 0

(* lastGlobalSend = now; sendMessage is called and awaited. *)
Send(c) ==
    /\ Sleep(c, "sending", 0)
    /\ sinceSend' = 0

(***************************************************************************)
(* trackBurst: a window that is over starts again, the send is counted,    *)
(* and the one that reaches the threshold starts a new window and first    *)
(* sits out the cooldown.                                                  *)
(***************************************************************************)
BurstCheck(c) ==
    LET over == windowAge > BurstWindow
        count == (IF over THEN 0 ELSE burst) + 1
    IN  IF count >= BurstThreshold
        THEN /\ burst' = 0 /\ windowAge' = 0
             /\ Sleep(c, "cooling", BurstCooldown)
             /\ UNCHANGED sinceSend
        ELSE /\ burst' = count
             /\ windowAge' = IF over THEN 0 ELSE windowAge
             /\ Send(c)

(* The head of the backlog is shifted off and waits for the global delay. *)
TakeFrom(c, backlog) ==
    /\ item' = [item EXCEPT ![c] = Head(backlog)]
    /\ queue' = [queue EXCEPT ![c] = Tail(backlog)]
    /\ IF sinceSend < GlobalMinDelay
       THEN /\ Sleep(c, "throttled", GlobalMinDelay - sinceSend)
            /\ UNCHANGED <<sinceSend, burst, windowAge>>
       ELSE BurstCheck(c)

(* Mutants: what a slip in this code would do. *)

QueuedSendAtFront(c, m) ==       \* unshift instead of push
    /\ clientReady /\ fate[m] = "unsent"
    /\ fate' = [fate EXCEPT ![m] = "waiting"]
    /\ IF at[c] = "idle"
       THEN TakeFrom(c, <<m>>)
       ELSE /\ queue' = [queue EXCEPT ![c] = <<m>> \o @]
            /\ UNCHANGED <<at, item, timer, sinceSend, burst, windowAge>>
    /\ UNCHANGED clientReady

AnsweredAndDone(c, how) ==       \* the loop does not look at its backlog again
    /\ at[c] = "sending"
    /\ fate' = [fate EXCEPT ![item[c]] = how]
    /\ item' = [item EXCEPT ![c] = None]
    /\ Sleep(c, "idle", 0)
    /\ UNCHANGED <<clientReady, queue, sinceSend, burst, windowAge>>

(***************************************************************************)
(* queuedSendMessage: the message joins its chat's backlog, and where no   *)
(* loop runs one starts at once.  Before initSendQueue the call is         *)
(* rejected and nothing changes.                                           *)
(***************************************************************************)
QueuedSendMessage(c, m) ==
    /\ clientReady /\ fate[m] = "unsent"
    /\ fate' = [fate EXCEPT ![m] = "waiting"]
    /\ IF at[c] = "idle"
       THEN TakeFrom(c, Append(queue[c], m))
       ELSE /\ queue' = [queue EXCEPT ![c] = Append(@, m)]
            /\ UNCHANGED <<at, item, timer, sinceSend, burst, windowAge>>
    /\ UNCHANGED clientReady

ThrottleOver(c) ==
    /\ Awake(c, "throttled")
    /\ BurstCheck(c)
    /\ UNCHANGED <<clientReady, queue, item, fate>>

CooldownOver(c) ==
    /\ Awake(c, "cooling")
    /\ Send(c)
    /\ UNCHANGED <<clientReady, queue, item, burst, windowAge, fate>>

(***************************************************************************)
(* sendMessage resolves or rejects; the caller's promise follows it.  With *)
(* a backlog the loop sleeps a random while, without one it ends.          *)
(***************************************************************************)
Answered(c, how) ==
    /\ at[c] = "sending"
    /\ fate' = [fate EXCEPT ![item[c]] = how]
    /\ item' = [item EXCEPT ![c] = None]
    /\ IF queue[c] = <<>> THEN Sleep(c, "idle", 0)
       ELSE \E t \in GapMin .. GapMax : Sleep(c, "gap", t)
    /\ UNCHANGED <<clientReady, queue, sinceSend, burst, windowAge>>

GapOver(c) ==
    /\ Awake(c, "gap")
    /\ TakeFrom(c, queue[c])
    /\ UNCHANGED <<clientReady, fate>>

-----------------------------------------------------------------------------
(* The rest of the process. *)

(* initSendQueue, at every opening of a connection. *)
InitSendQueue ==
    /\ clientReady' = TRUE
    /\ UNCHANGED <<queue, at, item, timer, sinceSend, burst, windowAge, fate>>

(* The process exits and starts again: the queues were only in memory. *)
QueueRestart ==
    /\ clientReady' = FALSE
    /\ queue' = [c \in Recipients |-> <<>>]
    /\ at' = [c \in Recipients |-> "idle"]
    /\ item' = [c \in Recipients |-> None]
    /\ timer' = [c \in Recipients |-> 0]
    /\ sinceSend' = GlobalMinDelay
    /\ burst' = 0
    /\ windowAge' = BurstWindow + 1
    /\ fate' = [m \in Messages |-> IF fate[m] = "waiting" THEN "lost" ELSE fate[m]]

Older(age, cap) == IF age < cap THEN age + 1 ELSE age

Tick ==
    /\ timer' = [c \in Recipients |-> IF timer[c] > 0 THEN timer[c] - 1 ELSE 0]
    /\ sinceSend' = Older(sinceSend, GlobalMinDelay)
    /\ windowAge' = Older(windowAge, BurstWindow + 1)
    /\ UNCHANGED <<clientReady, queue, at, item, burst, fate>>

Loop(c) ==
    \/ ThrottleOver(c)
    \/ CooldownOver(c)
    \/ GapOver(c)

QueueNext ==
    \/ \E c \in Recipients, m \in Messages : QueuedSendMessage(c, m)
    \/ \E c \in Recipients : Loop(c)
    \/ \E c \in Recipients, how \in {"resolved", "rejected"} : Answered(c, how)
    \/ InitSendQueue
    \/ QueueRestart
    \/ Tick

QueueSpec == QueueInit /\ [][QueueNext]_queueVars

(***************************************************************************)
(* Timers fire, and the transport settles every sendMessage: this is an    *)
(* assumption about it, for the queue puts no time limit on a send.        *)
(***************************************************************************)
Fairness ==
    /\ WF_queueVars(Tick)
    /\ \A c \in Recipients :
          /\ WF_queueVars(Loop(c))
          /\ WF_queueVars(Answered(c, "resolved") \/ Answered(c, "rejected"))

LiveSpec == QueueSpec /\ Fairness

-----------------------------------------------------------------------------
Line ==
    [c \in Recipients |->
        (IF item[c] = None THEN <<>> ELSE <<item[c]>>) \o queue[c]]

Outbox == INSTANCE ChatOutbox WITH Chats <- Recipients, line <- Line

(* To its callers the queue is a line per chat: each message is answered   *)
(* once and in the order of the calls, whatever delays, failures and other *)
(* chats' sends come in between, and under fairness it is answered.        *)
OutboxSpec == Outbox!LiveSpec

(* A chat with a backlog always has a loop, which holds a message exactly  *)
(* while it delays or sends one: none is left behind as a loop ends.       *)
NobodyStranded ==
    \A c \in Recipients :
        /\ queue[c] # <<>> => at[c] # "idle"
        /\ item[c] # None <=> at[c] \in {"throttled", "cooling", "sending"}
        /\ at[c] = "gap" => queue[c] # <<>>

(* send-queue.ts:62, "Enforce global minimum delay": a message leaves only *)
(* when the last one, of whichever chat, left GlobalMinDelay ago.          *)
GlobalMinDelayEnforced ==
    [][\A c \in Recipients : at'[c] = "sending" /\ at[c] # "sending" =>
          sinceSend = GlobalMinDelay]_queueVars
=============================================================================
