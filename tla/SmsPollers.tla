------------------------------ MODULE SmsPollers ------------------------------
(***************************************************************************)
(* The two readers of the Messages database: the delivery poller, whose    *)
(* cursor is a variable set anew at every opening of the connection, and   *)
(* the watcher of chosen senders, whose cursor is a file.  A poll reads a  *)
(* batch, moves its cursor in the same stretch, and then awaits a send per *)
(* message, so polls overlap.  Followed from sms/delivery-poller.ts,       *)
(* sms-watcher.ts, delivery-store.ts and extract_sms.py.                   *)
(***************************************************************************)
EXTENDS Integers, Sequences, FiniteSets, Functions, Lists

CONSTANTS LastSms,       \* the messages of a run are 1 .. LastSms, by rowid
          SentAt,          \* SentAt[m]: the date of m, not in the order of rowids
          DeliveryOf,      \* DeliveryOf[m]: the delivery m is about
          NoDelivery,      \* what a message is about that is not a delivery
          WatchedSms,      \* messages a watched sender's filter accepts
          SmsPolls,        \* polls under way, of either reader
          BatchLimit,      \* rows a query returns at most
          MaxSmsFaults     \* restarts and reconnections, together

Sms == 1 .. LastSms

ASSUME SmsAssumption ==
  /\ LastSms \in Nat /\ SentAt \in [Sms -> Int]
  /\ WatchedSms \subseteq Sms /\ BatchLimit \in Nat \ {0}

VARIABLES newestSms,     \* the last rowid
          deliveryCursor,  \* lastCheckedId of the delivery poller; -1: not started
          deliveries,      \* messages recorded in deliveries.json
          watchCursor,     \* lastCheckedId of the watcher; -1: not started
          watchFile,       \* the cursor in its file, 0 if there is none or torn
          smsPoll,         \* where each poll stands
          smsFaults,       \* how many of MaxSmsFaults there were
          told,            \* ghost: how often each message was forwarded, by reader
          filesLost,       \* ghost: readers whose file was torn, or not written once 
          unlooked         \* ghost: before the first cursor, blocked, left out, lost

smsVars == <<newestSms, deliveryCursor, deliveries, watchCursor, watchFile, smsPoll,
             smsFaults, told, filesLost, unlooked>>

Readers == {"delivery", "watcher"}
NoSmsPoll == [reader |-> "delivery", todo |-> <<>>]

SmsTypeOK ==
  /\ newestSms \in 0 .. LastSms
  /\ deliveryCursor \in -1 .. LastSms
  /\ deliveries \subseteq Sms
  /\ watchCursor \in -1 .. LastSms
  /\ watchFile \in 0 .. LastSms
  /\ smsPoll \in [SmsPolls -> [reader : Readers, todo : Seq(Sms)]]
  /\ smsFaults \in 0 .. MaxSmsFaults
  /\ told \in [Readers -> [Sms -> 0 .. 2]]
  /\ filesLost \subseteq Readers
  /\ unlooked \subseteq Sms

SmsInit ==
  /\ newestSms \in 0 .. LastSms
  /\ deliveryCursor = -1
  /\ deliveries = {}
  /\ watchCursor = -1
  /\ watchFile = 0
  /\ smsPoll = [p \in SmsPolls |-> NoSmsPoll]
  /\ smsFaults = 0
  /\ told = [r \in Readers |-> [m \in Sms |-> 0]]
  /\ filesLost = {}
  /\ unlooked = {}

SmsArrives ==
  /\ newestSms < LastSms
  /\ newestSms' = newestSms + 1
  /\ UNCHANGED <<deliveryCursor, deliveries, watchCursor, watchFile, smsPoll, smsFaults,
                 told, filesLost, unlooked>>

\* getMessagesSince: the oldest by date of those beyond the cursor.
Beyond(cursor) == {m \in Sms : cursor < m /\ m <= newestSms}
Batch(cursor) ==
  {m \in Beyond(cursor) :
     Cardinality({n \in Beyond(cursor) : SentAt[n] < SentAt[m]}) < BatchLimit}
ByDate(batch) == Sorted(batch, SentAt)
LastOf(batch) == CHOOSE m \in batch : \A n \in batch : n <= m

\* The cursor moves to the last rowid of the batch, past what was left out.
Onward(cursor) == IF Beyond(cursor) = {} THEN cursor ELSE LastOf(Batch(cursor))

Tell(r, m) == told' = [told EXCEPT ![r][m] = IF @ < 2 THEN @ + 1 ELSE @]

---------------------------------------------------------------------------
(* The delivery poller *)

\* Mutants, here and below: what a slip in this code would do.

AnyDelivery(m) == DeliveryOf[m] # NoDelivery   \* no look at the recorded ones

\* addDelivery: not if the message or its delivery is recorded already.
NewDelivery(m) == /\ DeliveryOf[m] # NoDelivery
                  /\ \A n \in deliveries : DeliveryOf[n] # DeliveryOf[m]

\* The loop over the alerts goes on to the first one that is new and that no
\* rule blocks, records it, and waits for its send.
NextDelivery(p, todo) ==
  \E pass \in SUBSET Range(todo) :
    LET new == Keep(todo, {m \in pass : NewDelivery(m)})
    IN  IF new = <<>>
        THEN /\ smsPoll' = [smsPoll EXCEPT ![p] = NoSmsPoll]
             /\ UNCHANGED deliveries
        ELSE /\ deliveries' = deliveries \cup {new[1]}
             /\ smsPoll' = [smsPoll EXCEPT ![p].todo =
                  SubSeq(todo, CHOOSE k \in DOMAIN todo : todo[k] = new[1], Len(todo))]

CheckForDeliveries(p) ==
  /\ smsPoll[p] = NoSmsPoll
  /\ deliveryCursor >= 0 /\ Beyond(deliveryCursor) # {}
  /\ deliveryCursor' = Onward(deliveryCursor)
  /\ NextDelivery(p, ByDate(Batch(deliveryCursor)))
  /\ UNCHANGED <<newestSms, watchCursor, watchFile, smsFaults, told, filesLost, unlooked>>

DeliveryTold(p) ==
  /\ smsPoll[p].reader = "delivery" /\ smsPoll[p].todo # <<>>
  /\ Tell("delivery", smsPoll[p].todo[1])
  /\ NextDelivery(p, Tail(smsPoll[p].todo))
  /\ UNCHANGED <<newestSms, deliveryCursor, watchCursor, watchFile, smsFaults, filesLost, unlooked>>

---------------------------------------------------------------------------
(* The watcher *)

\* saveState, whose failure is only logged.
SaveCursor(cursor) ==
  \/ watchFile' = cursor /\ UNCHANGED filesLost
  \/ filesLost' = filesLost \cup {"watcher"} /\ UNCHANGED watchFile

PollFromSame(p, cursor, known) ==              \* the cursor is left to later
  \E pass \in SUBSET (Batch(cursor) \cap WatchedSms) :
    /\ watchCursor' = cursor
    /\ smsPoll' = [smsPoll EXCEPT ![p] =
         [reader |-> IF pass = {} THEN "delivery" ELSE "watcher", todo |-> ByDate(pass)]]
    /\ unlooked' = unlooked \cup (1 .. watchCursor' \ (pass \cup 1 .. known))

\* pollOnce, which the start also calls: the cursor moves past the batch,
\* then each message of a watched sender that no rule mutes is sent, one after
\* the other.
PollFrom(p, cursor, known) ==
  LET watched == Batch(cursor) \cap WatchedSms
  IN  \E pass \in SUBSET watched :
        /\ watchCursor' = Onward(cursor)
        /\ smsPoll' = [smsPoll EXCEPT ![p] =
             [reader |-> IF pass = {} THEN "delivery" ELSE "watcher", todo |-> ByDate(pass)]]
        /\ unlooked' = unlooked \cup (1 .. watchCursor' \ (pass \cup 1 .. known))

WatcherPolls(p) ==
  /\ smsPoll[p].todo = <<>>
  /\ watchCursor >= 0 /\ Beyond(watchCursor) # {}
  /\ PollFrom(p, watchCursor, watchCursor)
  /\ SaveCursor(watchCursor')
  /\ UNCHANGED <<newestSms, deliveryCursor, deliveries, smsFaults, told>>

\* totalForwarded is saved, and with it the cursor as it is by now.  A send
\* that rejects is not counted.
WatchedTold(p) ==
  /\ smsPoll[p].reader = "watcher" /\ smsPoll[p].todo # <<>>
  /\ Tell("watcher", smsPoll[p].todo[1])
  /\ smsPoll' = [smsPoll EXCEPT ![p] =
       [reader |-> IF Len(smsPoll[p].todo) = 1 THEN "delivery" ELSE "watcher",
        todo |-> Tail(smsPoll[p].todo)]]
  /\ SaveCursor(watchCursor) \/ UNCHANGED <<watchFile, filesLost>>
  /\ UNCHANGED <<newestSms, deliveryCursor, deliveries, watchCursor, smsFaults, unlooked>>

---------------------------------------------------------------------------
(* The connection opens: for the first time, or again *)

\* startDeliveryPoller and startSmsWatcher.  The first sets its cursor to the
\* latest message (0 if the database cannot be read) every time; the second
\* runs already after the first opening, and otherwise goes on from its file.
ConnectionOpens(p) ==
  /\ smsPoll[p].todo = <<>>
  /\ deliveryCursor' \in {0, newestSms}
  /\ IF watchCursor >= 0
     THEN /\ smsFaults < MaxSmsFaults
          /\ smsFaults' = smsFaults + 1
          /\ UNCHANGED <<watchCursor, watchFile, smsPoll, filesLost, unlooked>>
     ELSE /\ UNCHANGED smsFaults
          /\ \E start \in IF watchFile > 0 THEN {watchFile} ELSE {0, newestSms} :
               /\ PollFrom(p, start, watchFile)
               /\ SaveCursor(watchCursor')
  /\ UNCHANGED <<newestSms, deliveries, told>>

\* A restart, in which a file being written may be torn.
SmsRestart ==
  /\ smsFaults < MaxSmsFaults
  /\ smsFaults' = smsFaults + 1
  /\ deliveryCursor' = -1
  /\ watchCursor' = -1
  /\ smsPoll' = [p \in SmsPolls |-> NoSmsPoll]
  /\ unlooked' = unlooked \cup UNION {Range(smsPoll[p].todo) : p \in SmsPolls}
  /\ \/ UNCHANGED <<watchFile, deliveries, filesLost>>
     \/ /\ watchFile' = 0
        /\ filesLost' = filesLost \cup {"watcher"}
        /\ UNCHANGED deliveries
     \/ /\ deliveries' = {}
        /\ filesLost' = filesLost \cup {"delivery"}
        /\ UNCHANGED watchFile
  /\ UNCHANGED <<newestSms, told>>

SmsNext ==
  \/ \E p \in SmsPolls : \/ CheckForDeliveries(p) \/ DeliveryTold(p)
                         \/ WatcherPolls(p) \/ WatchedTold(p) \/ ConnectionOpens(p)
  \/ SmsArrives \/ SmsRestart

SmsSpec == SmsInit /\ [][SmsNext]_smsVars

---------------------------------------------------------------------------
(* What is expected of it *)

SmsInHand(r, m) == \E p \in SmsPolls : smsPoll[p].reader = r /\ m \in Range(smsPoll[p].todo)

\* A delivery is announced once, although every opening sets the cursor anew,
\* to 0 even, and polls of several timers overlap, unless its store was torn.
DeliveriesToldOnce ==
  "delivery" \notin filesLost =>
    \A m, n \in Sms :
      told["delivery"][m] > 0 /\ told["delivery"][n] > 0 /\ DeliveryOf[m] = DeliveryOf[n]
        => m = n /\ told["delivery"][m] = 1

\* Unless the cursor's file was not written or was torn, a watched message is
\* forwarded at most once, restarts included, and one the cursor has passed is
\* forwarded or in hand, save those before the first cursor, muted, left out of
\* a full batch or lost with the process.
WatchedToldOnce ==
  "watcher" \notin filesLost =>
    \A m \in WatchedSms :
      /\ told["watcher"][m] < 2
      /\ m <= watchCursor /\ m \notin unlooked => told["watcher"][m] = 1 \/ SmsInHand("watcher", m)

\* A delivery is announced once and a watched message forwarded once, however
\* many timers read the Messages database.
SmsToldOnce == DeliveriesToldOnce /\ WatchedToldOnce
=============================================================================
