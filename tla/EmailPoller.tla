----------------------------- MODULE EmailPoller -----------------------------
(***************************************************************************)
(* The email poller.  Every five minutes, and once more at every opening   *)
(* of the WhatsApp connection, a poll reads the cursor, asks the mailbox   *)
(* for what is newer, moves the cursor, records the orders it finds and    *)
(* announces each to the owner: at once by day, through a queue in memory  *)
(* by night.  Nothing keeps two polls from overlapping.  Followed from     *)
(* email/email-poller.ts, email-order-store.ts and imap-client.ts.         *)
(***************************************************************************)
EXTENDS Integers, Sequences, FiniteSets, Functions, Lists

CONSTANTS LastEmail,     \* the emails of a run are 1 .. LastEmail, by uid
          OrderOf,         \* OrderOf[e]: the order email e is about
          NoOrder,         \* what an email is about that is not an order
          EmailPolls,      \* calls of pollEmails under way
          FetchWindow,     \* the fifty of fetchEmailsSinceUid
          MaxEmailFaults   \* restarts

ASSUME EmailAssumption == LastEmail \in Nat

Emails == 1 .. LastEmail
Orders == {OrderOf[e] : e \in Emails} \ {NoOrder}

VARIABLES mailbox,     \* the greatest uid there is
          emailCursor,   \* lastSeenUid in email-poller-state.json, 0 if torn
          emailOrders,   \* emails recorded in the order store
          quietQueue,    \* the current array of that name
          emailNight,    \* isQuietHours
          poll,          \* where each poll stands
          emailFaults,   \* how many of MaxEmailFaults there were
          heard,         \* ghost: how often the owner was told of each order
          flushesMet,    \* ghost: two flushes of the queue overlapped
          emailLost      \* ghost: orders whose announcement or record a death took

emailVars == <<mailbox, emailCursor, emailOrders, quietQueue, emailNight, poll,
               emailFaults, heard, flushesMet, emailLost>>

NoPoll == [at |-> "idle", base |-> 0, since |-> 0, todo |-> <<>>, own |-> <<>>, live |-> FALSE]

EmailTypeOK ==
  /\ mailbox \in 0 .. LastEmail
  /\ emailCursor \in 0 .. LastEmail
  /\ emailOrders \subseteq Emails
  /\ quietQueue \in Seq(Orders)
  /\ emailNight \in BOOLEAN
  /\ poll \in [EmailPolls ->
       [at : {"idle", "baseline", "fetching", "sending", "contracts", "flushing"},
        base : 0 .. LastEmail, since : 0 .. LastEmail,
        todo : Seq(Emails), own : Seq(Orders), live : BOOLEAN]]
  /\ emailFaults \in 0 .. MaxEmailFaults
  /\ heard \in [Orders -> 0 .. 2]
  /\ flushesMet \in BOOLEAN
  /\ emailLost \subseteq Orders

EmailInit ==
  /\ mailbox = 0
  /\ emailCursor = 0
  /\ emailOrders = {}
  /\ quietQueue = <<>>
  /\ emailNight = FALSE
  /\ poll = [p \in EmailPolls |-> NoPoll]
  /\ emailFaults = 0
  /\ heard = [o \in Orders |-> 0]
  /\ flushesMet = FALSE
  /\ emailLost = {}

EmailArrives ==
  /\ mailbox < LastEmail
  /\ mailbox' = mailbox + 1
  /\ UNCHANGED <<emailCursor, emailOrders, quietQueue, emailNight, poll, emailFaults,
                 heard, flushesMet, emailLost>>

\* The hour passes 22:00 or 7:00.
EmailHourPasses ==
  /\ emailNight' = ~emailNight
  /\ UNCHANGED <<mailbox, emailCursor, emailOrders, quietQueue, poll, emailFaults,
                 heard, flushesMet, emailLost>>

---------------------------------------------------------------------------
(* A poll *)

\* Without a cursor the poll only sets one, past everything there is.
PollStarts(p) ==
  /\ poll[p] = NoPoll
  /\ poll' = [poll EXCEPT ![p] =
       [NoPoll EXCEPT !.at = IF emailCursor = 0 THEN "baseline" ELSE "fetching",
                      !.base = emailCursor, !.since = mailbox]]
  /\ UNCHANGED <<mailbox, emailCursor, emailOrders, quietQueue, emailNight, emailFaults,
                 heard, flushesMet, emailLost>>

\* getLatestUid: 0 when the server could not be reached.
BaselineSet(p) ==
  /\ poll[p].at = "baseline"
  /\ \E uid \in {0} \cup poll[p].since .. mailbox :
       emailCursor' = IF uid > 0 THEN uid ELSE emailCursor
  /\ poll' = [poll EXCEPT ![p] = NoPoll]
  /\ UNCHANGED <<mailbox, emailOrders, quietQueue, emailNight, emailFaults, heard,
                 flushesMet, emailLost>>

\* Mutants, here and below: what a slip in this code would do.

OnlyNewer(base, top) == (base + 1) .. top    \* the last email is not found again

\* What "uid n:*" finds: the newer ones, or the last one when none is newer.
Newer(base, top) == IF base < top THEN (base + 1) .. top ELSE {top} \ {0}

\* The search saw the mailbox as it was at some moment since; the newest of
\* the window are fetched one by one, and one that fails is left out.
Fetched(p) ==
  UNION {SUBSET {e \in Newer(poll[p].base, top) :
                   Cardinality({g \in Newer(poll[p].base, top) : g > e}) < FetchWindow} :
         top \in poll[p].since .. mailbox}

\* The poll moves on to the contracts, or to the send it stops at.
GoesOn(p, todo, announced) ==
  poll' = [poll EXCEPT ![p] = IF announced = NoOrder
             THEN [NoPoll EXCEPT !.at = "contracts"]
             ELSE [NoPoll EXCEPT !.at = "sending", !.todo = todo, !.own = <<announced>>]]

AnyRecordable(e) == OrderOf[e] # NoOrder     \* no look at the recorded ones

\* addEmailOrder: not if the message or its order is recorded already.
Recordable(e) == /\ OrderOf[e] # NoOrder
                 /\ \A g \in emailOrders : OrderOf[g] # OrderOf[e]

\* The loop over the emails, up to its next await.  By night all new orders
\* are queued in one stretch; by day the loop stops at the first of them.
\* The rules of the owner may block any.
RecordOrders(p, todo) ==
  \E pass \in SUBSET Range(todo) :
    LET new == Keep(todo, {e \in pass : Recordable(e)})
        first == Keep(new, {e \in pass : \A g \in Range(new) : OrderOf[g] = OrderOf[e] => e <= g})
    IN  IF new # <<>> /\ ~emailNight
        THEN /\ emailOrders' = emailOrders \cup {new[1]}
             /\ GoesOn(p, Keep(todo, {e \in Emails : e > new[1]}), OrderOf[new[1]])
             /\ UNCHANGED quietQueue
        ELSE /\ emailOrders' = emailOrders \cup Range(first)
             /\ quietQueue' = quietQueue \o [k \in DOMAIN first |-> OrderOf[first[k]]]
             /\ GoesOn(p, <<>>, NoOrder)

\* The state read before the fetch is saved, with its cursor moved on; then
\* the emails are looked at.  Nothing fetched: the poll ends here.
PollFetched(p) ==
  /\ poll[p].at = "fetching"
  /\ \E fetched \in Fetched(p) :
       LET todo == Ascending(fetched)
           last == todo[Len(todo)]
       IN  IF fetched = {}
           THEN /\ emailCursor' = poll[p].base
                /\ poll' = [poll EXCEPT ![p] = NoPoll]
                /\ UNCHANGED <<emailOrders, quietQueue>>
           ELSE /\ emailCursor' = IF last > poll[p].base THEN last ELSE poll[p].base
                /\ RecordOrders(p, todo)
  /\ UNCHANGED <<mailbox, emailNight, emailFaults, heard, flushesMet, emailLost>>

Hear(o) == heard' = [heard EXCEPT ![o] = IF @ < 2 THEN @ + 1 ELSE @]

\* The send of an order settles, the loop goes on.
OrderAnnounced(p) ==
  /\ poll[p].at = "sending"
  /\ Hear(poll[p].own[1])
  /\ RecordOrders(p, poll[p].todo)
  /\ UNCHANGED <<mailbox, emailCursor, emailNight, emailFaults, flushesMet, emailLost>>

Flushing == {q \in EmailPolls : poll[q].at = "flushing"}

\* detectContract has answered for all; by day a queue that is not empty is
\* flushed.  The loop runs over the array itself, which may still grow.
ContractsLookedAt(p) ==
  /\ poll[p].at = "contracts"
  /\ IF ~emailNight /\ quietQueue # <<>>
     THEN /\ poll' = [poll EXCEPT ![p] = [NoPoll EXCEPT !.at = "flushing", !.live = TRUE]]
          /\ flushesMet' = (flushesMet \/ Flushing # {})
     ELSE /\ poll' = [poll EXCEPT ![p] = NoPoll]
          /\ UNCHANGED flushesMet
  /\ UNCHANGED <<mailbox, emailCursor, emailOrders, quietQueue, emailNight, emailFaults,
                 heard, emailLost>>

\* While it flushes, base counts the messages sent; own is the array when
\* another flush has replaced quietQueue since.
Array(p) == IF poll[p].live THEN quietQueue ELSE poll[p].own

\* A queued message is sent; after the last one quietQueue is a new array,
\* and the flushes still under way keep the old one.
QueuedAnnounced(p) ==
  /\ poll[p].at = "flushing"
  /\ LET sent == poll[p].base + 1
     IN  /\ Hear(Array(p)[sent])
         /\ IF sent < Len(Array(p))
            THEN /\ poll' = [poll EXCEPT ![p].base = sent]
                 /\ UNCHANGED quietQueue
            ELSE /\ quietQueue' = <<>>
                 /\ poll' = [q \in EmailPolls |->
                      IF q = p THEN NoPoll
                      ELSE IF poll[q].live
                           THEN [poll[q] EXCEPT !.live = FALSE, !.own = quietQueue]
                           ELSE poll[q]]
  /\ UNCHANGED <<mailbox, emailCursor, emailOrders, emailNight, emailFaults, flushesMet,
                 emailLost>>

---------------------------------------------------------------------------
(* Restarts: polls and queue are gone, and a file being written may be torn. *)

Unheard == {o \in Orders : heard[o] = 0 /\ \E e \in emailOrders : OrderOf[e] = o}

EmailRestart ==
  /\ emailFaults < MaxEmailFaults
  /\ emailFaults' = emailFaults + 1
  /\ poll' = [p \in EmailPolls |-> NoPoll]
  /\ quietQueue' = <<>>
  /\ \/ /\ emailLost' = emailLost \cup Unheard
        /\ UNCHANGED <<emailCursor, emailOrders>>
     \/ /\ emailCursor' = 0
        /\ emailLost' = emailLost \cup Unheard
        /\ UNCHANGED emailOrders
     \/ /\ emailOrders' = {}
        /\ emailLost' = Orders
        /\ UNCHANGED emailCursor
  /\ UNCHANGED <<mailbox, emailNight, heard, flushesMet>>

EmailNext ==
  \/ \E p \in EmailPolls :
       \/ PollStarts(p) \/ BaselineSet(p) \/ PollFetched(p)
       \/ OrderAnnounced(p) \/ ContractsLookedAt(p) \/ QueuedAnnounced(p)
  \/ EmailArrives \/ EmailHourPasses \/ EmailRestart

EmailSpec == EmailInit /\ [][EmailNext]_emailVars

---------------------------------------------------------------------------
(* What is expected of it *)

OnItsWay(o) == \/ o \in Range(quietQueue)
               \/ \E p \in EmailPolls : o \in Range(poll[p].own)

\* A recorded order is announced once, although the cursor moves back when
\* polls overlap and the last email is fetched again by every poll: lost or
\* repeated only by a death, or when two flushes of the queue met.
OrdersHeardOnce ==
  flushesMet \/ \A o \in Orders \ emailLost :
                  /\ heard[o] < 2
                  /\ (\E e \in emailOrders : OrderOf[e] = o) => heard[o] = 1 \/ OnItsWay(o)

\* What was queued in the night does not stay queued, although a poll that
\* fetches nothing returns before the flush: the mailbox always answers with
\* its last email.
QuietQueueIsFlushed == quietQueue # <<>> ~> quietQueue = <<>>
=============================================================================
