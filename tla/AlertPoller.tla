----------------------------- MODULE AlertPoller -----------------------------
(***************************************************************************)
(* The poller of one Telegram channel.  Every fifteen seconds a check      *)
(* fetches the channel's page, which shows its last posts, and forwards    *)
(* the ones it has not seen.  A fetch may take fifty seconds with its one  *)
(* retry, so checks overlap and an older page may arrive after a newer     *)
(* one.  Five failures pause the channel for five minutes.  Followed from  *)
(* telegram/alert-poller.ts; all state is in memory.                       *)
(***************************************************************************)
EXTENDS Integers, Sequences, FiniteSets, Functions, Lists

CONSTANTS LastPost,      \* the posts that parse are 1 .. LastPost
          WantedPosts,     \* those that shouldForward accepts
          PageSize,        \* how many posts a page shows
          Checks,          \* calls of checkChannel under way
          MaxFailures,     \* failures in a row that pause the channel
          MaxAlertFaults   \* restarts

Posts == 1 .. LastPost

ASSUME AlertAssumption ==
  LastPost \in Nat /\ PageSize \in Nat \ {0} /\ WantedPosts \subseteq Posts

VARIABLES newestPost,    \* the channel's last post
          lastSeenId,      \* of channelState, 0 before the first page
          failures,        \* consecutiveFailures
          paused,          \* pausedUntil lies in the future
          check,           \* where each check stands
          alertFaults,     \* how many of MaxAlertFaults there were
          alerted,         \* ghost: how often each post was handed to the send
          excused          \* ghost: posts before the first page, off it, or lost

alertVars == <<newestPost, lastSeenId, failures, paused, check, alertFaults, alerted, excused>>

NoCheck == [at |-> "idle", since |-> 0, todo |-> <<>>]

AlertTypeOK ==
  /\ newestPost \in 0 .. LastPost
  /\ lastSeenId \in 0 .. LastPost
  /\ failures \in 0 .. MaxFailures
  /\ paused \in BOOLEAN
  /\ check \in [Checks -> [at : {"idle", "fetching", "forwarding"}, since : 0 .. LastPost,
                           todo : Seq(Posts)]]
  /\ alertFaults \in 0 .. MaxAlertFaults
  /\ alerted \in [Posts -> 0 .. 2]
  /\ excused \subseteq Posts

AlertInit ==
  /\ newestPost = 0
  /\ lastSeenId = 0
  /\ failures = 0
  /\ paused = FALSE
  /\ check = [c \in Checks |-> NoCheck]
  /\ alertFaults = 0
  /\ alerted = [m \in Posts |-> 0]
  /\ excused = {}

NewPost ==
  /\ newestPost < LastPost
  /\ newestPost' = newestPost + 1
  /\ UNCHANGED <<lastSeenId, failures, paused, check, alertFaults, alerted, excused>>

\* A paused channel is passed over.
CheckStarts(c) ==
  /\ check[c] = NoCheck
  /\ ~paused
  /\ check' = [check EXCEPT ![c] = [at |-> "fetching", since |-> newestPost, todo |-> <<>>]]
  /\ UNCHANGED <<newestPost, lastSeenId, failures, paused, alertFaults, alerted, excused>>

Page(newest) == {m \in Posts : newest - PageSize < m /\ m <= newest}
FirstOf(posts) == CHOOSE m \in posts : \A n \in posts : n >= m   \* a mutant: the wrong end

LatestOf(posts) == CHOOSE m \in posts : \A n \in posts : n <= m

\* The check goes on to forward these, one send after the other, or ends.
Forward(c, todo) ==
  check' = [check EXCEPT ![c] = IF todo = <<>> THEN NoCheck
                                ELSE [at |-> "forwarding", since |-> 0, todo |-> todo]]

\* A page arrives, as the channel was at some moment since the check began:
\* the first one only sets the mark; of a later one the posts beyond the mark
\* as it is now are taken, and the mark set to the last of them.
PageArrives(c) ==
  /\ check[c].at = "fetching"
  /\ failures' = 0
  /\ paused' = FALSE
  /\ \E newest \in check[c].since .. newestPost :
       LET new == {m \in Page(newest) : m > lastSeenId}
           todo == IF lastSeenId = 0 THEN {} ELSE new \cap WantedPosts
           passed == {m \in Posts : lastSeenId < m /\ m <= newest}
       IN  /\ lastSeenId' = IF new = {} THEN lastSeenId ELSE LatestOf(new)
           /\ excused' = excused \cup IF lastSeenId = 0 THEN passed ELSE passed \ new
           /\ Forward(c, Ascending(todo))
  /\ UNCHANGED <<newestPost, alertFaults, alerted>>

\* The awaited send settles, well or not.
PostForwarded(c) ==
  /\ check[c].at = "forwarding"
  /\ alerted' = [alerted EXCEPT ![check[c].todo[1]] = IF @ < 2 THEN @ + 1 ELSE @]
  /\ Forward(c, Tail(check[c].todo))
  /\ UNCHANGED <<newestPost, lastSeenId, failures, paused, alertFaults, excused>>

\* An answer that is not ok is not counted.
BadStatus(c) ==
  /\ check[c].at = "fetching"
  /\ check' = [check EXCEPT ![c] = NoCheck]
  /\ UNCHANGED <<newestPost, lastSeenId, failures, paused, alertFaults, alerted, excused>>

\* Both attempts failed; or the body did, after the count was set back.
FetchFails(c) ==
  /\ check[c].at = "fetching"
  /\ \/ /\ failures' = IF failures < MaxFailures THEN failures + 1 ELSE failures
        /\ paused' = (paused \/ failures' = MaxFailures)
     \/ /\ failures' = 1
        /\ paused' = (MaxFailures = 1)
  /\ check' = [check EXCEPT ![c] = NoCheck]
  /\ UNCHANGED <<newestPost, lastSeenId, alertFaults, alerted, excused>>

\* Five minutes pass; the count stays where it is.
PauseEnds ==
  /\ paused
  /\ paused' = FALSE
  /\ UNCHANGED <<newestPost, lastSeenId, failures, check, alertFaults, alerted, excused>>

AlertRestart ==
  /\ alertFaults < MaxAlertFaults
  /\ alertFaults' = alertFaults + 1
  /\ lastSeenId' = 0
  /\ failures' = 0
  /\ paused' = FALSE
  /\ check' = [c \in Checks |-> NoCheck]
  /\ excused' = excused \cup UNION {Range(check[c].todo) : c \in Checks}
  /\ UNCHANGED <<newestPost, alerted>>

AlertNext ==
  \/ \E c \in Checks : \/ CheckStarts(c) \/ PageArrives(c) \/ PostForwarded(c)
                       \/ BadStatus(c) \/ FetchFails(c)
  \/ NewPost \/ PauseEnds \/ AlertRestart

AlertSpec == AlertInit /\ [][AlertNext]_alertVars

---------------------------------------------------------------------------
(* What is expected of it *)

InHand(m) == \E c \in Checks : m \in Range(check[c].todo)

\* However checks overlap and pages arrive out of order, and after restarts
\* too: a post is forwarded at most once, and of the posts up to the mark a
\* wanted one is forwarded or in hand, unless it came before a first page,
\* was pushed off the page between two checks, or a restart lost it.
AlertsForwardedOnce ==
  /\ \A m \in Posts : alerted[m] < 2
  /\ \A m \in WantedPosts \ excused :
       m <= lastSeenId => alerted[m] = 1 \/ InHand(m)
=============================================================================
