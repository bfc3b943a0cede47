------------------------------ MODULE Connection ------------------------------
(***************************************************************************)
(* The connection to WhatsApp and the file through which the dashboard     *)
(* sends messages.  A lost connection is made anew after a delay by a new  *)
(* client in the same process; each client's health check and each         *)
(* connection's notification poller stay behind.  pm2 starts a process     *)
(* that exits anew.  Followed from whatsapp/index.ts, index.ts and         *)
(* dashboard/app/api/followups/route.ts.                                   *)
(***************************************************************************)
EXTENDS Naturals, FiniteSets

CONSTANTS LastClient,     \* the clients of one process are 1 .. LastClient
          Completions,      \* follow-ups of others that the dashboard completes
          MaxDeaths         \* kills from outside

ASSUME ConnectionAssumption == LastClient \in Nat \ {0} /\ MaxDeaths \in Nat

VARIABLES link,          \* the last client's connection
          client,          \* how many clients this process has made
          quiet,           \* clients whose lastActivity is 20 minutes old
          pollers,         \* notification pollers started
          polling,         \* what a poll has read and not yet cleared
          noteFile,        \* pending-notifications.json
          request,         \* the dashboard's request under way: its follow-up, what it read
          completed,       \* follow-ups whose request was made
          deaths,          \* how many of MaxDeaths there were
          handed,          \* ghost: how often each note was handed to the send queue
          muddled,         \* ghost: notes of a request that overlapped a poll
          shotDown         \* ghost: the health check ended an active connection

connectionVars == <<link, client, quiet, pollers, polling, noteFile, request, completed, deaths,
                    handed, muddled, shotDown>>
noteVars == <<noteFile, request, completed, handed, muddled>>
Clients == 1 .. LastClient
NoRequest == [at |-> "idle", note |-> {}, read |-> {}]
NoPoll == [on |-> FALSE, read |-> {}]

ConnectionTypeOK ==
  /\ link \in {"connecting", "open", "waiting", "ended", "loggedOut"}
  /\ client \in Clients
  /\ quiet \subseteq 1 .. client
  /\ pollers \in 0 .. client
  /\ polling \in [on : BOOLEAN, read : SUBSET Completions]
  /\ noteFile \subseteq Completions
  /\ request \in [at : {"idle", "read"}, note : SUBSET Completions, read : SUBSET Completions]
  /\ completed \subseteq Completions
  /\ deaths \in 0 .. MaxDeaths
  /\ handed \in [Completions -> 0 .. 2]
  /\ muddled \subseteq Completions
  /\ shotDown \in BOOLEAN

ConnectionInit ==
  /\ link = "connecting"
  /\ client = 1
  /\ quiet = {}
  /\ pollers = 0
  /\ polling = NoPoll
  /\ noteFile = {}
  /\ request = NoRequest
  /\ completed = {}
  /\ deaths = 0
  /\ handed = [n \in Completions |-> 0]
  /\ muddled = {}
  /\ shotDown = FALSE

---------------------------------------------------------------------------
(* createWhatsAppClient *)

\* The callbacks of every feature are set to this connection, and a
\* notification poller is started beside those there are.
Opens ==
  /\ link = "connecting" /\ ~polling.on
  /\ link' = "open"
  /\ quiet' = quiet \ {client}
  /\ pollers' = pollers + 1
  /\ UNCHANGED <<client, polling, deaths, shotDown, noteVars>>

ClosesUnnoticed ==                 \* a mutant: only an open connection is made anew
  /\ link \in {"connecting", "open"} /\ ~polling.on
  /\ link' = IF link = "open" THEN "waiting" ELSE "lost"
  /\ UNCHANGED <<client, quiet, pollers, polling, deaths, shotDown, noteVars>>

\* A new client is due after the delay; the client that closes is not used
\* again, so its doubled delay is not either.
Closes ==
  /\ link \in {"connecting", "open"} /\ ~polling.on
  /\ link' = "waiting"
  /\ UNCHANGED <<client, quiet, pollers, polling, deaths, shotDown, noteVars>>

\* WhatsApp has logged the bot out: the session is deleted, the process exits
\* and waits for a scan.
LoggedOut ==
  /\ link \in {"connecting", "open"} /\ ~polling.on
  /\ link' = "loggedOut"
  /\ UNCHANGED <<client, quiet, pollers, polling, deaths, shotDown, noteVars>>

Reconnects ==
  /\ link = "waiting" /\ ~polling.on
  /\ client < LastClient
  /\ client' = client + 1
  /\ link' = "connecting"
  /\ UNCHANGED <<quiet, pollers, polling, deaths, shotDown, noteVars>>

\* The new client cannot be made: the process exits.  It also stands for a
\* process that has reconnected LastClient times.
ReconnectFails ==
  /\ link = "waiting" /\ ~polling.on
  /\ link' = "ended"
  /\ UNCHANGED <<client, quiet, pollers, polling, deaths, shotDown, noteVars>>

\* Twenty minutes without a message; a client that has lost its connection
\* has no other.
FallsQuiet(c) ==
  /\ c \in 1 .. client
  /\ quiet' = quiet \cup {c}
  /\ UNCHANGED <<link, client, pollers, polling, deaths, shotDown, noteVars>>

\* A message comes in, for the client that is connected.
HearsMessage ==
  /\ link = "open" /\ ~polling.on
  /\ quiet' = quiet \ {client}
  /\ UNCHANGED <<link, client, pollers, polling, deaths, shotDown, noteVars>>

\* The health check of a client, of this connection or of a former one:
\* connected is the process's, lastActivity the client's own.
HealthCheckExits(c) ==
  /\ link = "open" /\ ~polling.on
  /\ c \in quiet
  /\ link' = "ended"
  /\ shotDown' = (client \notin quiet)
  /\ UNCHANGED <<client, quiet, pollers, polling, deaths, noteVars>>

\* pm2 starts the process anew; after a logout someone scans the code.
Pm2Restarts ==
  /\ link \in {"ended", "loggedOut"}
  /\ link' = "connecting"
  /\ client' = 1
  /\ quiet' = {}
  /\ pollers' = 0
  /\ polling' = NoPoll
  /\ shotDown' = FALSE
  /\ UNCHANGED <<deaths, noteVars>>

Killed ==
  /\ deaths < MaxDeaths
  /\ deaths' = deaths + 1
  /\ link' = "ended"
  /\ polling' = NoPoll
  /\ shotDown' = FALSE
  /\ UNCHANGED <<client, quiet, pollers, noteVars>>

---------------------------------------------------------------------------
(* Notes from the dashboard *)

\* The request has completed its follow-up and reads the file.
DashboardReadsNotes(n) ==
  /\ request = NoRequest
  /\ n \notin completed
  /\ request' = [at |-> "read", note |-> {n}, read |-> noteFile]
  /\ completed' = completed \cup {n}
  /\ muddled' = IF polling.on THEN muddled \cup {n} \cup noteFile ELSE muddled
  /\ UNCHANGED <<link, client, quiet, pollers, polling, deaths, shotDown, noteFile, handed>>

\* It writes the file back with its own note.
DashboardWritesNotes ==
  /\ request.at = "read"
  /\ noteFile' = request.read \cup request.note
  /\ muddled' = IF polling.on THEN muddled \cup request.note ELSE muddled
  /\ request' = NoRequest
  /\ UNCHANGED <<link, client, quiet, pollers, polling, deaths, shotDown, completed, handed>>

\* A poll reads the file and hands every note to the send queue, connected
\* or not.
PollReadsNotes ==
  /\ link \notin {"ended", "loggedOut"} /\ ~polling.on
  /\ pollers > 0 /\ noteFile # {}
  /\ polling' = [on |-> TRUE, read |-> noteFile]
  /\ handed' = [n \in Completions |-> IF n \in noteFile /\ handed[n] < 2 THEN handed[n] + 1
                                      ELSE handed[n]]
  /\ UNCHANGED <<link, client, quiet, pollers, deaths, shotDown, noteFile, request, completed, muddled>>

PollClearsSent ==                    \* a mutant: kept while nothing is connected
  /\ polling.on
  /\ polling' = NoPoll
  /\ noteFile' = IF link = "open" THEN {} ELSE noteFile
  /\ muddled' = IF request.at = "read" THEN muddled \cup request.note \cup request.read ELSE muddled
  /\ UNCHANGED <<link, client, quiet, pollers, deaths, shotDown, request, completed, handed>>

\* In the same stretch it empties the file.
PollClearsNotes ==
  /\ polling.on
  /\ polling' = NoPoll
  /\ noteFile' = {}
  /\ muddled' = IF request.at = "read" THEN muddled \cup request.note \cup request.read ELSE muddled
  /\ UNCHANGED <<link, client, quiet, pollers, deaths, shotDown, request, completed, handed>>

ConnectionNext ==
  \/ Opens \/ Closes \/ LoggedOut \/ Reconnects \/ ReconnectFails \/ HearsMessage
  \/ \E c \in Clients : FallsQuiet(c) \/ HealthCheckExits(c)
  \/ Pm2Restarts \/ Killed
  \/ \E n \in Completions : DashboardReadsNotes(n)
  \/ DashboardWritesNotes \/ PollReadsNotes \/ PollClearsNotes

ConnectionSpec == ConnectionInit /\ [][ConnectionNext]_connectionVars

---------------------------------------------------------------------------
(* What is expected of it *)

\* However many pollers reconnections have left, and whatever the process
\* ends of: a note from the dashboard is handed to the send queue once and
\* only once, unless the dashboard's write overlapped a poll or the process
\* died in one.
NotesHandedOnce ==
  \A n \in completed \ muddled :
    /\ handed[n] > 1 => deaths > 0
    /\ handed[n] = 0 => n \in noteFile \cup request.note

\* What the comments at the health check say (whatsapp/index.ts:324 and 329):
\* it detects stale connections, so none on which messages come in is ended.
\* The check of a former client still runs when its process has reconnected.
OnlyStaleConnectionsEnd == ~shotDown

\* A bot that has lost its connection, or its process, is connected again, if
\* WhatsApp keeps letting it try.
ComesBack == link \in {"waiting", "ended"} ~> link = "open"
=============================================================================
