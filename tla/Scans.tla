--------------------------------- MODULE Scans ---------------------------------
(***************************************************************************)
(* Nimrod's scans of the machine: what each of the five scanners makes of  *)
(* what it sees, the score, and the alerts that are kept in                *)
(* nimrod-state.json, three an hour at the most.  A scan loads that file,  *)
(* runs the scanners, and goes on in a later turn of the event loop: of    *)
(* two scans that the model asks for in one answer the second loads the    *)
(* file before the first has saved it.  Followed from agents/nimrod and    *)
(* ai/handlers/nimrod.ts.                                                  *)
(***************************************************************************)
EXTENDS Naturals, Sequences, FiniteSets

CONSTANTS Machines,          \* what may be seen: sets of signs
          Scanning,          \* scans that may be under way
          MaxAlerts,         \* MAX_ALERTS
          MaxAlertsPerHour,  \* MAX_ALERTS_PER_HOUR
          AlertScore,        \* a score above it is an alert of its own
          MaxIds, MaxScanFaults,   \* bounds
          NoScan

ASSUME ScansAssumption == MaxAlerts \in Nat /\ MaxAlertsPerHour \in Nat

VARIABLES nimrod,     \* nimrod-state.json
          scans,      \* per scan, what it loaded and saw
          nextAlert,  \* alert ids are new (uuid)
          reported,   \* ghost: alerts a report said were kept
          dropped,    \* ghost: of them, those lost to an overlap, the limit, a failed write or a death
          scanFaults  \* failed writes and deaths there were

scanVars == <<nimrod, scans, nextAlert, reported, dropped, scanFaults>>

NoState == [hour |-> "never", count |-> 0, alerts |-> <<>>]

ScansTypeOK ==
  /\ nimrod.hour \in {"never", "this", "past"}
  /\ nimrod.count \in 0 .. MaxAlertsPerHour
  /\ Len(nimrod.alerts) <= MaxAlerts
  /\ \A s \in Scanning : scans[s] = NoScan \/ scans[s].seen \in Machines
  /\ nextAlert \in 1 .. MaxIds + 1
  /\ reported \subseteq 1 .. MaxIds /\ dropped \subseteq 1 .. MaxIds

ScansInit ==
  /\ nimrod = NoState
  /\ scans = [s \in Scanning |-> NoScan]
  /\ nextAlert = 1
  /\ reported = {} /\ dropped = {}
  /\ scanFaults = 0

---------------------------------------------------------------------------
(* The scanners *)

\* What each scanner takes for a high risk, and for suspicious.
ProcessSigns == [high |-> {"odd process"}, low |-> {"busy process", "large process"}]
PersistenceSigns == [high |-> {}, low |-> {"unknown agent", "cron job"}]
NetworkSigns == [high |-> {"odd connection"}, low |-> {"odd listener"}]
PermissionSigns ==
  [high |-> {"world writable"}, low |-> {"sudo", "suid", "many keys", "open settings"}]
FilesystemSigns ==
  [high |-> {"temporary program"}, low |-> {"recent change", "large file", "many hidden files"}]

Scanners == <<ProcessSigns, PersistenceSigns, NetworkSigns, PermissionSigns, FilesystemSigns>>

\* What a scanner finds in order is told too, with no score and no alert.
HighFindings(seen) == seen \cap UNION {Scanners[i].high : i \in DOMAIN Scanners}
LowFindings(seen) == seen \cap UNION {Scanners[i].low : i \in DOMAIN Scanners}
RiskScore(seen) == 20 * Cardinality(HighFindings(seen)) + 5 * Cardinality(LowFindings(seen))

---------------------------------------------------------------------------
(* The alerts *)

\* canSendAlert begins a new hour if the last one is over.
Opened(state) ==
  IF state.hour = "this" THEN state
  ELSE [state EXCEPT !.hour = "this", !.count = 0,
                     !.alerts = [i \in DOMAIN @ |-> [@[i] EXCEPT !.now = FALSE]]]

CanSendAlert(state) == Opened(state).count < MaxAlertsPerHour

\* recordAlert; now is a ghost: an alert of the hour that is counted.
RecordAlert(state, id) ==
  LET all == <<[id |-> id, now |-> TRUE]>> \o Opened(state).alerts
  IN [Opened(state) EXCEPT
        !.alerts = SubSeq(all, 1, IF Len(all) > MaxAlerts THEN MaxAlerts ELSE Len(all)),
        !.count = @ + 1]

\* Mutants, here and below: what a slip in this code would do.
RaisedAtOnce(state, n) ==
  LET F[k \in 0 .. n] == IF k = 0 THEN Opened(state)
                         ELSE IF CanSendAlert(state) THEN RecordAlert(F[k - 1], nextAlert + k - 1)
                         ELSE F[k - 1]
  IN F[n]

\* For each of n high findings, an alert if the hour still has room.
Raised(state, n) ==
  LET F[k \in 0 .. n] ==
        IF k = 0 THEN IF n = 0 THEN state ELSE Opened(state)
        ELSE IF CanSendAlert(F[k - 1]) THEN RecordAlert(F[k - 1], nextAlert + k - 1)
        ELSE F[k - 1]
  IN F[n]

IdsOf(state) == {state.alerts[i].id : i \in DOMAIN state.alerts}

\* And one for the score when no finding has made one.
WithScore(state, seen) ==
  LET raised == Raised(state, Cardinality(HighFindings(seen)))
  IN IF RiskScore(seen) > AlertScore /\ IdsOf(raised) \subseteq IdsOf(state)
     THEN IF CanSendAlert(raised) THEN RecordAlert(raised, nextAlert) ELSE Opened(raised)
     ELSE raised

---------------------------------------------------------------------------
(* The scans *)

Busy == {s \in Scanning : scans[s] # NoScan}

\* runFullScan up to its await; a sign is there when the scanner looks.
ScanStarts(s, seen) ==
  /\ scans[s] = NoScan
  /\ nextAlert <= MaxIds
  /\ scans' = [scans EXCEPT ![s] = [state |-> nimrod, seen |-> seen]]
  /\ UNCHANGED <<nimrod, nextAlert, reported, dropped, scanFaults>>

\* And after it: the alerts go into the state loaded before, which is saved.
\* saveState catches what the write throws, and the file is as it was or cut
\* off; the report names the alerts as kept in any case.
ScanEnds(s) ==
  LET new == WithScore(scans[s].state, scans[s].seen)
      fresh == IdsOf(new) \ IdsOf(scans[s].state)
  IN /\ scans[s] # NoScan
     /\ \A id \in fresh : id <= MaxIds
     /\ nextAlert' = nextAlert + Cardinality(fresh)
     /\ scans' = [scans EXCEPT ![s] = NoScan]
     /\ reported' = reported \cup fresh
     /\ \/ /\ nimrod' = new
           /\ dropped' = dropped
                \cup (IdsOf(nimrod) \ IdsOf(scans[s].state))        \* an overlapping scan's
                \cup (IF Len(new.alerts) = MaxAlerts THEN reported \ IdsOf(new) ELSE {})
           /\ UNCHANGED scanFaults
        \/ /\ scanFaults < MaxScanFaults /\ scanFaults' = scanFaults + 1
           /\ \/ UNCHANGED nimrod /\ dropped' = dropped \cup fresh
              \/ nimrod' = NoState /\ dropped' = reported \cup fresh

\* The single scans and nimrod_get_alerts change nothing.

ScanHourPasses ==
  /\ nimrod.hour = "this"
  /\ Busy = {}
  /\ nimrod' = [nimrod EXCEPT !.hour = "past"]
  /\ UNCHANGED <<scans, nextAlert, reported, dropped, scanFaults>>

\* A file cut off in writing is read as if there were none.
ScansDie ==
  /\ scanFaults < MaxScanFaults
  /\ scanFaults' = scanFaults + 1
  /\ scans' = [s \in Scanning |-> NoScan]
  /\ \/ UNCHANGED <<nimrod, dropped>>
     \/ nimrod' = NoState /\ dropped' = reported
  /\ UNCHANGED <<nextAlert, reported>>

ScansNext ==
  \/ \E s \in Scanning : ScanEnds(s) \/ \E seen \in Machines : ScanStarts(s, seen)
  \/ ScanHourPasses \/ ScansDie

ScansSpec == ScansInit /\ [][ScansNext]_scanVars

---------------------------------------------------------------------------
(* Properties *)

\* However scans overlap, the file never holds more alerts of one hour than
\* the limit, nor more than it has counted; and an alert that was reported as
\* kept is in it, unless it was lost to an overlapping scan, to the length of
\* the list, to its own scan's failed write, which the report does not know of,
\* or to a torn file.
AlertsCountedAndKept ==
  LET now == {i \in DOMAIN nimrod.alerts : nimrod.alerts[i].now}
  IN /\ Cardinality(now) <= MaxAlertsPerHour /\ Cardinality(now) <= nimrod.count
     /\ reported \ dropped \subseteq IdsOf(nimrod)
=============================================================================
