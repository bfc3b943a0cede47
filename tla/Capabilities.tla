----------------------------- MODULE Capabilities -----------------------------
(***************************************************************************)
(* How the bot changes itself.  A request for a capability is a file in    *)
(* one of three directories, moved by the owner's word; an approved one is *)
(* given to the agent Yuri, who edits and deploys, or to Claude Code in a  *)
(* worktree, whose work is applied by a merge and a restart.  One          *)
(* capability is followed, from capabilities/spec-store.ts,                *)
(* capability-runner.ts, claude-code.ts, sandbox.ts, ai/handlers/          *)
(* capabilities.ts and whatsapp/owner-commands.ts.                         *)
(***************************************************************************)
EXTENDS Naturals, FiniteSets

CONSTANTS CapRuns,        \* implementations under way
          MaxCapDeaths      \* deaths of the process while a file is written

ASSUME DeathsAssumption == MaxCapDeaths \in Nat

VARIABLES spec,          \* the file in each directory, none if there is none
          capRun,          \* where each implementation stands
          tree,            \* the capability's worktree
          restartDue,      \* a restart of the bot is scheduled
          capDeaths,       \* how many of MaxCapDeaths there were
          verdict          \* ghost: the owner's last word on it

capVars == <<spec, capRun, tree, restartDue, capDeaths, verdict>>

Dirs == {"pending", "approved", "rejected"}

CapabilitiesTypeOK ==
  /\ spec \in [Dirs -> {"none", "whole", "torn"}]
  /\ capRun \in [CapRuns -> {"idle", "announcing", "yuri", "reporting", "excusing", "claude"}]
  /\ tree \in {"none", "clean", "changed"}
  /\ restartDue \in BOOLEAN
  /\ capDeaths \in 0 .. MaxCapDeaths
  /\ verdict \in {"none", "approved", "rejected"}

CapabilitiesInit ==
  /\ spec = [d \in Dirs |-> "none"]
  /\ capRun = [r \in CapRuns |-> "idle"]
  /\ tree = "none"
  /\ restartDue = FALSE
  /\ capDeaths = 0
  /\ verdict = "none"

Goes(r, from, to) == capRun[r] = from /\ capRun' = [capRun EXCEPT ![r] = to]

---------------------------------------------------------------------------
(* The request and its directories *)

\* getSpec: the first copy counts, and a torn one has no status: pending.
Status ==
  IF spec["pending"] # "none" THEN "pending"
  ELSE IF spec["approved"] # "none"
       THEN IF spec["approved"] = "torn" THEN "pending" ELSE "approved"
  ELSE IF spec["rejected"] # "none"
       THEN IF spec["rejected"] = "torn" THEN "pending" ELSE "rejected"
  ELSE "none"

\* moveSpec: the new file is written, then the pending one removed.
Moved(to) == [spec EXCEPT ![to] = "whole", !["pending"] = "none"]

\* The owner's request is approved as it is made, and Yuri set to work.
OwnerRequests(r) ==
  /\ \A d \in Dirs : spec[d] = "none"
  /\ spec' = [spec EXCEPT !["approved"] = "whole"]
  /\ verdict' = "approved"
  /\ Goes(r, "idle", "announcing")
  /\ UNCHANGED <<tree, restartDue, capDeaths>>

OthersRequest ==
  /\ \A d \in Dirs : spec[d] = "none"
  /\ spec' = [spec EXCEPT !["pending"] = "whole"]
  /\ UNCHANGED <<capRun, tree, restartDue, capDeaths, verdict>>

\* Only a pending request is decided; an approved one is implemented at once,
\* if the copy that getSpec finds says so.
OwnerApproves(r) ==
  /\ spec["pending"] # "none" /\ capRun[r] = "idle"
  /\ spec' = Moved("approved")
  /\ verdict' = "approved"
  /\ capRun' = [capRun EXCEPT ![r] = IF Status' = "approved" THEN "announcing" ELSE @]
  /\ UNCHANGED <<tree, restartDue, capDeaths>>

OwnerRejects ==
  /\ spec["pending"] # "none"
  /\ spec' = Moved("rejected")
  /\ verdict' = "rejected"
  /\ UNCHANGED <<capRun, tree, restartDue, capDeaths>>

\* The process dies while it writes the new file, or before it removes the
\* old one; the runs die with it.
DiesDeciding(to) ==
  /\ capDeaths < MaxCapDeaths
  /\ spec["pending"] # "none" /\ to \in {"approved", "rejected"}
  /\ capDeaths' = capDeaths + 1
  /\ \E written \in {"torn", "whole"} : spec' = [spec EXCEPT ![to] = written]
  /\ verdict' = to
  /\ capRun' = [r \in CapRuns |-> "idle"]
  /\ restartDue' = FALSE
  /\ UNCHANGED tree

---------------------------------------------------------------------------
(* runCapabilityImplementation *)

RunUnchecked(r) ==                   \* a mutant: the status is not looked at
  /\ Status # "none"
  /\ Goes(r, "idle", "announcing")
  /\ UNCHANGED <<spec, tree, restartDue, capDeaths, verdict>>

RunCapability(r) ==
  /\ Status = "approved"
  /\ Goes(r, "idle", "announcing")
  /\ UNCHANGED <<spec, tree, restartDue, capDeaths, verdict>>

\* The owner is told, and then Yuri runs, or has run, or failed.
Announced(r) ==
  /\ Goes(r, "announcing", "yuri")
  /\ UNCHANGED <<spec, tree, restartDue, capDeaths, verdict>>

YuriDeploys(r) ==
  /\ capRun[r] = "yuri"
  /\ restartDue' = TRUE
  /\ UNCHANGED <<spec, capRun, tree, capDeaths, verdict>>

YuriDone(r) ==
  /\ Goes(r, "yuri", "reporting")
  /\ UNCHANGED <<spec, tree, restartDue, capDeaths, verdict>>

\* The run fails, or a message to the owner does: told as a failure either way.
RunBreaks(r) ==
  /\ \E at \in {"announcing", "yuri", "reporting"} : Goes(r, at, "excusing")
  /\ UNCHANGED <<spec, tree, restartDue, capDeaths, verdict>>

Reported(r) ==
  /\ \E at \in {"reporting", "excusing"} : Goes(r, at, "idle")
  /\ UNCHANGED <<spec, tree, restartDue, capDeaths, verdict>>

---------------------------------------------------------------------------
(* The worktree: Claude Code and the owner's code_ tools *)

\* createWorktree: an existing one is used as it is.
CodeStartSession ==
  /\ tree' = IF tree = "none" THEN "clean" ELSE tree
  /\ UNCHANGED <<spec, capRun, restartDue, capDeaths, verdict>>

CodeImplement(r) ==
  /\ Status = "approved"
  /\ Goes(r, "idle", "claude")
  /\ tree' = IF tree = "none" THEN "clean" ELSE tree
  /\ UNCHANGED <<spec, restartDue, capDeaths, verdict>>

\* code_write and code_execute, or Claude Code at work in it.
TreeChanges ==
  /\ tree # "none"
  /\ tree' = "changed"
  /\ UNCHANGED <<spec, capRun, restartDue, capDeaths, verdict>>

\* The diff is reported; autoApply is not among the fields of the file.
ClaudeDone(r) ==
  /\ Goes(r, "claude", "idle")
  /\ UNCHANGED <<spec, tree, restartDue, capDeaths, verdict>>

\* Its tree is removed, whoever else works in it.
ClaudeFails(r) ==
  /\ Goes(r, "claude", "idle")
  /\ tree' = "none"
  /\ UNCHANGED <<spec, restartDue, capDeaths, verdict>>

\* applyWorktree once it has built: merged into the main branch, or not, for
\* that is not looked at, and restarted once that has built.
CodeApply ==
  /\ tree # "none"
  /\ tree' = "none"
  /\ restartDue' \in {restartDue, TRUE}
  /\ UNCHANGED <<spec, capRun, capDeaths, verdict>>

CodeCleanup ==
  /\ tree # "none"
  /\ tree' = "none"
  /\ UNCHANGED <<spec, capRun, restartDue, capDeaths, verdict>>

\* pm2 restart: whoever is at work is cut off.
BotRestarts ==
  /\ restartDue
  /\ restartDue' = FALSE
  /\ capRun' = [r \in CapRuns |-> "idle"]
  /\ UNCHANGED <<spec, tree, capDeaths, verdict>>

CapabilitiesNext ==
  \/ \E r \in CapRuns :
       \/ OwnerRequests(r) \/ OwnerApproves(r) \/ RunCapability(r) \/ Announced(r)
       \/ YuriDeploys(r) \/ YuriDone(r) \/ RunBreaks(r) \/ Reported(r)
       \/ CodeImplement(r) \/ ClaudeDone(r) \/ ClaudeFails(r)
  \/ \E to \in Dirs : DiesDeciding(to)
  \/ OthersRequest \/ OwnerRejects \/ BotRestarts
  \/ CodeStartSession \/ TreeChanges \/ CodeApply \/ CodeCleanup

CapabilitiesSpec == CapabilitiesInit /\ [][CapabilitiesNext]_capVars

---------------------------------------------------------------------------
(* What is expected of it *)

\* Neither Yuri nor Claude Code is set to work on a capability that nobody
\* approved, nor on one the owner last rejected, unless a death in the middle
\* of a decision left two copies of the request.
NothingUnapprovedBegins ==
  [][\A r \in CapRuns :
       capRun[r] = "idle" /\ capRun'[r] # "idle" =>
         verdict' # "none" /\ (verdict' = "rejected" => capDeaths > 0)]_capVars
=============================================================================
