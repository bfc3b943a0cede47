------------------------------- MODULE Contracts -------------------------------
(***************************************************************************)
(* contracts.json: one entry per vendor and category that is renewed by    *)
(* what later documents say, a status that follows the dates, the reminder *)
(* of a renewal, and the owner's and the dashboard's corrections.          *)
(* Followed from contracts/contract-store.ts, ai/handlers/contracts.ts,    *)
(* proactive/proactive-engine.ts (checkExpiringContracts) and the          *)
(* dashboard's api/contracts.                                              *)
(***************************************************************************)
EXTENDS Bills

CONSTANTS ContractAliases,        \* its own VENDOR_ALIASES
          ExpirySoon,             \* "expiring_soon" so many days before
          KeptContractReminders,
          LastContractDay, MaxContracts, MaxContractFaults,
          NoContractCopy

VARIABLES contracts,          \* contracts.json
          nextContract,       \* the next id
          remindedContracts,  \* reminded-contracts.json, oldest first
          contractDay,
          dashContracts,      \* the copy a request to the dashboard holds
          contractFaults,
          cancelledOnce,      \* ghost: entries somebody cancelled
          revived             \* ghost: of them, those corrected or in the way since

contractVars == <<contracts, nextContract, remindedContracts, contractDay, dashContracts, contractFaults,
                  cancelledOnce, revived>>

Statuses == {"active", "expiring_soon", "expired", "cancelled"}

ContractsTypeOK ==
  /\ nextContract \in 1 .. MaxContracts + 1
  /\ \A i \in DOMAIN contracts :
       contracts[i].id < nextContract /\ contracts[i].status \in Statuses
  /\ Len(remindedContracts) <= KeptContractReminders
  /\ contractDay \in 0 .. LastContractDay
  /\ cancelledOnce \subseteq 1 .. MaxContracts /\ revived \subseteq 1 .. MaxContracts

ContractsInit ==
  /\ contracts = <<>> /\ nextContract = 1
  /\ remindedContracts = <<>>
  /\ contractDay = 0
  /\ dashContracts = NoContractCopy
  /\ contractFaults = 0
  /\ cancelledOnce = {} /\ revived = {}

---------------------------------------------------------------------------
(* Filing *)

\* The end of a contract counts before its renewal, even when it is long past.
Target(c) == IF c.ends # NoDate THEN c.ends ELSE c.renews

StatusByDate(c) ==
  IF Target(c) = NoDate THEN "active"
  ELSE IF Target(c) < contractDay THEN "expired"
  ELSE IF Target(c) <= contractDay + ExpirySoon THEN "expiring_soon" ELSE "active"

ContractStatus(c) == IF c.status = "cancelled" THEN "cancelled" ELSE StatusByDate(c)

Entry(paper) ==
  [id |-> nextContract, vendor |-> Normalised(paper.name, ContractAliases), category |-> paper.category,
   ends |-> paper.ends, renews |-> paper.renews, status |-> "active"]

SameContract(a, b) == a.vendor = b.vendor /\ a.category = b.category
Running(c) == {i \in DOMAIN contracts : SameContract(contracts[i], c)
                                        /\ contracts[i].status # "cancelled"}

Given(new, old) == IF new = NoDate THEN old ELSE new

\* addContract: a contract that runs is updated, one that was cancelled is not:
\* the next letter about it makes a new entry.
AddContract(paper) ==
  LET c == Entry(paper)
      i == Earliest(Running(c))
      updated == [contracts[i] EXCEPT !.ends = Given(c.ends, @), !.renews = Given(c.renews, @)]
  IN /\ \/ /\ Running(c) # {}
           /\ contracts' = [contracts EXCEPT ![i] =
                              [updated EXCEPT !.status = ContractStatus(updated)]]
           /\ UNCHANGED nextContract
        \/ /\ Running(c) = {}
           /\ nextContract <= MaxContracts
           /\ contracts' = Append(contracts, [c EXCEPT !.status = ContractStatus(c)])
           /\ nextContract' = nextContract + 1
     /\ UNCHANGED <<remindedContracts, contractDay, dashContracts, contractFaults,
                    cancelledOnce, revived>>

\* By PDF, by email once the model has answered, and by add_contract.
ContractArrives(paper) ==
  \/ paper.type = "contract" /\ FromPdf(paper) # Nothing /\ AddContract(FromPdf(paper))
  \/ FromEmail(paper) # Nothing /\ AddContract(FromEmail(paper))

OwnerAddsContract(paper) == paper.type = "contract" /\ AddContract(paper)

---------------------------------------------------------------------------
(* Looking, reminding, correcting *)

RefreshedContracts ==
  [i \in DOMAIN contracts |-> [contracts[i] EXCEPT !.status = ContractStatus(contracts[i])]]

\* list_contracts and check_renewals, by way of getContracts.
ListContracts ==
  /\ contracts' = RefreshedContracts
  /\ UNCHANGED <<nextContract, remindedContracts, contractDay, dashContracts, contractFaults,
                 cancelledOnce, revived>>

\* getExpiringContracts leaves out what ends today.
Expiring ==
  {i \in DOMAIN contracts : /\ contracts[i].status # "cancelled"
                            /\ Target(contracts[i]) # NoDate
                            /\ Target(contracts[i]) > contractDay
                            /\ Target(contracts[i]) <= contractDay + ExpirySoon}

CheckExpiringContracts ==
  LET news == {i \in Expiring : \A j \in DOMAIN remindedContracts :
                                remindedContracts[j] # contracts[i].id}
      noted == Append(remindedContracts, contracts[Earliest(news)].id)
  IN /\ news # {}
     /\ contracts' = RefreshedContracts
     /\ remindedContracts' = IF Len(noted) > KeptContractReminders THEN Tail(noted) ELSE noted
     /\ UNCHANGED <<nextContract, contractDay, dashContracts, contractFaults, cancelledOnce, revived>>

\* What may be corrected: the status, or the vendor; a corrected date is like
\* one of a later letter.
Corrections == {"cancelled", "active", "renamed"}

Corrected(c, change) ==
  IF change = "renamed" THEN [c EXCEPT !.vendor = contracts[1].vendor]
  ELSE [c EXCEPT !.status = change]

\* The ghosts: a cancellation counts unless the other process was rewriting
\* the file (inTheWay), until the entry is reopened or renamed.
SeenAs(id, change, inTheWay) ==
  /\ cancelledOnce' = IF change = "cancelled" THEN cancelledOnce \cup {id} ELSE cancelledOnce
  /\ revived' = IF change = "cancelled" /\ ~inTheWay THEN revived \ {id}
                ELSE revived \cup {id}

\* update_contract: any field, then the status by the dates unless cancelled.
UpdateContract(i, change) ==
  LET c == Corrected(contracts[i], change)
  IN /\ i \in DOMAIN contracts
     /\ contracts' = [contracts EXCEPT ![i] = [c EXCEPT !.status = ContractStatus(c)]]
     /\ SeenAs(c.id, change, dashContracts # NoContractCopy)
     /\ UNCHANGED <<nextContract, remindedContracts, contractDay, dashContracts, contractFaults>>

DashboardReadsContracts ==
  /\ dashContracts = NoContractCopy
  /\ contracts # <<>>
  /\ dashContracts' = contracts
  /\ UNCHANGED <<contracts, nextContract, remindedContracts, contractDay, contractFaults, cancelledOnce, revived>>

\* The dashboard's POST, which saves a field as it is given; what the bot has
\* filed since it read is gone.
DashboardCorrects(i, change) ==
  /\ dashContracts # NoContractCopy
  /\ i \in DOMAIN dashContracts
  /\ contracts # <<>>
  /\ contracts' = [dashContracts EXCEPT ![i] = Corrected(@, change)]
  /\ dashContracts' = NoContractCopy
  /\ SeenAs(dashContracts[i].id, change, FALSE)
  /\ UNCHANGED <<nextContract, remindedContracts, contractDay, contractFaults>>

\* The same with the bot's write over it.
DashboardUndone(i) ==
  /\ dashContracts # NoContractCopy
  /\ i \in DOMAIN dashContracts
  /\ dashContracts' = NoContractCopy
  /\ revived' = revived \cup {dashContracts[i].id}
  /\ UNCHANGED <<contracts, nextContract, remindedContracts, contractDay, contractFaults, cancelledOnce>>

---------------------------------------------------------------------------
(* The days, and deaths *)

ContractDayPasses ==
  /\ contractDay < LastContractDay
  /\ contractDay' = contractDay + 1
  /\ UNCHANGED <<contracts, nextContract, remindedContracts, dashContracts, contractFaults, cancelledOnce, revived>>

ContractsTorn ==
  /\ contractFaults < MaxContractFaults
  /\ contractFaults' = contractFaults + 1
  /\ \/ contracts' = <<>> /\ UNCHANGED remindedContracts
     \/ remindedContracts' = <<>> /\ UNCHANGED contracts
  /\ UNCHANGED <<nextContract, contractDay, dashContracts, cancelledOnce, revived>>

ContractsNext ==
  \/ \E paper \in Papers : ContractArrives(paper) \/ OwnerAddsContract(paper)
  \/ ListContracts \/ CheckExpiringContracts
  \/ \E i \in 1 .. MaxContracts :
       \/ \E change \in Corrections : UpdateContract(i, change) \/ DashboardCorrects(i, change)
       \/ DashboardUndone(i)
  \/ DashboardReadsContracts
  \/ ContractDayPasses \/ ContractsTorn

ContractsSpec == ContractsInit /\ [][ContractsNext]_contractVars

---------------------------------------------------------------------------
(* Properties *)

\* A contract that was cancelled stays cancelled through every later letter,
\* list and passing of its dates, until somebody corrects it; and no vendor has
\* two running contracts of one category unless a correction revived one.
CancelledForGood ==
  /\ \A i \in DOMAIN contracts :
       contracts[i].id \in cancelledOnce \ revived => contracts[i].status = "cancelled"
  /\ \A i, j \in DOMAIN contracts :
       /\ i # j /\ SameContract(contracts[i], contracts[j])
       /\ {contracts[i].id, contracts[j].id} \cap revived = {}
       => "cancelled" \in {contracts[i].status, contracts[j].status}

\* Of both files, which one program fills and the other, the dashboard, corrects:
\* what was settled in either stays settled.
SettledStaysSettled == PaidOnceForAll /\ CancelledForGood
=============================================================================
