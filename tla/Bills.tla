--------------------------------- MODULE Bills ---------------------------------
(***************************************************************************)
(* bills.json: bills read from PDFs or told by the owner, what counts as a *)
(* duplicate, how a bill falls overdue and is reminded of once, and how it *)
(* is paid: by tool call, or in the dashboard, a second process that reads *)
(* the file and writes it back.  Every operation of the bot is one         *)
(* synchronous read and write.  Followed from bills/bill-store.ts,         *)
(* ai/handlers/bills.ts, proactive/proactive-engine.ts (checkOverdueBills) *)
(* and the dashboard's api/bills.                                          *)
(***************************************************************************)
EXTENDS Documents

CONSTANTS BillAliases,     \* VENDOR_ALIASES, in the order of the table
          CategoryOf,      \* VENDOR_CATEGORY_OVERRIDES
          Window,          \* days between two periods that are the same bill
          SoonDays,        \* a bill due so soon is reminded of
          KeptReminders,   \* how many ids reminded-bills.json keeps
          LastDay, MaxBills, MaxBillFaults,   \* bounds
          NoCopy

VARIABLES bills,        \* bills.json
          nextBill,     \* the next id
          remindedBills,\* reminded-bills.json, oldest first
          billDay,      \* today
          dashBills,    \* the copy a request to the dashboard holds
          billFaults,
          paidOnce,     \* ghost: the bills somebody has seen as paid
          payLost       \* ghost: of them, those in the way of the other process

billVars == <<bills, nextBill, remindedBills, billDay, dashBills, billFaults, paidOnce, payLost>>

Ids(file) == {file[i].id : i \in DOMAIN file}

BillsTypeOK ==
  /\ \A i \in DOMAIN bills : /\ bills[i].id \in 1 .. nextBill - 1
                             /\ bills[i].status \in {"unpaid", "overdue", "paid"}
                             /\ bills[i].paidAt \in BOOLEAN
  /\ nextBill \in 1 .. MaxBills + 1
  /\ Len(remindedBills) <= KeptReminders
  /\ billDay \in 0 .. LastDay
  /\ paidOnce \subseteq 1 .. MaxBills /\ payLost \subseteq 1 .. MaxBills

BillsInit ==
  /\ bills = <<>> /\ nextBill = 1
  /\ remindedBills = <<>>
  /\ billDay = 0
  /\ dashBills = NoCopy
  /\ billFaults = 0
  /\ paidOnce = {} /\ payLost = {}

---------------------------------------------------------------------------
(* Filing *)

StatusByDue(bill) ==
  IF bill.due # NoDate /\ bill.due < billDay THEN "overdue" ELSE "unpaid"

ComputeStatus(bill) ==
  IF bill.paidAt \/ bill.status = "paid" THEN "paid" ELSE StatusByDue(bill)

Filed(paper) ==
  LET vendor == Normalised(paper.name, BillAliases)
  IN [id |-> nextBill, vendor |-> vendor,
      category |-> IF vendor \in DOMAIN CategoryOf THEN CategoryOf[vendor] ELSE paper.category,
      invoice |-> paper.invoice, period |-> paper.period, due |-> paper.due,
      paidAt |-> paper.paid, status |-> IF paper.paid THEN "paid" ELSE "unpaid"]

SameInvoice(a, b) == a.vendor = b.vendor /\ a.invoice # NoDate /\ a.invoice = b.invoice

SamePeriod(a, b) ==
  /\ a.vendor = b.vendor /\ a.category = b.category
  /\ a.period # NoDate /\ b.period # NoDate
  /\ a.period < b.period + Window /\ b.period < a.period + Window

Duplicate(bill) ==
  \E i \in DOMAIN bills : SameInvoice(bills[i], bill) \/ SamePeriod(bills[i], bill)

\* addBill; a bill that came paid is saved paid.
AddBill(paper) ==
  LET bill == Filed(paper)
  IN /\ nextBill <= MaxBills
     /\ ~Duplicate(bill)
     /\ bills' = Append(bills, [bill EXCEPT !.status = ComputeStatus(bill)])
     /\ nextBill' = nextBill + 1
     /\ paidOnce' = IF paper.paid THEN paidOnce \cup {nextBill} ELSE paidOnce
     /\ payLost' = IF paper.paid /\ dashBills # NoCopy THEN payLost \cup {nextBill} ELSE payLost
     /\ UNCHANGED <<remindedBills, billDay, dashBills, billFaults>>

\* The PDF, once the model has answered; and add_bill, which files nothing as paid.
PdfBill(paper) ==
  /\ FromPdf(paper) # Nothing /\ paper.type = "bill"
  /\ AddBill(FromPdf(paper))

OwnerAddsBill(paper) == paper.type = "bill" /\ AddBill([paper EXCEPT !.paid = FALSE])

---------------------------------------------------------------------------
(* Looking and reminding *)

\* getBills, under every list: the statuses are brought up to date and saved.
Refreshed == [i \in DOMAIN bills |-> [bills[i] EXCEPT !.status = ComputeStatus(bills[i])]]

ListBills ==
  /\ bills' = Refreshed
  /\ UNCHANGED <<nextBill, remindedBills, billDay, dashBills, billFaults, paidOnce, payLost>>

Unreminded(i) == \A j \in DOMAIN remindedBills : remindedBills[j] # Refreshed[i].id
OverdueNews == {i \in DOMAIN bills : Refreshed[i].status = "overdue" /\ Unreminded(i)}
SoonNews ==
  {i \in DOMAIN bills : /\ Refreshed[i].status = "unpaid" /\ Unreminded(i)
                        /\ Refreshed[i].due # NoDate
                        /\ Refreshed[i].due <= billDay + SoonDays}

\* checkOverdueBills: the first one overdue, or else due soon; it is noted as
\* reminded before its message is sent.
CheckOverdueBills ==
  LET news == IF OverdueNews # {} THEN OverdueNews ELSE SoonNews
      noted == Append(remindedBills, bills[Earliest(news)].id)
  IN /\ news # {}
     /\ bills' = Refreshed
     /\ remindedBills' = IF Len(noted) > KeptReminders THEN Tail(noted) ELSE noted
     /\ UNCHANGED <<nextBill, billDay, dashBills, billFaults, paidOnce, payLost>>

---------------------------------------------------------------------------
(* Paying *)

\* A mark set while the dashboard holds a copy may be lost to that copy.
SeenPaid(id) ==
  /\ paidOnce' = paidOnce \cup {id}
  /\ payLost' = IF dashBills # NoCopy THEN payLost \cup {id} ELSE payLost \ {id}

MarkPaid(file, i) == [file EXCEPT ![i].status = "paid", ![i].paidAt = TRUE]

\* mark_bill_paid by id, whatever its status ...
PaysById(i) ==
  /\ i \in DOMAIN bills
  /\ bills' = MarkPaid(bills, i)
  /\ SeenPaid(bills[i].id)
  /\ UNCHANGED <<nextBill, remindedBills, billDay, dashBills, billFaults>>

\* ... or by vendor: the oldest one saved as not paid.
PaysByVendor(vendor) ==
  LET open == {i \in DOMAIN bills : bills[i].status # "paid" /\ bills[i].vendor = vendor}
  IN open # {} /\ PaysById(Earliest(open))

\* The dashboard's POST: it reads, and a moment later writes all it has read.
DashboardReadsBills ==
  /\ dashBills = NoCopy
  /\ bills # <<>>
  /\ dashBills' = bills
  /\ UNCHANGED <<bills, nextBill, remindedBills, billDay, billFaults, paidOnce, payLost>>

DashboardPays(i) ==
  /\ dashBills # NoCopy
  /\ i \in DOMAIN dashBills
  /\ bills' = MarkPaid(dashBills, i)
  /\ dashBills' = NoCopy
  /\ paidOnce' = paidOnce \cup {dashBills[i].id}
  /\ payLost' = payLost \ {dashBills[i].id}
  /\ UNCHANGED <<nextBill, remindedBills, billDay, billFaults>>

\* The same with the bot in between: its write restores the row as it was.
DashboardOverwritten(i) ==
  /\ dashBills # NoCopy
  /\ i \in DOMAIN dashBills
  /\ dashBills' = NoCopy
  /\ paidOnce' = paidOnce \cup {dashBills[i].id}
  /\ payLost' = payLost \cup {dashBills[i].id}
  /\ UNCHANGED <<bills, nextBill, remindedBills, billDay, billFaults>>

---------------------------------------------------------------------------
(* The days, and deaths *)

BillDayPasses ==
  /\ billDay < LastDay
  /\ billDay' = billDay + 1
  /\ UNCHANGED <<bills, nextBill, remindedBills, dashBills, billFaults, paidOnce, payLost>>

\* A file that was cut off in writing is read as empty, and so saved.
BillsTorn ==
  /\ billFaults < MaxBillFaults
  /\ billFaults' = billFaults + 1
  /\ \/ bills' = <<>> /\ UNCHANGED remindedBills
     \/ remindedBills' = <<>> /\ UNCHANGED bills
  /\ UNCHANGED <<nextBill, billDay, dashBills, paidOnce, payLost>>

BillsNext ==
  \/ \E paper \in Papers : PdfBill(paper) \/ OwnerAddsBill(paper)
  \/ ListBills \/ CheckOverdueBills
  \/ \E i \in 1 .. MaxBills : PaysById(i) \/ DashboardPays(i) \/ DashboardOverwritten(i)
  \/ \E i \in DOMAIN bills : PaysByVendor(bills[i].vendor)
  \/ DashboardReadsBills
  \/ BillDayPasses \/ BillsTorn

BillsSpec == BillsInit /\ [][BillsNext]_billVars

---------------------------------------------------------------------------
(* Properties *)

\* A bill that was paid stays paid, and out of the reminders, whatever is
\* listed, filed or refreshed afterwards; and no invoice and no period of a
\* vendor is in the books twice.  Only a mark set while the other process was
\* rewriting the file may be lost.
PaidOnceForAll ==
  /\ \A i \in DOMAIN bills : bills[i].id \in paidOnce \ payLost => bills[i].status = "paid"
  /\ \A i, j \in DOMAIN bills : i # j =>
       ~SameInvoice(bills[i], bills[j]) /\ ~SamePeriod(bills[i], bills[j])
=============================================================================
