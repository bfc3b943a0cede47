------------------------------ MODULE MailRules ------------------------------
(***************************************************************************)
(* Which emails are orders and of what kind, which text messages are about *)
(* parcels, and what the store of email orders takes for the same order.   *)
(* A text counts by the families of patterns it matches.  Followed from    *)
(* email/order-detector.ts, email/email-order-store.ts and                 *)
(* sms/delivery-detector.ts.                                               *)
(***************************************************************************)
EXTENDS Naturals, FiniteSets

CONSTANTS Emails,        \* records: sender, a set of families; subject and body,
                         \* sets of patterns; domain and name, or Nameless;
                         \* found, a set of details; number and time
          KnownVendors,  \* vendorMap: domain -> name
          Nameless,
          Texts,         \* records: sender and words, sets of patterns; own
          NoNumber,
          DedupWindow,   \* DEDUP_WINDOW_MS
          MaxOrders

VARIABLES orders,      \* email-orders.json: what was detected in which email
          parcels      \* the alerts made of text messages

mailVars == <<orders, parcels>>

OrderTypes == {"flight", "hotel", "package", "receipt"}
ParcelTypes == {"delivery", "pickup", "tracking", "shipping"}

MailTypeOK ==
  /\ \A o \in orders : o.mail \in Emails /\ o.type \in OrderTypes
  /\ \A p \in parcels : p.text \in Texts /\ p.type \in ParcelTypes

MailInit == orders = {} /\ parcels = {}

---------------------------------------------------------------------------
(* Orders by email *)

\* Sales, newsletters and passwords by their subject; what can be unsubscribed
\* from by its body, unless the subject speaks of a parcel.
Excluded(mail) ==
  \/ "excluded" \in mail.subject
  \/ "unsubscribe" \in mail.body /\ "package" \notin mail.subject

IsFlight(mail) ==
  \/ "airline" \in mail.sender /\ "flight" \in mail.subject \cup mail.body
  \/ "booking" \in mail.sender /\ "flight" \in mail.subject
  \/ "flight" \in mail.subject

IsHotel(mail) ==
  \/ "hotels" \in mail.sender /\ "hotel" \in mail.subject \cup mail.body
  \/ "hotel" \in mail.subject

\* A shop's subject needs only a word of ordering.
IsPackage(mail) ==
  \/ "shop" \in mail.sender /\ {"package", "ordering"} \cap mail.subject # {}
  \/ "package" \in mail.subject

IsReceipt(mail) == "receipt" \in mail.subject

\* Mutants, here and below: what a slip in this code would do.
ReceiptsFirst(mail) ==
  IF Excluded(mail) THEN "none"
  ELSE IF IsReceipt(mail) THEN "receipt"
  ELSE IF IsFlight(mail) THEN "flight"
  ELSE IF IsHotel(mail) THEN "hotel"
  ELSE IF IsPackage(mail) THEN "package" ELSE "none"

\* classifyEmailType: the first that fits; receipts cast the widest net.
EmailType(mail) ==
  IF Excluded(mail) THEN "none"
  ELSE IF IsFlight(mail) THEN "flight"
  ELSE IF IsHotel(mail) THEN "hotel"
  ELSE IF IsPackage(mail) THEN "package"
  ELSE IF IsReceipt(mail) THEN "receipt" ELSE "none"

\* detectVendor: the domain's known name, or the sender's, or the domain.
Vendor(mail) ==
  CASE mail.domain \in DOMAIN KnownVendors -> KnownVendors[mail.domain]
    [] mail.domain \notin DOMAIN KnownVendors /\ mail.name # Nameless -> mail.name
    [] OTHER -> mail.domain

\* What is looked for in the text of each kind; only parcels and receipts have
\* a number of order.
Sought == [package |-> {"number", "tracking", "amount"},
           flight |-> {"flight", "route", "departure"},
           hotel |-> {"hotel", "stay", "confirmation"},
           receipt |-> {"amount", "number"}]

\* detectEmailOrder.
OrderIn(mail) ==
  LET details == Sought[EmailType(mail)] \cap mail.found
  IN  [mail |-> mail, type |-> EmailType(mail), vendor |-> Vendor(mail), details |-> details,
       number |-> IF "number" \in details THEN mail.number ELSE NoNumber]

SameOrder(a, b) ==
  \/ a.mail = b.mail
  \/ a.vendor = b.vendor /\ a.number # NoNumber /\ a.number = b.number
  \/ /\ a.vendor = b.vendor /\ a.type = b.type
     /\ a.mail.time < b.mail.time + DedupWindow
     /\ b.mail.time < a.mail.time + DedupWindow

\* addEmailOrder, for an email that was detected as one.
MailRead(mail) ==
  /\ EmailType(mail) # "none"
  /\ Cardinality(orders) < MaxOrders
  /\ \A o \in orders : ~SameOrder(o, OrderIn(mail))
  /\ orders' = orders \cup {OrderIn(mail)}
  /\ UNCHANGED parcels

---------------------------------------------------------------------------
(* Parcels by text message *)

IsDelivery(text) ==
  /\ ~text.own
  /\ "excluded" \notin text.words
  /\ {"carrier", "delivery"} \cap (text.words \cup text.sender) # {}

\* detectDeliveryType, in its order.
ParcelType(text) ==
  IF "arrived" \in text.words THEN "delivery"
  ELSE IF "pickup" \in text.words THEN "pickup"
  ELSE IF "tracking" \in text.words THEN "tracking" ELSE "shipping"

TextRead(text) ==
  /\ IsDelivery(text)
  /\ parcels' = parcels \cup {[text |-> text, type |-> ParcelType(text)]}
  /\ UNCHANGED orders

MailNext ==
  \/ \E mail \in Emails : MailRead(mail)
  \/ \E text \in Texts : TextRead(text)

MailSpec == MailInit /\ [][MailNext]_mailVars

---------------------------------------------------------------------------
(* Properties *)

\* A booking that its subject line names is never filed as a mere receipt: what
\* the store holds as one has a subject of no flight, stay or parcel (the body
\* may); and of two emails of one vendor and order number only one is in it.
FiledAsWhatItIs ==
  /\ \A o \in orders : o.type = "receipt" =>
       o.mail.subject \cap {"flight", "hotel", "package"} = {}
  /\ \A o, p \in orders : o # p =>
       ~(o.vendor = p.vendor /\ o.number # NoNumber /\ o.number = p.number)
=============================================================================
