---------------------------- MODULE Billing_proofs ----------------------------
(***************************************************************************)
(* Proofs about Billing, for any accounts, redeems and subscriptions, any  *)
(* period and any length of the grace window.                              *)
(***************************************************************************)
EXTENDS Billing, TLAPS

------------------------------------------------------------------------------
(* The inductive invariant *)

\* The ids of a subscription are its own, with a number that no more changes
\* than happened account for, and it is paid for at least the first period.
StoreKeepsIds ==
  \A s \in Subs : /\ store[s].txn[1] = s /\ store[s].txn[2] <= events
                  /\ store[s].expires >= Period

\* What is known of a purchase follows from its transaction.
Backed(record) ==
  /\ record.product \in Subs /\ record.provider = Catalog[record.product]
  /\ record.provider \in Configured
  /\ record.txn \in Subs \X (0..MaxEvents) /\ record.txn[1] = record.product

RecordsBacked ==
  /\ \A u \in Users : held[u] # NoRecord => Backed(held[u])
  /\ \A q \in Redeems : redeems[q].got # NoRecord => Backed(redeems[q].got)
  /\ \A q \in Redeems : redeems[q].at # "idle" => Backed(redeems[q].got)

\* Who is about to upsert found no other holder, and there is none yet.
SearchHolds ==
  \A q \in Redeems : redeems[q].at = "upsert" /\ redeems[q].got.txn \notin raced =>
    HoldersOf(redeems[q].got) \subseteq {redeems[q].user}

\* Two that are about to upsert one transaction are marked.
RacesNoted ==
  \A p, q \in Redeems :
    /\ p # q /\ redeems[p].at = "upsert" /\ redeems[q].at = "upsert"
    /\ redeems[p].got.txn = redeems[q].got.txn
    => redeems[p].got.txn \in raced

BillingInv == /\ BillingTypeOK /\ StoreKeepsIds /\ RecordsBacked
              /\ SearchHolds /\ RacesNoted /\ HeldOnce

------------------------------------------------------------------------------
(* What a verifier returns *)

LEMMA SubsAreNumbers ==
  /\ Subs = 1..Len(Catalog) /\ Subs \subseteq Nat
  /\ \A s \in Subs : Catalog[s] \in {"apple", "google", "stripe"}
<1>1. Len(Catalog) \in Nat /\ DOMAIN Catalog = 1..Len(Catalog)
  BY BillingAssumption
<1>2. \A s \in 1..Len(Catalog) : Catalog[s] \in {"apple", "google", "stripe"}
  BY BillingAssumption
<1>3. 1..Len(Catalog) \subseteq Nat
  BY <1>1
<1> QED
  BY <1>1, <1>2, <1>3 DEF Subs

\* What a purchase has to do with the subscription it was made from.
Granted(purchase, s) ==
  /\ InUse(s) /\ Catalog[s] = purchase.provider
  /\ purchase.product = s
  /\ purchase.txn = store[s].txn /\ purchase.expiresAt = store[s].expires
  /\ purchase.autoRenewing => Renews(s) \/ purchase.provider = "apple"

\* It is a record of these fields and no other.
Shaped(purchase) ==
  /\ purchase.autoRenewing \in BOOLEAN
  /\ purchase = [provider |-> purchase.provider, txn |-> purchase.txn,
                 product |-> purchase.product, expiresAt |-> purchase.expiresAt,
                 autoRenewing |-> purchase.autoRenewing]

\* The App Store's answer has one entry for each subscription it sold.
LEMMA AppleGrants ==
  ASSUME BillingInv, NEW purchase \in VerifyApple(AppleAnswer)
  PROVE  Shaped(purchase) /\ purchase.provider = "apple" /\ \E s \in Subs : Granted(purchase, s)
<1> DEFINE ts == AppleAnswer
           readable == AppleReadable(ts)
<1>1. \E j \in DOMAIN ts :
        /\ purchase = ApplePurchase(ts[j]) /\ j \in readable
        /\ ts[j].status \in AppleActive
  BY DEF VerifyApple, Latest, AppleReadable
<1>2. PICK j \in DOMAIN ts :
        /\ purchase = ApplePurchase(ts[j]) /\ j \in readable
        /\ ts[j].status \in AppleActive
  BY <1>1
<1>3. DOMAIN ts = Subs
  BY DEF AppleAnswer
<1>4. /\ ts[j].status = IF Catalog[j] = "apple" THEN AppleStatus(j) ELSE 0
      /\ ts[j].txn = store[j].txn /\ ts[j].product = j /\ ts[j].expires = store[j].expires
  BY <1>2, <1>3 DEF AppleAnswer
<1>5. Catalog[j] = "apple" /\ InUse(j)
  BY <1>2, <1>4 DEF AppleActive, AppleStatus, InUse
<1> QED
  BY <1>2, <1>3, <1>4, <1>5 DEF ApplePurchase, Granted, Shaped

\* Of the two items of a Google answer the one that ends last is taken, which
\* is the subscription's own.
LEMMA GoogleGrants ==
  ASSUME BillingInv, NEW s \in Subs, Catalog[s] = "google",
         NEW purchase \in VerifyGoogle(GoogleAnswer(s), <<s, 0>>)
  PROVE  Shaped(purchase) /\ Granted(purchase, s)
<1> DEFINE answer == GoogleAnswer(s)
           items == answer.lineItems
           ends == [i \in DOMAIN items |-> items[i].expires]
           dated == {i \in DOMAIN items : items[i].expires # 0}
<1>1. /\ DOMAIN items = 1..2 /\ items[1].expires = Period /\ items[2].expires = store[s].expires
      /\ \A i \in 1..2 : items[i].product = s /\ items[i].auto = Renews(s)
      /\ answer.order = store[s].txn
  BY DEF GoogleAnswer
<1>2. /\ Period \in Nat \ {0} /\ store[s].expires \in Nat /\ store[s].expires >= Period
      /\ store[s].txn # <<>>
  BY BillingAssumption DEF BillingInv, BillingTypeOK, StoreKeepsIds
<1>3. answer.state \in GoogleActive
  BY DEF VerifyGoogle
<1>4. PICK i \in Latest(dated, ends) :
        purchase = [provider |-> "google",
                    txn |-> IF answer.order = <<>> THEN <<s, 0>> ELSE answer.order,
                    product |-> items[i].product, expiresAt |-> items[i].expires,
                    autoRenewing |-> items[i].auto]
  BY <1>3 DEF VerifyGoogle
<1>5. answer.state = CASE store[s].state = "active" -> "ACTIVE"
                       [] store[s].state = "grace" -> "IN_GRACE_PERIOD"
                       [] store[s].state = "canceled" -> "CANCELED"
                       [] OTHER -> "EXPIRED"
  BY DEF GoogleAnswer
<1>6. InUse(s)
  BY <1>3, <1>5 DEF GoogleActive, InUse
<1> HIDE DEF items, answer
<1>7. i \in 1..2 /\ items[i].expires = store[s].expires
  <2>1. i \in 1..2 /\ \A j \in 1..2 : items[j].expires # 0 =>
          ends[j] < ends[i] \/ (ends[j] = ends[i] /\ i <= j)
    BY <1>1, <1>4 DEF Latest
  <2>2. ends[1] = Period /\ ends[2] = store[s].expires
    BY <1>1
  <2> QED
    BY <1>1, <1>2, <2>1, <2>2
<1>8. Renews(s) \in BOOLEAN
  BY DEF Renews
<1> QED
  BY <1>1, <1>2, <1>4, <1>6, <1>7, <1>8 DEF Granted, Shaped

LEMMA StripeGrants ==
  ASSUME BillingInv, NEW s \in Subs, Catalog[s] = "stripe",
         NEW purchase \in VerifyStripe(StripeAnswer(s))
  PROVE  Shaped(purchase) /\ Granted(purchase, s)
<1>1. store[s].state \in {"active", "grace", "canceled", "lapsed"}
  BY DEF BillingInv, BillingTypeOK
<1>2. StripeAnswer(s).status \in StripeActive => InUse(s)
  BY <1>1 DEF StripeAnswer, StripeActive, InUse
<1>3. StripeAnswer(s).cancelAtEnd = (store[s].state = "canceled")
  BY DEF StripeAnswer
<1>4. /\ StripeAnswer(s).status \in StripeActive
      /\ purchase = [provider |-> "stripe", txn |-> store[s].txn, product |-> s,
           expiresAt |-> store[s].expires, autoRenewing |-> ~(store[s].state = "canceled")]
  BY DEF VerifyStripe, StripeAnswer
<1>5. InUse(s) /\ (store[s].state # "canceled" => Renews(s))
  BY <1>1, <1>2, <1>4 DEF InUse, Renews
<1> QED
  BY <1>4, <1>5 DEF Granted, Shaped

LEMMA VerifyGrants ==
  ASSUME BillingInv, NEW s \in Subs, NEW purchase \in Verify(s)
  PROVE  /\ \E t \in Subs : Granted(purchase, t)
         /\ purchase.provider \in Configured /\ Shaped(purchase)
<1>1. Catalog[s] \in Configured /\ Catalog[s] \in {"apple", "google", "stripe"}
  BY BillingAssumption, SubsAreNumbers DEF Verify
<1>2. CASE Catalog[s] = "apple"
  BY <1>1, <1>2, AppleGrants DEF Verify
<1>3. CASE Catalog[s] = "google"
  BY <1>1, <1>3, GoogleGrants DEF Verify, Granted
<1>4. CASE Catalog[s] = "stripe"
  BY <1>1, <1>4, StripeGrants DEF Verify, Granted
<1> QED
  BY <1>1, <1>2, <1>3, <1>4

\* Purchases are records of the shape the accounts keep.
LEMMA VerifyShape ==
  ASSUME BillingInv, NEW s \in Subs, NEW purchase \in Verify(s)
  PROVE  purchase \in Purchases /\ Backed(purchase) /\ purchase # NoRecord
<1>1. PICK t \in Subs : Granted(purchase, t)
  BY VerifyGrants
<1>2. /\ store[t].txn \in Subs \X (0..MaxEvents) /\ store[t].expires \in Nat /\ store[t].txn[1] = t
      /\ Catalog[t] \in {"apple", "google", "stripe"} /\ t \in Nat
  BY BillingAssumption, SubsAreNumbers DEF BillingInv, BillingTypeOK, StoreKeepsIds
<1>4. Shaped(purchase) /\ purchase.provider \in Configured
  BY VerifyGrants
<1>5. Backed(purchase)
  BY <1>1, <1>2, <1>4 DEF Granted, Backed
<1>6. purchase # NoRecord
  BY <1>1, <1>2 DEF Granted, NoRecord
<1> DEFINE provider == purchase.provider  txn == purchase.txn  product == purchase.product
           expiresAt == purchase.expiresAt  autoRenewing == purchase.autoRenewing
<1>7. /\ provider \in {"none", "apple", "google", "stripe"} /\ txn \in Txns
      /\ product \in Nat /\ expiresAt \in Nat /\ autoRenewing \in BOOLEAN
  BY <1>1, <1>2, <1>4 DEF Granted, Shaped, Txns
<1>8. purchase = [provider |-> provider, txn |-> txn, product |-> product,
                  expiresAt |-> expiresAt, autoRenewing |-> autoRenewing]
  BY <1>4 DEF Shaped
<1> HIDE DEF provider, txn, product, expiresAt, autoRenewing
<1>9. purchase \in Purchases
  BY <1>7, <1>8 DEF Purchases
<1> QED
  BY <1>5, <1>6, <1>9

------------------------------------------------------------------------------
(* Steps *)

LEMMA StoreKeeps ==
  ASSUME BillingInv, NEW s \in Subs, NEW row, StoreChanges(s, row),
         row \in [state : {"active", "grace", "canceled", "lapsed"},
                  txn : Subs \X (0..MaxEvents), expires : Nat],
         row.txn[1] = s, row.txn[2] <= events + 1, row.expires >= Period
  PROVE  BillingInv'
<1>1. /\ events' = events + 1 /\ events' \in 0..MaxEvents
      /\ UNCHANGED <<now, held, redeems, raced>>
      /\ store' = [store EXCEPT ![s] = row]
  BY BillingAssumption DEF StoreChanges, BillingInv, BillingTypeOK
<1>2. BillingTypeOK'
  BY <1>1 DEF BillingInv, BillingTypeOK
<1>3. StoreKeepsIds'
  <2>1. SUFFICES ASSUME NEW t \in Subs
                 PROVE  /\ store'[t].txn[1] = t /\ store'[t].txn[2] <= events'
                        /\ store'[t].expires >= Period
    BY DEF StoreKeepsIds
  <2>2. store'[t] = IF t = s THEN row ELSE store[t]
    BY <1>1 DEF BillingInv, BillingTypeOK
  <2>3. /\ store[t].txn \in Subs \X (0..MaxEvents) /\ events \in Nat
        /\ store[t].txn[1] = t /\ store[t].txn[2] <= events /\ store[t].expires >= Period
    BY BillingAssumption DEF BillingInv, BillingTypeOK, StoreKeepsIds
  <2> QED
    BY <1>1, <2>2, <2>3, BillingAssumption
<1> QED
  BY <1>1, <1>2, <1>3
     DEF BillingInv, RecordsBacked, Backed, SearchHolds, HoldersOf, RacesNoted, HeldOnce

LEMMA StoreStepsKeep ==
  ASSUME BillingInv, NEW s \in Subs,
         StoreRenews(s) \/ StoreDeclines(s) \/ StoreCancels(s) \/ StoreLapses(s)
  PROVE  BillingInv'
<1>1. /\ store[s] \in [state : {"active", "grace", "canceled", "lapsed"},
                       txn : Subs \X (0..MaxEvents), expires : Nat]
      /\ store[s].txn[1] = s /\ store[s].txn[2] <= events /\ store[s].expires >= Period
      /\ events \in Nat /\ Period \in Nat /\ MaxEvents \in Nat
  BY BillingAssumption DEF BillingInv, BillingTypeOK, StoreKeepsIds
<1>2. CASE StoreRenews(s)
  <2> DEFINE row(k) == [state |-> "active", txn |-> <<s, k>>, expires |-> store[s].expires + Period]
  <2>1. PICK k \in {store[s].txn[2], store[s].txn[2] + 1} : StoreChanges(s, row(k))
    BY <1>2 DEF StoreRenews
  <2>2. events < MaxEvents
    BY <2>1 DEF StoreChanges
  <2>3. k \in 0..MaxEvents /\ k <= events + 1
    BY <1>1, <2>2
  <2>4. row(k) \in [state : {"active", "grace", "canceled", "lapsed"},
                    txn : Subs \X (0..MaxEvents), expires : Nat]
    BY <1>1, <2>3
  <2>5. row(k).txn[1] = s /\ row(k).txn[2] <= events + 1 /\ row(k).expires >= Period
    BY <1>1, <2>3
  <2> HIDE DEF row
  <2> QED
    BY <2>1, <2>4, <2>5, StoreKeeps
<1>3. CASE StoreDeclines(s) \/ StoreCancels(s) \/ StoreLapses(s)
  <2>1. PICK state \in {"grace", "canceled", "lapsed"} :
          StoreChanges(s, [store[s] EXCEPT !.state = state])
    BY <1>3 DEF StoreDeclines, StoreCancels, StoreLapses
  <2> DEFINE row == [store[s] EXCEPT !.state = state]
  <2>2. /\ row \in [state : {"active", "grace", "canceled", "lapsed"},
                    txn : Subs \X (0..MaxEvents), expires : Nat]
        /\ row.txn = store[s].txn /\ row.expires = store[s].expires
    BY <1>1
  <2>3. row.txn[1] = s /\ row.txn[2] <= events + 1 /\ row.expires >= Period
    BY <1>1, <2>2
  <2>4. StoreChanges(s, row)
    BY <2>1
  <2> HIDE DEF row
  <2> QED
    BY <2>2, <2>3, <2>4, StoreKeeps
<1> QED
  BY <1>2, <1>3

\* A redeem whose store stood behind its receipt goes on with a backed purchase.
LEMMA RedeemVerifiesKeeps ==
  ASSUME BillingInv, NEW q \in Redeems, NEW u \in Users, NEW s \in Subs, RedeemVerifies(q, u, s)
  PROVE  BillingInv'
<1>1. PICK purchase \in Verify(s) :
        redeems' = [redeems EXCEPT ![q] = [at |-> "find", got |-> purchase, user |-> u]]
  BY DEF RedeemVerifies
<1>2. UNCHANGED <<now, store, events, held, raced>>
  BY DEF RedeemVerifies
<1>3. purchase \in Purchases /\ Backed(purchase)
  BY VerifyShape
<1> DEFINE redeem == [at |-> "find", got |-> purchase, user |-> u]
<1>4. redeem \in Redeem /\ redeem.at = "find" /\ redeem.got = purchase /\ redeem.user = u
  BY <1>3 DEF Redeem
<1> HIDE DEF redeem
<1>5. /\ redeems' \in [Redeems -> Redeem]
      /\ \A p \in Redeems : redeems'[p] = IF p = q THEN redeem ELSE redeems[p]
  BY <1>1, <1>4 DEF BillingInv, BillingTypeOK, redeem
<1>6. BillingTypeOK'
  BY <1>2, <1>3, <1>4, <1>5 DEF BillingInv, BillingTypeOK, Backed
<1>7. RecordsBacked'
  BY <1>2, <1>3, <1>4, <1>5 DEF BillingInv, RecordsBacked, Backed
<1>8. StoreKeepsIds' /\ HeldOnce'
  BY <1>2 DEF BillingInv, StoreKeepsIds, HeldOnce
<1>9. SearchHolds' /\ RacesNoted'
  BY <1>2, <1>4, <1>5 DEF BillingInv, SearchHolds, RacesNoted, HoldersOf
<1> QED
  BY <1>6, <1>7, <1>8, <1>9 DEF BillingInv

LEMMA IdleRedeem ==
  /\ NoRecord \in Purchases /\ RedeemIdle \in Redeem
  /\ RedeemIdle.at = "idle" /\ RedeemIdle.got = NoRecord
<1>1. NoRecord \in Purchases
  BY DEF NoRecord, Purchases, Txns
<1> QED
  BY <1>1 DEF RedeemIdle, Redeem

\* The search passes only where nobody else holds the transaction, and the
\* race with another is marked.
LEMMA RedeemFindsKeeps ==
  ASSUME BillingInv, NEW q \in Redeems, RedeemFinds(q)
  PROVE  BillingInv'
<1> DEFINE next == IF HoldersOf(redeems[q].got) \subseteq {redeems[q].user}
                     THEN [redeems[q] EXCEPT !.at = "upsert"] ELSE RedeemIdle
           txn == redeems[q].got.txn
<1>1. /\ redeems[q].at = "find" /\ redeems[q] \in Redeem /\ redeems[q].user \in Users
      /\ Backed(redeems[q].got)
  BY DEF RedeemFinds, BillingInv, BillingTypeOK, RecordsBacked
<1>2. /\ UNCHANGED <<now, store, events, held>>
      /\ raced' = IF \E p \in Redeems \ {q} : redeems[p].at = "upsert" /\ redeems[p].got.txn = txn
                    THEN raced \cup {txn} ELSE raced
  BY DEF RedeemFinds, NotesRace
<1>3. redeems' = [redeems EXCEPT ![q] = next]
  BY DEF RedeemFinds
<1>4. \/ /\ HoldersOf(redeems[q].got) \subseteq {redeems[q].user}
         /\ next \in Redeem /\ next.at = "upsert"
         /\ next.got = redeems[q].got /\ next.user = redeems[q].user
      \/ next = RedeemIdle
  BY <1>1 DEF Redeem
<1>5. txn \in Txns
  BY <1>1 DEF Backed, Txns
<1> HIDE DEF next, txn
<1>6. /\ next \in Redeem /\ next.got \in {redeems[q].got, NoRecord}
      /\ next.at \in {"idle", "upsert"} /\ (next.at # "idle" => next.got = redeems[q].got
                                              /\ next.user = redeems[q].user)
  BY <1>4, IdleRedeem
<1>7. /\ redeems' \in [Redeems -> Redeem]
      /\ \A p \in Redeems : redeems'[p] = IF p = q THEN next ELSE redeems[p]
  BY <1>3, <1>6 DEF BillingInv, BillingTypeOK
<1>8. raced \subseteq raced' /\ raced' \subseteq Txns
  BY <1>2, <1>5 DEF BillingInv, BillingTypeOK
<1>9. BillingTypeOK'
  BY <1>1, <1>2, <1>6, <1>7, <1>8 DEF BillingInv, BillingTypeOK, Backed
<1>10. RecordsBacked'
  BY <1>1, <1>2, <1>6, <1>7 DEF BillingInv, RecordsBacked, Backed
<1>11. StoreKeepsIds' /\ HeldOnce'
  BY <1>2, <1>8 DEF BillingInv, StoreKeepsIds, HeldOnce
<1>12. SearchHolds'
  <2>1. ASSUME next.at = "upsert"
        PROVE  HoldersOf(next.got) \subseteq {next.user}
    BY <1>4, <1>6, <2>1, IdleRedeem
  <2>2. SUFFICES ASSUME NEW p \in Redeems, redeems'[p].at = "upsert", redeems'[p].got.txn \notin raced'
                 PROVE  HoldersOf(redeems[p].got)' \subseteq {redeems'[p].user}
    BY DEF SearchHolds
  <2>3. CASE p = q
    BY <1>2, <1>7, <2>1, <2>2, <2>3 DEF HoldersOf
  <2>4. CASE p # q
    BY <1>2, <1>7, <1>8, <2>2, <2>4 DEF BillingInv, SearchHolds, HoldersOf
  <2> QED
    BY <2>3, <2>4
<1>13. RacesNoted'
  BY <1>2, <1>6, <1>7, <1>8 DEF BillingInv, RacesNoted, txn
<1> QED
  BY <1>9, <1>10, <1>11, <1>12, <1>13 DEF BillingInv

\* Who upserts a transaction that is not marked is its only holder.
LEMMA RedeemUpsertsKeeps ==
  ASSUME BillingInv, NEW q \in Redeems, RedeemUpserts(q)
  PROVE  BillingInv'
<1> DEFINE got == redeems[q].got
           user == redeems[q].user
<1>1. /\ redeems[q].at = "upsert" /\ got \in Purchases /\ user \in Users /\ Backed(got)
  BY DEF RedeemUpserts, BillingInv, BillingTypeOK, RecordsBacked, Redeem
<1>2. /\ UNCHANGED <<now, store, events, raced>>
      /\ held' = [held EXCEPT ![user] = got] /\ redeems' = [redeems EXCEPT ![q] = RedeemIdle]
  BY DEF RedeemUpserts
<1>3. /\ held' \in [Users -> Purchases] /\ redeems' \in [Redeems -> Redeem]
      /\ \A u \in Users : held'[u] = IF u = user THEN got ELSE held[u]
      /\ \A p \in Redeems : redeems'[p] = IF p = q THEN RedeemIdle ELSE redeems[p]
  BY <1>1, <1>2, IdleRedeem DEF BillingInv, BillingTypeOK
<1>4. BillingTypeOK'
  BY <1>1, <1>2, <1>3, IdleRedeem DEF BillingInv, BillingTypeOK, Backed
<1>5. RecordsBacked'
  BY <1>1, <1>2, <1>3, IdleRedeem DEF BillingInv, RecordsBacked, Backed
<1>6. StoreKeepsIds' /\ RacesNoted'
  BY <1>2, <1>3, IdleRedeem DEF BillingInv, StoreKeepsIds, RacesNoted
<1>7. SearchHolds'
  <2>1. SUFFICES ASSUME NEW p \in Redeems, redeems'[p].at = "upsert", redeems'[p].got.txn \notin raced',
                        NEW u \in HoldersOf(redeems[p].got)'
                 PROVE  u = redeems'[p].user
    BY DEF SearchHolds
  <2>2. p # q /\ redeems'[p] = redeems[p] /\ raced' = raced
    BY <1>2, <1>3, <2>1, IdleRedeem
  <2>3. got.txn # redeems[p].got.txn
    BY <1>1, <2>1, <2>2 DEF BillingInv, RacesNoted
  <2>4. u \in Users /\ held'[u].txn = redeems[p].got.txn /\ held'[u].provider = redeems[p].got.provider
    BY <2>1, <2>2 DEF HoldersOf
  <2>5. held'[u] = held[u]
    BY <1>3, <2>3, <2>4
  <2>6. u \in HoldersOf(redeems[p].got)
    BY <2>4, <2>5 DEF HoldersOf
  <2> QED
    BY <2>1, <2>2, <2>6 DEF BillingInv, SearchHolds
<1>8. HeldOnce'
  <2>1. ASSUME NEW v \in Users, v # user, held[v] # NoRecord, held[v].txn = got.txn
        PROVE  got.txn \in raced
    <3>1. held[v].provider = got.provider
      BY <1>1, <2>1 DEF BillingInv, RecordsBacked, Backed
    <3>2. v \in HoldersOf(got)
      BY <2>1, <3>1 DEF HoldersOf
    <3> QED
      BY <1>1, <2>1, <3>2 DEF BillingInv, SearchHolds
  <2>2. ASSUME NEW v \in Users, v # user, held[v].txn = got.txn
        PROVE  held[v] # NoRecord
    <3>1. got.txn # <<>>
      BY <1>1 DEF Backed
    <3> QED
      BY <2>2, <3>1 DEF NoRecord
  <2> QED
    BY <1>2, <1>3, <2>1, <2>2 DEF BillingInv, HeldOnce
<1> QED
  BY <1>4, <1>5, <1>6, <1>7, <1>8 DEF BillingInv

LEMMA BillingRestartKeeps ==
  ASSUME BillingInv, BillingRestart
  PROVE  BillingInv'
<1>1. /\ held' = [u \in Users |-> NoRecord] /\ redeems' = [q \in Redeems |-> RedeemIdle]
      /\ UNCHANGED <<now, store, events, raced>>
  BY DEF BillingRestart
<1>2. BillingTypeOK'
  BY <1>1, IdleRedeem DEF BillingInv, BillingTypeOK
<1>3. StoreKeepsIds' /\ RecordsBacked' /\ SearchHolds' /\ RacesNoted' /\ HeldOnce'
  BY <1>1, IdleRedeem DEF BillingInv, StoreKeepsIds, RecordsBacked, SearchHolds, RacesNoted, HeldOnce
<1> QED
  BY <1>2, <1>3 DEF BillingInv

------------------------------------------------------------------------------
(* Theorems *)

\* The inductive invariant holds in every state reached.
THEOREM BillingInvariant == SpecBilling => []BillingInv
<1>1. InitBilling => BillingInv
  <2>1. SUFFICES ASSUME InitBilling PROVE BillingInv
    OBVIOUS
  <2>2. BillingTypeOK
    BY <2>1, IdleRedeem, BillingAssumption DEF InitBilling, BillingTypeOK
  <2>3. StoreKeepsIds /\ RecordsBacked /\ SearchHolds /\ RacesNoted /\ HeldOnce
    BY <2>1, IdleRedeem, BillingAssumption
       DEF InitBilling, StoreKeepsIds, RecordsBacked, SearchHolds, RacesNoted, HeldOnce
  <2> QED
    BY <2>2, <2>3 DEF BillingInv
<1>2. BillingInv /\ [NextBilling]_billingVars => BillingInv'
  <2>1. SUFFICES ASSUME BillingInv, [NextBilling]_billingVars PROVE BillingInv'
    OBVIOUS
  <2>2. ASSUME UNCHANGED <<store, events, held, redeems, raced>>, now' \in Nat PROVE BillingInv'
    BY <2>1, <2>2 DEF BillingInv, BillingTypeOK, StoreKeepsIds, RecordsBacked, Backed,
         SearchHolds, HoldersOf, RacesNoted, HeldOnce
  <2>3. CASE UNCHANGED billingVars
    BY <2>1, <2>2, <2>3 DEF billingVars, BillingInv, BillingTypeOK
  <2>4. CASE BillingTick
    BY <2>1, <2>2, <2>4 DEF BillingTick, Tick, BillingInv, BillingTypeOK
  <2> QED
    BY <2>1, <2>3, <2>4, StoreStepsKeep, RedeemVerifiesKeeps, RedeemFindsKeeps,
       RedeemUpsertsKeeps, BillingRestartKeeps DEF NextBilling
<1> QED
  BY <1>1, <1>2, PTL DEF SpecBilling

\* Every record names a subscription and the store it was bought in
\* (receipt-verifier.ts, apple-verifier.ts, google-play-verifier.ts,
\* stripe-verifier.ts).
THEOREM BillingTypeCorrect == SpecBilling => []BillingTypeOK
<1>1. BillingInv => BillingTypeOK
  BY DEF BillingInv
<1> QED
  BY <1>1, BillingInvariant, PTL

\* One transaction, one account, but for the race of two redeems between
\* search and upsert (billing.service.ts:67-86).
THEOREM OneHolder == SpecBilling => []HeldOnce
<1>1. BillingInv => HeldOnce
  BY DEF BillingInv
<1> QED
  BY <1>1, BillingInvariant, PTL

\* What is granted is backed by a subscription in use, under its id and for
\* the time it is paid for (billing.service.ts:53-65 and the three verifiers).
THEOREM GrantsBacked == SpecBilling => GrantBacked
<1> DEFINE Asked == \A q \in Redeems : redeems[q].at = "idle" /\ redeems'[q].at = "find" =>
       LET got == redeems'[q].got IN
       \E s \in Subs :
         /\ InUse(s) /\ Catalog[s] = got.provider
         /\ got.txn = store[s].txn /\ got.expiresAt = store[s].expires
         /\ got.autoRenewing => Renews(s) \/ got.provider = "apple"
<1>1. BillingInv /\ [NextBilling]_billingVars => [Asked]_billingVars
  <2>1. SUFFICES ASSUME BillingInv, NextBilling, NEW q \in Redeems,
                        redeems[q].at = "idle", redeems'[q].at = "find"
                 PROVE  \E s \in Subs : Granted(redeems'[q].got, s)
    BY DEF Granted
  <2>2. PICK u \in Users, s \in Subs : RedeemVerifies(q, u, s)
    <3>1. redeems' # redeems
      BY <2>1
    <3>2. \A t \in Subs : StoreRenews(t) \/ StoreDeclines(t) \/ StoreCancels(t) \/ StoreLapses(t)
            => redeems' = redeems
      BY DEF StoreRenews, StoreDeclines, StoreCancels, StoreLapses, StoreChanges
    <3>3. ~BillingTick
      BY <3>1 DEF BillingTick
    <3>4. ~BillingRestart
      BY <2>1, IdleRedeem DEF BillingRestart
    <3>5. ASSUME NEW p \in Redeems, RedeemFinds(p) \/ RedeemUpserts(p) PROVE FALSE
      <4>1. redeems[p].at # "idle" /\ redeems \in [Redeems -> Redeem]
        BY <2>1, <3>5 DEF RedeemFinds, RedeemUpserts, BillingInv, BillingTypeOK
      <4>2. p # q => redeems'[q] = redeems[q]
        BY <3>5, <4>1 DEF RedeemFinds, RedeemUpserts
      <4> QED
        BY <2>1, <4>1, <4>2
    <3>6. ASSUME NEW p \in Redeems, NEW u \in Users, NEW s \in Subs, RedeemVerifies(p, u, s)
          PROVE  p = q
      <4>1. redeems \in [Redeems -> Redeem]
        BY <2>1 DEF BillingInv, BillingTypeOK
      <4> QED
        BY <2>1, <3>6, <4>1 DEF RedeemVerifies
    <3> QED
      BY <2>1, <3>1, <3>2, <3>3, <3>4, <3>5, <3>6 DEF NextBilling
  <2>3. PICK purchase \in Verify(s) :
          redeems' = [redeems EXCEPT ![q] = [at |-> "find", got |-> purchase, user |-> u]]
    BY <2>2 DEF RedeemVerifies
  <2>4. redeems'[q].got = purchase
    BY <2>1, <2>3 DEF BillingInv, BillingTypeOK
  <2> QED
    BY <2>1, <2>4, VerifyGrants
<1> HIDE DEF Asked
<1>2. SpecBilling => [][Asked]_billingVars
  BY <1>1, BillingInvariant, PTL DEF SpecBilling
<1> QED
  BY <1>2 DEF GrantBacked, Asked

\* Time only takes away (entitlement.ts:85-116).
LEMMA WorthFalls ==
  ASSUME NEW record \in Purchases, NEW t \in Nat, NEW u \in Nat, t <= u
  PROVE  Worth(ResolveEntitlement(record, u)) <= Worth(ResolveEntitlement(record, t))
<1>1. /\ record.expiresAt \in Nat /\ record.autoRenewing \in BOOLEAN /\ GRACE_PERIOD \in Nat
  BY EntitlementsAssumption DEF Purchases
<1>2. \A v \in {t, u} : Worth(ResolveEntitlement(record, v)) =
        IF record = NoRecord THEN 0
        ELSE IF v < record.expiresAt THEN 2
        ELSE IF record.autoRenewing /\ v < record.expiresAt + GRACE_PERIOD THEN 1
        ELSE 0
  BY DEF ResolveEntitlement, Worth, FREE_STATUS
<1> QED
  BY <1>1, <1>2

\* While a user redeems nothing the plan only runs out (entitlement.ts:85-116).
THEOREM PlansLapse == SpecBilling => PlanOnlyLapses
<1> DEFINE Lapse == \A u \in Users : held'[u] = held[u] => Worth(status(u)') <= Worth(status(u))
<1>1. BillingInv /\ [NextBilling]_billingVars => [Lapse]_billingVars
  <2>1. SUFFICES ASSUME BillingInv, NextBilling, NEW u \in Users, held'[u] = held[u]
                 PROVE  Worth(status(u)') <= Worth(status(u))
    OBVIOUS
  <2>2. held[u] \in Purchases /\ now \in Nat
    BY <2>1 DEF BillingInv, BillingTypeOK
  <2>3. now' \in Nat /\ now <= now'
    <3>1. now' = now \/ now' = now + 1
      BY <2>1 DEF NextBilling, StoreRenews, StoreDeclines, StoreCancels, StoreLapses, StoreChanges,
           RedeemVerifies, RedeemFinds, RedeemUpserts, BillingRestart, BillingTick, Tick
    <3> QED
      BY <2>2, <3>1
  <2>4. status(u) = ResolveEntitlement(held[u], now) /\ status(u)' = ResolveEntitlement(held'[u], now')
    BY DEF status
  <2> QED
    BY <2>1, <2>2, <2>3, <2>4, WorthFalls
<1> HIDE DEF Lapse
<1>2. SpecBilling => [][Lapse]_billingVars
  BY <1>1, BillingInvariant, PTL DEF SpecBilling
<1> QED
  BY <1>2 DEF PlanOnlyLapses, Lapse
=============================================================================
