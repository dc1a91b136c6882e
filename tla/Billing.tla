------------------------------- MODULE Billing -------------------------------
(***************************************************************************)
(* Redeeming purchases (modules/billing/billing.service.ts) on one replica *)
(* of the server, whose entitlements are a map in its memory.              *)
(*                                                                         *)
(* A redeem is three calls with awaits between them: verify with the       *)
(* store, look for another holder of the transaction, upsert by user.      *)
(* Redeems run beside each other, and the stores change meanwhile.  The    *)
(* answer of a redeem is what status gives after it.                       *)
(*                                                                         *)
(* The stores are external: a subscription renews, under the same or a new *)
(* transaction id, is cancelled, or lapses (refund, failed payment).  A    *)
(* customer's App Store answer lists all the App Store subscriptions.      *)
(***************************************************************************)
EXTENDS ServerClock, Entitlements

CONSTANTS
  Users,
  Redeems,        \* the redeem requests at work at one time
  Catalog,        \* the subscriptions bought, as the sequence of their stores
  Configured,     \* the stores the deployment has credentials for
  Period,         \* the length of one paid period
  MaxEvents,      \* bound: changes in the stores
  BillingEnd      \* bound: the last moment looked at

ASSUME BillingAssumption ==
  /\ Catalog \in Seq({"apple", "google", "stripe"})
  /\ Period \in Nat \ {0} /\ MaxEvents \in Nat /\ BillingEnd \in Nat

VARIABLES
  store,          \* external: the subscriptions
  events,         \* how often the stores changed
  held,           \* byUser: the record of each account
  redeems,        \* what each redeem is at
  raced           \* history: transactions looked for by two redeems at once

billingVars == <<now, store, events, held, redeems, raced>>

Subs == DOMAIN Catalog

\* A transaction id: the subscription and how often its id changed.
Txns == {<<>>} \cup (Subs \X (0..MaxEvents))

Purchases == [provider : {"none", "apple", "google", "stripe"}, txn : Txns,
              product : Nat, expiresAt : Nat, autoRenewing : BOOLEAN]

Redeem == [at : {"idle", "find", "upsert"}, got : Purchases, user : Users \cup {"nobody"}]

RedeemIdle == [at |-> "idle", got |-> NoRecord, user |-> "nobody"]

\* A record names a subscription and the store it was bought in.
BillingTypeOK ==
  /\ now \in Nat
  /\ store \in [Subs -> [state : {"active", "grace", "canceled", "lapsed"},
                         txn : Subs \X (0..MaxEvents), expires : Nat]]
  /\ events \in 0..MaxEvents
  /\ held \in [Users -> Purchases]
  /\ redeems \in [Redeems -> Redeem]
  /\ \A q \in Redeems : redeems[q].at # "idle" => redeems[q].user \in Users
  /\ raced \in SUBSET Txns
  /\ \A record \in {held[u] : u \in Users} \cup {redeems[q].got : q \in Redeems} :
       record # NoRecord => /\ record.product \in Subs
                            /\ record.provider = Catalog[record.product]
                            /\ record.provider \in Configured

InitBilling ==
  /\ now = 0
  /\ store = [s \in Subs |-> [state |-> "active", txn |-> <<s, 0>>, expires |-> Period]]
  /\ events = 0
  /\ held = [u \in Users |-> NoRecord]
  /\ redeems = [q \in Redeems |-> RedeemIdle]
  /\ raced = {}

------------------------------------------------------------------------------
(* The stores (external) *)

InUse(s) == store[s].state # "lapsed"

Renews(s) == store[s].state \in {"active", "grace"}

StoreChanges(s, row) ==
  /\ events < MaxEvents /\ events' = events + 1
  /\ store' = [store EXCEPT ![s] = row]
  /\ UNCHANGED <<now, held, redeems, raced>>

\* Google and Apple number the periods of a subscription, Stripe does not.
StoreRenews(s) ==
  /\ Renews(s)
  /\ \E k \in {store[s].txn[2], store[s].txn[2] + 1} :
       /\ Catalog[s] = "stripe" => k = store[s].txn[2]
       /\ StoreChanges(s, [state |-> "active", txn |-> <<s, k>>,
                           expires |-> store[s].expires + Period])

StoreDeclines(s) ==
  store[s].state = "active" /\ StoreChanges(s, [store[s] EXCEPT !.state = "grace"])

StoreCancels(s) == Renews(s) /\ StoreChanges(s, [store[s] EXCEPT !.state = "canceled"])

StoreLapses(s) == InUse(s) /\ StoreChanges(s, [store[s] EXCEPT !.state = "lapsed"])

AppleStatus(s) == CASE store[s].state = "grace" -> 4
                    [] store[s].state = "lapsed" -> 2
                    [] OTHER -> 1

\* Subscriptions of other stores are the entries Apple's answer lacks.
AppleAnswer ==
  [s \in Subs |-> [status |-> IF Catalog[s] = "apple" THEN AppleStatus(s) ELSE 0,
                   txn |-> store[s].txn, product |-> s, expires |-> store[s].expires]]

\* The period bought first is an item of its own.
GoogleAnswer(s) ==
  [state |-> CASE store[s].state = "active" -> "ACTIVE"
               [] store[s].state = "grace" -> "IN_GRACE_PERIOD"
               [] store[s].state = "canceled" -> "CANCELED"
               [] OTHER -> "EXPIRED",
   order |-> store[s].txn,
   lineItems |-> <<[product |-> s, expires |-> Period, auto |-> Renews(s)],
                   [product |-> s, expires |-> store[s].expires, auto |-> Renews(s)]>>]

StripeAnswer(s) ==
  [status |-> CASE store[s].state = "grace" -> "past_due"
                [] store[s].state = "lapsed" -> "unpaid"
                [] OTHER -> "active",
   id |-> store[s].txn, price |-> s, periodEnd |-> store[s].expires,
   cancelAtEnd |-> store[s].state = "canceled"]

------------------------------------------------------------------------------
(* redeem *)

\* A mutant: one verifier registered for two stores.
VerifyMixed(s) ==
  IF Catalog[s] \notin Configured THEN {}
  ELSE CASE Catalog[s] = "apple" -> VerifyApple(AppleAnswer)
         [] OTHER -> VerifyGoogle(GoogleAnswer(s), <<s, 0>>)

\* selectVerifier, then the verifier's reading of what the store answers.
Verify(s) ==
  IF Catalog[s] \notin Configured THEN {}
  ELSE CASE Catalog[s] = "apple" -> VerifyApple(AppleAnswer)
         [] Catalog[s] = "google" -> VerifyGoogle(GoogleAnswer(s), <<s, 0>>)
         [] OTHER -> VerifyStripe(StripeAnswer(s))

\* A receipt the store does not stand behind is refused (422).
RedeemVerifies(q, u, s) ==
  /\ redeems[q].at = "idle"
  /\ \E purchase \in Verify(s) :
       redeems' = [redeems EXCEPT ![q] = [at |-> "find", got |-> purchase, user |-> u]]
  /\ UNCHANGED <<now, store, events, held, raced>>

\* findByTransaction
HoldersOf(purchase) ==
  {u \in Users : held[u].provider = purchase.provider /\ held[u].txn = purchase.txn}

\* The search may go on to an upsert beside another of the same transaction.
NotesRace(q) ==
  LET txn == redeems[q].got.txn IN
  raced' = IF \E p \in Redeems \ {q} : redeems[p].at = "upsert" /\ redeems[p].got.txn = txn
             THEN raced \cup {txn} ELSE raced

\* A mutant: the holder is not compared with the caller.
RedeemFindsAny(q) ==
  /\ redeems[q].at = "find"
  /\ redeems' = [redeems EXCEPT ![q].at = "upsert"]
  /\ NotesRace(q)
  /\ UNCHANGED <<now, store, events, held>>

\* Another account's transaction is refused (409).
RedeemFinds(q) ==
  /\ redeems[q].at = "find"
  /\ redeems' = [redeems EXCEPT ![q] =
       IF HoldersOf(redeems[q].got) \subseteq {redeems[q].user}
         THEN [redeems[q] EXCEPT !.at = "upsert"] ELSE RedeemIdle]
  /\ NotesRace(q)
  /\ UNCHANGED <<now, store, events, held>>

\* The user's record is replaced, whatever it was.
RedeemUpserts(q) ==
  /\ redeems[q].at = "upsert"
  /\ held' = [held EXCEPT ![redeems[q].user] = redeems[q].got]
  /\ redeems' = [redeems EXCEPT ![q] = RedeemIdle]
  /\ UNCHANGED <<now, store, events, raced>>

status(u) == ResolveEntitlement(held[u], now)

BillingRestart ==
  /\ held' = [u \in Users |-> NoRecord]
  /\ redeems' = [q \in Redeems |-> RedeemIdle]
  /\ UNCHANGED <<now, store, events, raced>>

BillingTick == Tick(BillingEnd) /\ UNCHANGED <<store, events, held, redeems, raced>>

NextBilling ==
  \/ \E s \in Subs : StoreRenews(s) \/ StoreDeclines(s) \/ StoreCancels(s) \/ StoreLapses(s)
  \/ \E q \in Redeems :
       \/ \E u \in Users, s \in Subs : RedeemVerifies(q, u, s)
       \/ RedeemFinds(q) \/ RedeemUpserts(q)
  \/ BillingRestart \/ BillingTick

SpecBilling == InitBilling /\ [][NextBilling]_billingVars

------------------------------------------------------------------------------
(* Properties *)

\* "One transaction, one account" (billing.service.ts:9), as far as it goes:
\* two accounts hold one transaction only if two redeems of it were both
\* between the search for a holder and the upsert.
HeldOnce ==
  \A u, v \in Users :
    u # v /\ held[u] # NoRecord /\ held[u].txn = held[v].txn => held[u].txn \in raced

\* An answer of a store becomes an entitlement only on behalf of a
\* subscription that is in use at that moment, under its id and for the time
\* it is paid for; and the grace window is for one that renews, except with
\* the App Store, whose answers are taken as renewing whatever they say
\* (apple-verifier.ts:118-120, entitlement.ts:103-106).
GrantBacked ==
  [][\A q \in Redeems : redeems[q].at = "idle" /\ redeems'[q].at = "find" =>
       LET got == redeems'[q].got IN
       \E s \in Subs :
         /\ InUse(s) /\ Catalog[s] = got.provider
         /\ got.txn = store[s].txn /\ got.expiresAt = store[s].expires
         /\ got.autoRenewing => Renews(s) \/ got.provider = "apple"]_billingVars

\* While a user redeems nothing the plan only runs out: premium, then the
\* grace window, then free, with no gap and no way back
\* (entitlement.ts:85-116).
PlanOnlyLapses ==
  [][\A u \in Users : held'[u] = held[u] => Worth(status(u)') <= Worth(status(u))]_billingVars
=============================================================================
