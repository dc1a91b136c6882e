---------------------------- MODULE Entitlements ----------------------------
(***************************************************************************)
(* What a store's answer is taken for, and the plan it gives at a moment   *)
(* (modules/billing: the three verifiers and domain/entitlement.ts).       *)
(*                                                                         *)
(* A verifier is the set of the purchases it returns: one, or none when it *)
(* raises ReceiptRejectedError.  What an answer lacks is 0, or <<>> for an *)
(* id.  Instants are in one unit; Stripe's seconds and the dates of Google *)
(* denote the same instants.                                               *)
(***************************************************************************)
EXTENDS Naturals, Sequences

CONSTANT GRACE_PERIOD

ASSUME EntitlementsAssumption == GRACE_PERIOD \in Nat \ {0}

\* The places of S where e is greatest, the first of them.
Latest(S, e) == {i \in S : \A j \in S : e[j] < e[i] \/ (e[j] = e[i] /\ i <= j)}

------------------------------------------------------------------------------
(* The App Store: the last transactions of every group of the customer. *)

AppleActive == {1, 4}

\* Entries without a status, a signed payload or an expiry are passed over.
AppleReadable(ts) == {i \in DOMAIN ts : ts[i].status # 0 /\ ts[i].expires # 0}

ApplePurchase(entry) ==
  [provider |-> "apple", txn |-> entry.txn, product |-> entry.product,
   expiresAt |-> entry.expires, autoRenewing |-> TRUE]

\* A mutant: the newest period is granted if any period is active.
VerifyAppleAny(ts) ==
  LET readable == AppleReadable(ts)
      best == Latest(readable, [i \in DOMAIN ts |-> ts[i].expires])
  IN {ApplePurchase(ts[i]) : i \in {j \in best :
        /\ ts[j].product # 0 /\ ts[j].txn # <<>>
        /\ \E k \in readable : ts[k].status \in AppleActive}}

\* The one that ends last is chosen first; then its own status decides.
VerifyApple(ts) ==
  LET best == Latest(AppleReadable(ts), [i \in DOMAIN ts |-> ts[i].expires])
  IN {ApplePurchase(ts[i]) : i \in {j \in best :
        /\ ts[j].product # 0 /\ ts[j].txn # <<>>
        /\ ts[j].status \in AppleActive}}

------------------------------------------------------------------------------
(* Google Play: one subscription and its line items. *)

GoogleActive == {"ACTIVE", "IN_GRACE_PERIOD", "CANCELED"}

VerifyGoogle(answer, token) ==
  LET items == answer.lineItems
      dated == {i \in DOMAIN items : items[i].expires # 0}
      best == Latest(dated, [i \in DOMAIN items |-> items[i].expires])
  IN IF answer.state \notin GoogleActive THEN {}
     ELSE {[provider |-> "google",
            txn |-> IF answer.order = <<>> THEN token ELSE answer.order,
            product |-> items[i].product, expiresAt |-> items[i].expires,
            autoRenewing |-> items[i].auto]
             : i \in {j \in best : items[j].product # 0}}

------------------------------------------------------------------------------
(* Stripe: one subscription. *)

StripeActive == {"active", "trialing", "past_due"}

VerifyStripe(answer) ==
  IF /\ answer.status \in StripeActive
     /\ answer.id # <<>> /\ answer.periodEnd # 0 /\ answer.price # 0
  THEN {[provider |-> "stripe", txn |-> answer.id, product |-> answer.price,
         expiresAt |-> answer.periodEnd, autoRenewing |-> ~answer.cancelAtEnd]}
  ELSE {}

------------------------------------------------------------------------------
(* The plan *)

NoRecord == [provider |-> "none", txn |-> <<>>, product |-> 0,
             expiresAt |-> 0, autoRenewing |-> FALSE]

FREE_STATUS == [plan |-> "free", inGracePeriod |-> FALSE]

\* A mutant: the moment of expiry itself belongs to neither period.
ResolveEntitlementGap(record, t) ==
  IF record = NoRecord THEN FREE_STATUS
  ELSE IF t < record.expiresAt
    THEN [plan |-> "premium", inGracePeriod |-> FALSE]
  ELSE IF /\ record.autoRenewing /\ t > record.expiresAt
          /\ t < record.expiresAt + GRACE_PERIOD
    THEN [plan |-> "premium", inGracePeriod |-> TRUE]
  ELSE FREE_STATUS

ResolveEntitlement(record, t) ==
  IF record = NoRecord THEN FREE_STATUS
  ELSE IF t < record.expiresAt
    THEN [plan |-> "premium", inGracePeriod |-> FALSE]
  ELSE IF record.autoRenewing /\ t < record.expiresAt + GRACE_PERIOD
    THEN [plan |-> "premium", inGracePeriod |-> TRUE]
  ELSE FREE_STATUS

\* How much a status gives.
Worth(status) == IF status.plan = "free" THEN 0
                 ELSE IF status.inGracePeriod THEN 1 ELSE 2
=============================================================================
