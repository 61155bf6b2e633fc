------------------------------ MODULE GiftCard ------------------------------
(***************************************************************************)
(* Gift cards: issued by an administrator, or by a user who pays for them  *)
(* with his balance; redeemed by another user, revoked by their issuer,    *)
(* disabled, enabled and deleted by administrators.  Every operation is one*)
(* transaction under the lock of the card, and of the balance it changes.  *)
(***************************************************************************)
EXTENDS Naturals, FiniteSetsExt

CONSTANTS Card, User, Admin,
          Worth,        \* of a card, as balance
          Deposit       \* what each user has at first

GiftCardConstants ==
    /\ IsFiniteSet(Card) /\ IsFiniteSet(User)
    /\ Admin \notin User
    /\ Worth \in Nat \ {0}
    /\ Deposit \in Nat

VARIABLES
    status,     \* none, active, used, disabled, expired or deleted
    issuer,     \* who created the card; a user is its owner too
    dated,      \* it has a date of expiry, and whether that has passed
    passed,
    refunded,   \* there is a refund with the number of the card
    balance

vars == <<status, issuer, dated, passed, refunded, balance>>

Init ==
    /\ status = [c \in Card |-> "none"]
    /\ issuer = [c \in Card |-> Admin]
    /\ dated = [c \in Card |-> FALSE]
    /\ passed = [c \in Card |-> FALSE]
    /\ refunded = [c \in Card |-> FALSE]
    /\ balance = [u \in User |-> Deposit]

Set(c, s) == status' = [status EXCEPT ![c] = s]
Owned(c) == issuer[c] \in User

(* createGiftCard, one card of createGiftCardBatch.                        *)
Issue(c, withDate) ==
    /\ status[c] = "none"
    /\ Set(c, "active")
    /\ dated' = [dated EXCEPT ![c] = withDate]
    /\ UNCHANGED <<issuer, passed, refunded, balance>>

(* generateGiftCardFromBalance: such a card never expires.                 *)
Generate(c, u) ==
    /\ status[c] = "none"
    /\ balance[u] >= Worth
    /\ Set(c, "active")
    /\ issuer' = [issuer EXCEPT ![c] = u]
    /\ balance' = [balance EXCEPT ![u] = @ - Worth]
    /\ UNCHANGED <<dated, passed, refunded>>

DatePasses(c) ==
    /\ dated[c]
    /\ ~passed[c]
    /\ passed' = [passed EXCEPT ![c] = TRUE]
    /\ UNCHANGED <<status, issuer, dated, refunded, balance>>

(* Mutation: revoked and disabled cards can be redeemed.                   *)
Redeemable_Disabled(c) == status[c] \in {"active", "disabled"}

Redeemable(c) == status[c] = "active"

(* redeemGiftCard: not by its owner.  One that has expired is marked.      *)
Redeem(c, u) ==
    /\ Redeemable(c)
    /\ issuer[c] # u
    /\ IF passed[c]
       THEN Set(c, "expired") /\ UNCHANGED balance
       ELSE Set(c, "used") /\ balance' = [balance EXCEPT ![u] = @ + Worth]
    /\ UNCHANGED <<issuer, dated, passed, refunded>>

(* refundUserFundedGiftCard: once for each card, to a user who paid.       *)
Refund(c) ==
    IF Owned(c) /\ ~refunded[c]
    THEN /\ balance' = [balance EXCEPT ![issuer[c]] = @ + Worth]
         /\ refunded' = [refunded EXCEPT ![c] = TRUE]
    ELSE UNCHANGED <<balance, refunded>>

Revoke(c) ==
    /\ Owned(c)
    /\ status[c] \in {"active", "disabled", "expired"}
    /\ Refund(c)
    /\ Set(c, "disabled")
    /\ UNCHANGED <<issuer, dated, passed>>

Disable(c) ==
    /\ status[c] = "active"
    /\ Refund(c)
    /\ Set(c, "disabled")
    /\ UNCHANGED <<issuer, dated, passed>>

(* Mutation: a card of a user can be enabled, too.                         *)
Enableable_Owned(c) == status[c] = "disabled"

Enableable(c) == status[c] = "disabled" /\ ~Owned(c) /\ ~passed[c]

Enable(c) ==
    /\ Enableable(c)
    /\ Set(c, "active")
    /\ UNCHANGED <<issuer, dated, passed, refunded, balance>>

Delete(c) ==
    /\ status[c] \in {"active", "disabled", "expired"}
    /\ Refund(c)
    /\ Set(c, "deleted")
    /\ UNCHANGED <<issuer, dated, passed>>

Next ==
    \E c \in Card :
        \/ \E withDate \in BOOLEAN : Issue(c, withDate)
        \/ \E u \in User : Generate(c, u) \/ Redeem(c, u)
        \/ DatePasses(c)
        \/ Revoke(c) \/ Disable(c) \/ Enable(c) \/ Delete(c)

Spec == Init /\ [][Next]_vars

----------------------------------------------------------------------------
(* Properties                                                              *)

Statuses == {"none", "active", "used", "disabled", "expired", "deleted"}

TypeOK ==
    /\ status \in [Card -> Statuses]
    /\ issuer \in [Card -> User \cup {Admin}]
    /\ dated \in [Card -> BOOLEAN]
    /\ passed \in [Card -> BOOLEAN]
    /\ refunded \in [Card -> BOOLEAN]
    /\ balance \in [User -> Nat]

(* A card that was paid back is never redeemed, in whatever order its      *)
(* issuer revokes it and administrators disable, enable and delete it.     *)
RefundedIsDead ==
    \A c \in Card : refunded[c] => status[c] \in {"disabled", "deleted"}

(* Money is neither made nor lost: what the users have, with the cards     *)
(* they paid for that are neither redeemed nor paid back, is what they had *)
(* at first and what cards of administrators brought.                      *)
Total == MapThenSumSet(LAMBDA u : balance[u], User)
Live == {c \in Card : Owned(c) /\ status[c] \in {"active", "expired"}}
Gifts == {c \in Card : ~Owned(c) /\ status[c] = "used"}

MoneyIsKept ==
    Total + Worth * Cardinality(Live) =
        Deposit * Cardinality(User) + Worth * Cardinality(Gifts)
=============================================================================
