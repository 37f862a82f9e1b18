------------------------------- MODULE Checkout -------------------------------
(***************************************************************************)
(* Opening a session with the billing provider: createCheckoutSession,      *)
(* createPortalSession and ensureBillingCustomer of lib/billing.js.  The    *)
(* provider's customer is looked up in billing_customers, made and saved    *)
(* in calls of their own, with nothing that makes a repetition safe; any of *)
(* them may fail, or take effect although its answer is lost.               *)
(***************************************************************************)
EXTENDS Naturals, FiniteSets

CONSTANTS
  Openings,          \* requests of the workspace's members
  Wants,             \* what a request opens: "checkout" or "portal"
  MaxCheckoutFaults  \* bound: lost answers and killed processes

ASSUME CheckoutAssumption ==
  /\ IsFiniteSet(Openings)
  /\ Wants \in [Openings -> {"checkout", "portal"}]
  /\ MaxCheckoutFaults \in Nat

VARIABLES
  customerRow,     \* the customer in billing_customers, 0 when there is no row
  customersMade,   \* customers the provider has made for the workspace, numbered
  openingPc,       \* where a request is
  customerOf,      \* the customer a request found or made, 0 before
  opened,          \* the customer its session was opened for, 0 when it was not
  crossed,      \* history: requests that looked while another one made a customer
  checkoutFaults   \* history: faults so far

checkoutVars ==
  <<customerRow, customersMade, openingPc, customerOf, opened, crossed, checkoutFaults>>

CheckoutInit ==
  /\ customerRow = 0 /\ customersMade = 0
  /\ openingPc = [o \in Openings |-> "idle"]
  /\ customerOf = [o \in Openings |-> 0]
  /\ opened = [o \in Openings |-> 0]
  /\ crossed = {} /\ checkoutFaults = 0

\* Requests that found no customer and have not saved theirs.
Makers == {o \in Openings : openingPc[o] \in {"making", "saving"}}

At(o, step) == openingPc[o] = step
Opening(o, step) == openingPc' = [openingPc EXCEPT ![o] = step]
CheckoutFault == checkoutFaults < MaxCheckoutFaults /\ checkoutFaults' = checkoutFaults + 1
NoCheckoutFault == UNCHANGED checkoutFaults

-------------------------------------------------------------------------------

\* requireBillingAdmin, and for a checkout planByCode and priceIdForPlan: reads only.
CheckRequest(o) ==
  /\ At(o, "idle")
  /\ Opening(o, "checked") \/ Opening(o, "ended")
  /\ UNCHANGED <<customerRow, customersMade, customerOf, opened, crossed, checkoutFaults>>

\* A lookup that never finds the row (under another provider, say).
NoExistingCustomer == 0

\* existingBillingCustomer.
ExistingCustomer == customerRow

\* A checkout makes the customer that is missing; a portal answers 404.
LookUpCustomer(o) ==
  /\ At(o, "checked")
  /\ IF ExistingCustomer # 0 THEN Opening(o, "ready")
     ELSE IF Wants[o] = "checkout" THEN Opening(o, "making")
     ELSE Opening(o, "ended")
  /\ customerOf' = [customerOf EXCEPT ![o] = ExistingCustomer]
  /\ crossed' = IF Makers = {} THEN crossed ELSE crossed \cup Makers \cup {o}
  /\ UNCHANGED <<customerRow, customersMade, opened, checkoutFaults>>

\* stripeRequest POST /customers: a customer more, with each call.
MakeCustomer(o) ==
  /\ At(o, "making")
  /\ \/ /\ customersMade' = customersMade + 1
        /\ \/ /\ Opening(o, "saving") /\ NoCheckoutFault
              /\ customerOf' = [customerOf EXCEPT ![o] = customersMade + 1]
           \/ Opening(o, "ended") /\ CheckoutFault /\ UNCHANGED customerOf
     \/ Opening(o, "ended") /\ NoCheckoutFault /\ UNCHANGED <<customersMade, customerOf>>
  /\ UNCHANGED <<customerRow, opened, crossed>>

\* The upsert on (org_id, provider): the last one to save is in the row.
SaveCustomer(o) ==
  /\ At(o, "saving")
  /\ \/ Opening(o, "ready") /\ NoCheckoutFault /\ customerRow' = customerOf[o]
     \/ Opening(o, "ended") /\ CheckoutFault /\ customerRow' \in {customerRow, customerOf[o]}
  /\ UNCHANGED <<customersMade, customerOf, opened, crossed>>

\* stripeRequest POST /checkout/sessions or /billing_portal/sessions.
OpenSession(o) ==
  /\ At(o, "ready") /\ Opening(o, "ended")
  /\ opened' \in {opened, [opened EXCEPT ![o] = customerOf[o]]}
  /\ UNCHANGED <<customerRow, customersMade, customerOf, crossed, checkoutFaults>>

OpeningDies(o) ==
  /\ openingPc[o] \notin {"idle", "ended"} /\ CheckoutFault
  /\ Opening(o, "ended")
  /\ UNCHANGED <<customerRow, customersMade, customerOf, opened, crossed>>

CheckoutNext ==
  \E o \in Openings :
    \/ CheckRequest(o) \/ LookUpCustomer(o) \/ MakeCustomer(o) \/ SaveCustomer(o)
    \/ OpenSession(o) \/ OpeningDies(o)

CheckoutSpec == CheckoutInit /\ [][CheckoutNext]_checkoutVars

-------------------------------------------------------------------------------
(* Properties *)

CheckoutTypeOK ==
  /\ customerRow \in Nat /\ customersMade \in Nat
  /\ openingPc \in [Openings -> {"idle", "checked", "making", "saving", "ready", "ended"}]
  /\ customerOf \in [Openings -> Nat] /\ opened \in [Openings -> Nat]
  /\ crossed \subseteq Openings
  /\ checkoutFaults \in 0..MaxCheckoutFaults

\* A session of a request that crossed no other is opened for the customer that the
\* workspace's row names, then and for good, whatever fails on the way: the portal
\* shows the subscriptions that checkouts bought (billing.js:164-190,221-240).
\* Two first checkouts at once each make a customer and each open a session for their
\* own, and the row keeps one of them.
OpenedForTheCustomer ==
  \A o \in Openings \ crossed : opened[o] # 0 => opened[o] = customerRow
===============================================================================
