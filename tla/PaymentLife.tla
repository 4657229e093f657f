---------------------------- MODULE PaymentLife ----------------------------
(***************************************************************************)
(* What the payment service promises of an order that is attempted once:   *)
(* the provider accepts it, by an authorization of its amount, or does     *)
(* not; what was accepted, and only that, is credited, once and together   *)
(* with the artist's earning; what was credited can only be given back.    *)
(* Whether the money is accepted after the authorization is not part of    *)
(* the promise.  Payments.tla implements this specification.               *)
(***************************************************************************)
CONSTANT Orders

VARIABLES
  stage,     \* of each order: none, open, closed, credited or returned
  accepted,  \* the orders whose amount the provider authorized
  owed       \* the orders the artist has an earning for

life == <<stage, accepted, owed>>

At(st) == {o \in Orders : stage[o] = st}

Init ==
  /\ stage = [o \in Orders |-> "none"]
  /\ accepted = {} /\ owed = {}

Open(o) ==
  /\ o \in At("none")
  /\ stage' = [stage EXCEPT ![o] = "open"]
  /\ UNCHANGED <<accepted, owed>>

Accept(o) ==
  /\ o \in At("open") \ accepted
  /\ accepted' = accepted \cup {o}
  /\ UNCHANGED <<stage, owed>>

\* Some orders are credited and some are closed, all in one step.
Decide(credits, closes) ==
  /\ credits \subseteq At("open") \cap accepted
  /\ closes \subseteq At("open") \ accepted
  /\ stage' = [o \in Orders |-> IF o \in credits THEN "credited"
                                ELSE IF o \in closes THEN "closed" ELSE stage[o]]
  /\ owed' = owed \cup credits
  /\ UNCHANGED accepted

Return(o) ==
  /\ o \in At("credited")
  /\ stage' = [stage EXCEPT ![o] = "returned"]
  /\ UNCHANGED <<accepted, owed>>

Next ==
  \/ \E o \in Orders : Open(o) \/ Accept(o) \/ Return(o)
  \/ \E credits, closes \in SUBSET Orders : Decide(credits, closes)

Spec == Init /\ [][Next]_life
=============================================================================
