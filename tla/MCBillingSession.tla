------------------------- MODULE MCBillingSession -------------------------
(***************************************************************************)
(* Small instances of BillingSession.                                      *)
(***************************************************************************)
EXTENDS BillingRefinement

CONSTANTS a1, a2, a3, o1, o2, n1, n2, body, otherBody

\* a1 and a2 are the same request sent twice; a3 is another operation that
\* competes for the same token.
RetriedOp == [a \in Attempt |-> IF a = a3 THEN o2 ELSE o1]

\* Three requests for one operation; a3 was sent with another body.
SharedOp == [a \in Attempt |-> o1]
SameBody == [a \in Attempt |-> body]
ChangedBody == [a \in Attempt |-> IF a = a3 THEN otherBody ELSE body]

OneNode == [a \in Attempt |-> n1]
TwoNodes == [a \in Attempt |-> IF a = a1 THEN n1 ELSE n2]

\* The retry's price may have changed meanwhile: it pre-consumes less.
Reserves == [a \in Attempt |-> IF a = a2 THEN 1 ELSE 2]

\* Cheaper than reserved, dearer than reserved, and free without tokens.
Costs == {[quota |-> 1, counted |-> TRUE], [quota |-> 4, counted |-> TRUE],
          [quota |-> 0, counted |-> FALSE]}
=============================================================================
