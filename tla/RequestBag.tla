----------------------------- MODULE RequestBag -----------------------------
(***************************************************************************)
(* Bags of request objects.  A ring knows an operation only by the address *)
(* of its request (user_data), so a queue of a ring is a bag of requests:  *)
(* one that is prepared twice while in flight is counted twice.  The order *)
(* is dropped, because the kernel finishes operations in any order.        *)
(***************************************************************************)
EXTENDS Integers, FiniteSets, Functions

CONSTANT Req          (* the request objects                               *)

Bag == [Req -> Nat]

Empty == [r \in Req |-> 0]

With(bag, S) == [r \in Req |-> IF r \in S THEN bag[r] + 1 ELSE bag[r]]

Without(bag, r) == [bag EXCEPT ![r] = @ - 1]

Plus(b1, b2) == [r \in Req |-> b1[r] + b2[r]]

Minus(b1, b2) == [r \in Req |-> b1[r] - b2[r]]

Size(bag) == SumFunction(bag)

(* What can be taken from a bag when at most n entries are taken at once.  *)
Batches(bag, n) ==
  IF Size(bag) <= n
  THEN {bag}
  ELSE {b \in [Req -> 0 .. n] :
          /\ Size(b) = n
          /\ \A r \in Req : b[r] <= bag[r]}
=============================================================================
