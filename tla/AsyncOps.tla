------------------------------ MODULE AsyncOps ------------------------------
(***************************************************************************)
(* What class IoUring promises to the code on top of it: every operation   *)
(* that was started is answered by exactly one callback, in any order,     *)
(* until the service is closed; after that there are no callbacks.         *)
(***************************************************************************)
EXTENDS Integers

CONSTANT Req          (* the request objects                               *)

VARIABLES
  outstanding,        (* per request, operations started and not answered  *)
  open                (* whether callbacks still come                      *)

vars == <<outstanding, open>>

Init ==
  /\ outstanding \in [Req -> {0, 1}]
  /\ open = TRUE

(***************************************************************************)
(* One operation of r is answered.  Its callback may start operations, and *)
(* may close the service or fail to start them, which closes it as well.   *)
(* It starts an operation on the same request at most twice.               *)
(***************************************************************************)
Callback(r) ==
  /\ open
  /\ outstanding[r] > 0
  /\ \E started \in [Req -> 0 .. 2] :
       outstanding' = [q \in Req |-> IF q = r
                                     THEN outstanding[q] - 1 + started[q]
                                     ELSE outstanding[q] + started[q]]
  /\ open' \in BOOLEAN

(* The process gives up on an error.                                       *)
Close ==
  /\ open
  /\ open' = FALSE
  /\ UNCHANGED outstanding

Next == Close \/ \E r \in Req : Callback(r)

Spec == Init /\ [][Next]_vars
=============================================================================
