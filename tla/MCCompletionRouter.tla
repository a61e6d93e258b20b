------------------------- MODULE MCCompletionRouter -------------------------
(***************************************************************************)
(* Small deployments of CompletionRouter for TLC.                          *)
(***************************************************************************)
EXTENDS CompletionRouter, TLC

CONSTANTS a1, a2, b1, b2,     \* tasks
          A, B, A1, A2,       \* questions
          r1, r2, r3,         \* replicas
          v1, v2,             \* receivers
          c1, c2              \* contracts

\* Two questions; three, of which one keeps two calls in the router.
TwoRootsOfThree == a1 :> A @@ a2 :> A @@ b1 :> B
ThreeRoots == a1 :> A1 @@ a2 :> A2 @@ b1 :> B @@ b2 :> B

\* Two replicas of contract c1, on two receivers; c2 shares the second one.
SharedReceiverOf == r1 :> v1 @@ r2 :> v2 @@ r3 :> v2
SharedContractOf == r1 :> c1 @@ r2 :> c1 @@ r3 :> c2
SharedSlowness   == r1 :> 1 @@ r2 :> 2 @@ r3 :> 0
SharedRequests   == {[contract |-> c1, allowed |-> {r1, r2, r3}],
                     [contract |-> c2, allowed |-> {r1, r2, r3}],
                     [contract |-> c1, allowed |-> {r2}]}
OneLaneEach      == v1 :> 1 @@ v2 :> 1

\* One replica: every call competes for its lanes.
SingleReceiverOf == r1 :> v1
SingleContractOf == r1 :> c1
SingleSlowness   == r1 :> 0
SingleRequests   == {[contract |-> c1, allowed |-> {r1}]}
OneLane          == v1 :> 1
=============================================================================
