------------------------------ MODULE MCPromise ------------------------------
(* Model values for the run of Promise.  The program has three promises, a, b, third; *)
(* l is all(third, b) and q is what thenPromise makes of a and then l.                *)
EXTENDS Promise, TLC
CONSTANTS
    t1, t2, a, b, third, l, q, v, w,
    userA, waitQ, allThird, allB, chainA, innerL

MCOn == userA :> a @@ allThird :> third @@ allB :> b @@ innerL :> l
        @@ chainA :> a @@ waitQ :> q
MCKind == userA :> "user" @@ waitQ :> "wait" @@ allThird :> "all" @@ allB :> "all"
          @@ chainA :> "chain" @@ innerL :> "move"
MCTarget == userA :> Nothing @@ waitQ :> Nothing @@ allThird :> l @@ allB :> l
            @@ chainA :> q @@ innerL :> q
MCInner == [k \in Callbacks |-> IF k = chainA THEN innerL ELSE Nothing]
=============================================================================
