------------------------------ MODULE MCLabeler ------------------------------
(***************************************************************************)
(* Two public IPv4 addresses, a private one, and an IPv6 address of each   *)
(* kind: an address is replaced, moves behind another, or goes for good.   *)
(***************************************************************************)
EXTENDS Labeler, TLC

CONSTANTS p1, p2, q, g6, u6, l6

MCKindOf ==
    (p1 :> "public4") @@ (p2 :> "public4") @@ (q :> "private4")
        @@ (g6 :> "global6") @@ (u6 :> "unique6") @@ (l6 :> "link6")

MCAddrLists ==
    {<<q, p1, l6, g6>>, <<q, p2, l6, g6>>, <<p2, p1, u6, g6>>, <<q, l6>>,
     <<u6>>, <<>>}

MCLimit ==
    ("address" :> 2) @@ ("route" :> 1) @@ ("write" :> 2) @@ ("fault" :> 2)
        @@ ("stop" :> 1)
=============================================================================
