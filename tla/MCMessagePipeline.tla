-------------------------- MODULE MCMessagePipeline --------------------------
(* Small instances of MessagePipeline: one message of one author, edited    *)
(* once or twice.                                                           *)
EXTENDS MessagePipeline, TLC

CONSTANTS m1, r1, e1, e2, c1, u1

OneMsgOf == (r1 :> m1) @@ (e1 :> m1)
TwoEditsMsgOf == (r1 :> m1) @@ (e1 :> m1) @@ (e2 :> m1)
OneFirstRun == m1 :> r1
OneChannelOf == m1 :> c1
OneAuthorOf == m1 :> u1

EditSymmetry == Permutations({e1, e2})
=============================================================================
