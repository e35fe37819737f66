------------------------------ MODULE MCTabCustody ------------------------------
(* Instances of TabCustody for TLC.                                        *)
EXTENDS TabCustody, TLC

CONSTANTS p1, p2, o1, o2, c, d

\* two processes ask for one conversation
TwoProcs == {p1, p2}
TwoOps == {o1, o2}
OneEach == o1 :> p1 @@ o2 :> p2
SameConversation == [o \in TwoOps |-> c]

\* one process starts a conversation and continues another
OnOne == [o \in TwoOps |-> p1]
TwoConversations == o1 :> c @@ o2 :> d
=============================================================================
