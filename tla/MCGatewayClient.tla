--------------------------- MODULE MCGatewayClient ---------------------------
EXTENDS GatewayClient, TLC

CONSTANTS t1, t2, t3, s1, s2, e1, e2

\* Two tasks of one conversation and one of another.
TwoSessions == t1 :> s1 @@ t2 :> s1 @@ t3 :> s2

\* The second call is for the task of the first, for another task of its
\* conversation, or for one of another conversation.
AnySecond == e1 :> {t1} @@ e2 :> Tasks
=============================================================================
