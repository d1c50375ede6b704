------------------------- MODULE MCActivityManager -------------------------
(***************************************************************************)
(* The values TLC gives to the constants of ActivityManager.               *)
(***************************************************************************)
EXTENDS ActivityManager

CONSTANTS brief, lasting, instant

\* lasting takes twice as long as brief; instant takes no time.
FiniteDuration ==
    [x \in Activities |-> CASE x = brief -> 1
                            [] x = lasting -> 2
                            [] x = instant -> 0]
\* lasting goes on until it is cancelled.
EndlessDuration == [FiniteDuration EXCEPT ![lasting] = INFINITY]
EveryMs == [x \in Activities |-> 1]
NoPairs == {}
Later == {<<lasting, 2>>}
InstantAfterBrief == {<<brief, instant, once>> : once \in BOOLEAN}
=============================================================================
