------------------------------- MODULE MCLoadTest -------------------------------
(***************************************************************************)
(* Small instances of LoadTest: virtual users of either journey, a robot   *)
(* and a browser.                                                          *)
(***************************************************************************)
EXTENDS LoadTest, TLC

CONSTANTS
    vu, vu2, robot, browser,   \* clients
    u1, u2                     \* users

MCScript == [c \in VirtualUsers |-> CASE c = vu -> UserJourney
                                      [] c = vu2 -> UserJourney2
                                      [] c = robot -> RobotScenario]

AnyUser == Permutations({u1, u2})
=============================================================================
