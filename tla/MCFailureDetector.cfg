\* One node, the heartbeat loop and an administrator's check.
CONSTANTS
    n1 = n1  loop = loop  admin = admin
    Nodes = {n1}
    Checkers = {loop, admin}
    Loop = loop
    SuspectAfter = 2
    DeadAfter = 5
    MaxJoins = 3

SPECIFICATION FairSpec
INVARIANTS StatusMatchesMisses
PROPERTIES OwnPings DownNodesDead UpNodesHealthy
CHECK_DEADLOCK FALSE
