SPECIFICATION Spec
CONSTANTS
    Tasks <- MCTasks
    Info <- MCInfo
    Nodes = {"h", "e"}
    NodeInfo <- MCNodeInfo
    Groups = {"controlplane", "default", "exec", "pods"}
    GroupInfo <- MCGroupInfo
    ControlPlane = "controlplane"
    ControlImpact = 1
    OnLaunch <- MCOnLaunch
    Launchable = {"plain", "beside", "flow"}
    MaxLaunched = 2
    Cancelable = {"p1", "s1", "flow"}
    StartLimit = 2
    None = "none"
    MaxFaults = 1
INVARIANT TypeOK
INVARIANT CapacityKept
INVARIANT OneUpdateAtATime
PROPERTY KeepsTheRules
PROPERTY EveryTaskEnds
