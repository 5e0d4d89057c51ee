CONSTANTS
    NONE = NONE
    Nodes = {1, 2, 3}
    Schedulable = {1, 2, 3}
    Groups = {0, 1, 2, 3}
    RootGroup = 0
    Placement <- PlacementP
    Learners = {}
    MayLack <- MayLackM
    MaxElect = 2
SPECIFICATION Spec
PROPERTY ShedLowersSpread BalanceSettles
