SPECIFICATION TorFairSpec
CONSTANT MaxLoads = 4
INVARIANTS PageShowsTor TorStopsWithApp
PROPERTY WaitEnds
