CONSTANT DisturbanceBound = 1
SPECIFICATION GatesSpec
INVARIANTS PassNamesOneCandidate FaultsWereRecovered NothingIsLeftOver
