SPECIFICATION FairSpec
CONSTANTS
    Slaves <- TwoSlaves
    Before = 1
    Map <- ThreeEntries
    MaxWords = 4
    MaxBehind = 1
    MaxTroubles = 2
    MaxWrites = 1
INVARIANTS TypeOK  WriteTruth
PROPERTIES PlacesHeal
