CONSTANTS
    Last = 1
    Values = {0, 1, 2}
    Spoilt = {word}
    word = word
    Missing = Missing
    Texts <- MCTexts
    Default = 0
    Wire <- MCWire
    Nobody = Nobody
    MaxBus = 1
SPECIFICATION FairSpec
INVARIANTS
    OtherFieldsKept
