SPECIFICATION Spec
CONSTANTS
    MaxEpoch = 2
    MaxIncarnation = 2
    MaxSequence = 3
    Contents = {c1, c2}
    MaxRetained = 2
SYMMETRY Symmetry
INVARIANT WindowOrdered
INVARIANT NewestIsUnique
PROPERTY NewestNeverRegresses
PROPERTY LiveOutlastsRecovered
