SPECIFICATION Spec
CONSTANTS
    NRanks = 1
    MaxTags = 2
    AngMom = {0, 1}
    Origin = 0
PROPERTIES AngularMomenta
