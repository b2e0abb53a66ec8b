SPECIFICATION AnsweredSpec
CONSTANTS
    Uploads = {u1, u2, u3}
    MaxLoads = 3
INVARIANTS
    TypeOK
    BusyCountsRunningUploads
    SentMeansStored
    CompleteIsFinal
    PickerStaysUsable
    RestOffersDone
    EnabledMeansPaired
    PairingSurvivesReload
PROPERTIES
    EveryUploadEnds
    PairingEnds
    ImplementsTransfer
