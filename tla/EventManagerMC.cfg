CONSTANTS
    Data = {1, 2}
    Timeouts = {2, 3}
    NoTimeout = 9
    MaxIdle = 3
    MaxQueue = 2
    Lags = {0}
    OtherTriggers = {"LOCK"}
SPECIFICATION FairSpec
INVARIANTS
    TypeOK
    EnabledIffAllowed
    
    ResumeAlarmCovers
    NoAlarmLeaked
    
    NoResumeLost
    NoDoubleTimeout
    EnableOrderIrrelevant
PROPERTIES
    NotifierSpec
    ResumeDelivered
