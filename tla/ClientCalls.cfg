SPECIFICATION FairSpec
CONSTANTS
    any = "any"
    writer = "writer"
    NoCall = NoCall
    NoValue = NoValue
    Calls <- MCCalls
    Arguments <- MCArguments
    Records <- MCRecords
    Strings <- MCStrings
    Values <- MCValues
    Documents = {"9007199254740993", "channel"}
    NewStruct <- MCNewStruct
    AccountsUser <- Alice
    Services <- MCServices
    Words <- MCWords
    Actions <- MCActions
    MaxPath = 2
    Malformed <- MCMalformed
    MaxMatchers = 1
    Lower <- MCLower
    NotSet = NotSet
    URLs <- MCURLs
INVARIANTS
    TypeOK AnswerFitsRequest ErrorsAreTrue NewTokenWhenNeeded
    StrategyIsGrant MethodsCanBeGranted MetadataIsOneNamespace RegistryIsConsistent
    OneInstanceIsCalled
PROPERTIES ImplementsAtMostOnce CallsEnd
CHECK_DEADLOCK FALSE
