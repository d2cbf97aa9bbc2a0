SPECIFICATION RequestFairSpec
CONSTANTS
    omitted = omitted
    on = on
    bare = bare
    NoInstance = NoInstance
    own = own
    first = first
    second = second
    pairing = pairing
    admin = admin
    greet = greet
    list = list
    Calls = {c1, c2}
    Slices = {omitted, on, bare}
    Deliveries <- Arrays
    Env = Env
    None = None
    PollingBlock <- BlockOf
    EnvIsValid = TRUE
    MaxConfigures = 1
    Topics = {pairing, admin}
    Requests = {greet, list}
    TopicOf <- Topic
    Form <- Forms
    AccountOf <- Accounts
    InstanceOf <- NamedInstances
    MaxAttempts <- Tries
    Stuck = {admin}
INVARIANTS
    ReadyMeansRunning
    UnheardSendsHaveACause
    CredentialsMatchTheBot
    AnswersInOrder
PROPERTIES
    EveryCallIsAnswered
    EveryRequestIsAnswered
CHECK_DEADLOCK FALSE
