SPECIFICATION FairSpec
CONSTANTS
    good = good  other = other  static = static  elsewhere = elsewhere
    keyword = keyword  misfit = misfit  overflow = overflow  noise = noise
    NoContent = NoContent  Null = Null
    Answers = {good, other, static, elsewhere, keyword, misfit, overflow, noise}
    Proposals <- MCProposals
    TargetsOf <- MCTargetsOf
    PathsOf <- MCPathsOf
    BlockedAnswers = {keyword}
    SchemaTargets <- MCSchemaTargets
    StaticTargets = {"unit"}
    PayloadPaths = {"payload.model", "payload.time"}
    MaxAttempts = 3
    Result <- MCResult
    RequestTime = 1
    KafkaTime = 1
    MaxPollInterval = 8
    MaxFaults = 2
INVARIANTS PollsInTime SavedWasReviewed RequestsAreScreened EveryRejectionIsTold AttemptsInv
PROPERTIES ContractSpec RecordCommitted
