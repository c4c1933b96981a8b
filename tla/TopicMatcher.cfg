CONSTANTS
    Char <- MCChar
    Filters <- MCFilters
    Topics <- MCTopics
    FilterStrings <- MCFilterStrings
    TopicStrings <- MCTopicStrings
    MaxFilter = 5
    MaxTopic = 4
SPECIFICATION Spec
INVARIANTS
    OnlyMatches
    NoRepeat
    SearchComplete
    AllItems
    FilterRoundTrip
    FilterMatchesSpec
