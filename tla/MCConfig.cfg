SPECIFICATION Spec
PROPERTY RepositoryIsSafe
PROPERTY StoreIsDurable
PROPERTY ImportsKeepTheirMeaning
PROPERTY PublishedPathsAreRight
PROPERTY DiscoveryIsReversible
CHECK_DEADLOCK FALSE
