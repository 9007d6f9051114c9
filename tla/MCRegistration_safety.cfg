SPECIFICATION Spec
CONSTANTS
    p1 = p1
    p2 = p2
    User = User
    Friend = Friend
    Login = Login
    Register = Register
    GetFriends = GetFriends
    Providers <- MCProviders
    Services <- MCServices
    Methods <- MCMethods
    ServiceOf <- MCServiceOf
    Offers <- MCOffers
    NoPath = NoPath
    MaxSessions = 3
    MaxCrashes = 1
    MaxLosses = 1
INVARIANTS ParentThere SomeoneStays NoGhost ListedUntilExpiry
