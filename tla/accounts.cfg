CONSTANTS
    Parts = {"otp", "mpin", "sessions", "limits", "views", "push"}
    OtpCalls = {c1, c2}
    WrongLimit = 2
    MaxCodes = 2
    MaxWrong = 3
    NoOtp = noOtp
    MpinCalls = {c1, c2}
    MpinLimit = 2
    MaxGuesses = 4
    SessionIds = {s1}
    Processes = {p1, p2}
    GuardCalls = {c1, c2}
    IdleWindow = 3
    TokenLife = 5
    Limit = 2
    Span = 2
    LimitCalls = {c1, c2}
    MaxMembers = 4
    MaxErrors = 1
    Servers = {p1, p2}
    Writers = {w1, w2}
    MaxVersion = 2
    Watch <- MCWatch
    Absent = absent
    Accounts = {a1}
    Tokens = {k1, k2}
    ExpoTokens = {k1}
    Devices = {d1}
    PushCalls = {c1, c2}
    Sends = {m1}
    NoDevice = noDevice
    NoToken = noToken
SPECIFICATION Spec
INVARIANTS
    TypeOK
    LockIsEarned
    NewestCodeOnly
    FiveWrongMpinsLock
    InactivityEndsSession
    LimitHolds
    FreshViews
    OneTokenPerDevice
PROPERTIES LogoutIsFinal
CHECK_DEADLOCK FALSE
