SPECIFICATION EdgesSpec
CONSTANTS
    None = None
    m1 = m1
    m2 = m2
    c1 = c1
    i1 = i1
    i2 = i2
    i3 = i3
    e1 = e1
    e2 = e2
    e3 = e3
    ProfileLists <- MCProfileLists
    Mails = {m1, m2}
    Chats = {c1}
    SeenBy <- MCSeenBy
    Body <- MCBody
    Subject <- MCSubject
    PageSize = 1
    MaxRuns = 2
    MaxTurns = 1
    IMs = {i1, i2, i3}
    Handle <- MCHandle
    Contact <- MCContact
    IMText <- MCIMText
    Own = {i3}
    NullText = {}
    Skews <- MCSkews
    Recent = 2
    MaxIMTime = 3
    Envelopes = {e1, e2, e3}
    Unparsed = {e3}
    Sync = {}
    SigText <- MCSigText
    SigSkews <- MCSigSkews
    MaxDeliveries = 2
    MaxSigTime = 2
    d1 = d1
    a1 = a1
    Phones = {d1}
    Asks = {a1}
    MaxSubs = 2
    p1 = p1
    p2 = p2
    p3 = p3
    NoPid = NoPid
    Pids = {p1, p2, p3}
INVARIANTS
    BannerIsReplaced
    PidfileNamesDaemon
    AnsweredInOneRun
    LostForAReason
    AsksAreDue
    TakenIsJudgedOnce
PROPERTIES
    ForgottenOnlyWhenGone
CHECK_DEADLOCK FALSE
