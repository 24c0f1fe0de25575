\* Two admins, one of them a mentor, who may ban each other, with crashes.
SPECIFICATION FairSpec
CONSTANTS
    Admins = {a1, a2}
    Users = {a1, a2}
    Profiles = {a2}
    Reports = {r1}
    Handlers = {h1, h2}
    MaxAudit = 2
INVARIANTS
    BansAreRecorded
    BannedStayDisabled
    AuditExplainsProfile
    LoggedReportsAreClosed
PROPERTIES
    RequestsAreAnswered
