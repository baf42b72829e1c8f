SPECIFICATION ReviewSpec
CONSTANTS
    Threads = {t1, t2}
    MaxSessions = 3
    MaxAudit = 6
    Drafts <- MCDrafts
    MaxDecisions = 1
SYMMETRY ThreadSymmetry
INVARIANTS
    TypeOK
    StatusAudited
    RecommendationsAudited
PROPERTIES
    NeverResumes
    ApprovalsFollowReviews
