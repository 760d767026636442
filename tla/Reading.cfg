CONSTANTS
    s1 = s1
    s2 = s2
    Sessions = {s1, s2}
    Names = {"ann"}
    Host <- MCHost
    NoName = ""
    AuthHosts = {s1}
    MaxSessionBytes = 0
    Pieces <- MCPieces
    NoSuchArticleRetries = 1
    Articles <- MCArticles
    ArticlesOf <- MCArticlesOf
    Commands <- MCCommands
    Quotas = {2}
    PasswdLines = 2
    Faults = {}
    TermPoints <- ServingOnly
SPECIFICATION FairSpec
INVARIANTS
    TypeOK
    EndOfArticleUnlessSplit
    BookedToOwner
    BookedOnce
PROPERTIES
    AllEnd
    QuotaBinds
CHECK_DEADLOCK FALSE
