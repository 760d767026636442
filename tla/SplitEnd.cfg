CONSTANTS
    s1 = s1
    s2 = s2
    Sessions = {s1, s2}
    Names = {"ann"}
    Host <- MCHost
    NoName = ""
    AuthHosts = {s1}
    MaxSessionBytes = 0
    Pieces <- MCPieces
    NoSuchArticleRetries = 1
    Articles <- MCArticles
    ArticlesOf <- MCArticlesOf
    Commands <- MCCommands
    Quotas = {2}
    PasswdLines = 2
    Faults = {}
    TermPoints <- ServingOnly
SPECIFICATION Spec
INVARIANT EndOfArticle
CHECK_DEADLOCK FALSE
