SPECIFICATION Spec
CONSTANTS
    p0 = p0
    p2 = p2
    k1 = k1
    k2 = k2
    k3 = k3
    k4 = k4
    k5 = k5
    k6 = k6
    Tier = {p0, p2}
    P0 = p0
    Sheddable = {p2}
    MaxConcurrent <- MCMaxConcurrent
    MaxTokens <- MCMaxTokens
    MaxRss <- MCMaxRss
    RssCeiling = 4
    Headroom = 1
    Task = {k1, k2, k3, k4, k5, k6}
    TierOf <- MCTierOf
    Rss <- MCRss
    Tokens <- MCTokens
    MaxTaskRss = 1
    MaxInFlight = 2
    TokenBound = 2
SYMMETRY Symmetry
INVARIANTS ActiveExact RssExact ConcurrencyBounded CeilingBounded RuntimeAgrees
