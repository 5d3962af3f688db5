\* One report per run.
SPECIFICATION FairSpec
CONSTANTS
    b1 = b1
    b2 = b2
    b3 = b3
    b4 = b4
    b5 = b5
    b6 = b6
    i1 = i1
    i2 = i2
    i3 = i3
    i4 = i4
    i5 = i5
    s1 = s1
    s2 = s2
    a1 = a1
    a2 = a2
    Bans = {b1, b3, b4}
    Alerts <- MCAlerts
    Ips <- MCIps
    Subnets = {s1, s2}
    Asns = {a1, a2}
    None = None
    AlertOf <- MCAlertOf
    Value <- MCValue
    Community = {}
    Confidence <- MCConfidence
    SourceIp <- MCSourceIp
    SourceAsn <- MCSourceAsn
    SubnetOf <- MCSubnetOf
    AsnOf <- MCAsnOf
    Internal = {}
    Whitelist = {}
    Cap = 1
    CleansUp = TRUE
    NegativeTtl = 1
    PositiveTtl = 0
PROPERTIES
    HeldBackForBetter
    EveryBanReported
