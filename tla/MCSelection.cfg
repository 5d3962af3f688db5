\* No cap: every order of the list, every outcome of a lookup and a send.
SPECIFICATION Spec
CONSTANTS
    b1 = b1
    b2 = b2
    b3 = b3
    b4 = b4
    b5 = b5
    b6 = b6
    i1 = i1
    i2 = i2
    i3 = i3
    i4 = i4
    i5 = i5
    s1 = s1
    s2 = s2
    a1 = a1
    a2 = a2
    Bans = {b1, b2, b3, b4, b5, b6}
    Alerts <- MCAlerts
    Ips <- MCIps
    Subnets = {s1, s2}
    Asns = {a1, a2}
    None = None
    AlertOf <- MCAlertOf
    Value <- MCValue
    Community = {b5}
    Confidence <- MCConfidence
    SourceIp <- MCSourceIp
    SourceAsn <- MCSourceAsn
    SubnetOf <- MCSubnetOf
    AsnOf <- MCAsnOf
    Internal = {i5}
    Whitelist = {}
    Cap = 0
    CleansUp = TRUE
    NegativeTtl = 0
    PositiveTtl = 1
INVARIANTS
    TypeOK
    OnePerSubnet
    AccusesTheObserved
