SPECIFICATION Spec
CONSTANTS
    m1 = m1
    m2 = m2
    m3 = m3
    i1 = i1
    i2 = i2
    paper = paper
    figure = figure
    long = long
    d1 = d1
    d2 = d2
    x1 = x1
    x2 = x2
    Mails <- MCMails
    Contents <- MCContents
    Mids <- MCMids
    NoMid = NoMid
    Names <- MCNames
    LongNames <- MCLong
    Prefixes <- MCPrefixes
    Prefix <- MCPrefix
    NoAttachment = NoAttachment
    Data <- MCData
    NoMail = NoMail
    BatchSize = 2
    MaxAttempts = 2
    MaxFaults = 2
    MaxDays = 1
INVARIANT NeverSilentlyDropped
