SPECIFICATION FairSpec
CONSTANTS
    Schemes = {"socks5+tls"}
    Users = {"none"}
    Auths = {FALSE}
    Targets = {"up"}
    MaxData = 1
PROPERTY TlsDialEnds
CHECK_DEADLOCK FALSE
