\* Two addresses at which something else may appear once; two goroutines and two
\* ends of the process; every scheme, setting and target of a dial.
SPECIFICATION MCSpec
CONSTANTS
    Addrs = {a1, a2}
    Endpoints = {"socks5", "http", "mute"}
    MaxChanges = 1
    Goroutines = {w1, w2}
    Rows = {r1, r2}
    None = None
    MaxKills = 2
    Schemes = {"socks4", "socks4a", "socks5", "socks5+tls", "http"}
    Users = {"none", "password"}
    Auths = {TRUE, FALSE}
    Targets = {"up", "refused", "timeout", "other"}
    MaxData = 3
INVARIANTS
    SchemeWorked  TunnelFaithful
PROPERTIES
    UsableDeleted ChecksEnd SaveReturns EveryDialEnds
CHECK_DEADLOCK FALSE
