----------------------------- MODULE ProxyCheck -----------------------------
(***************************************************************************)
(* How a proxy is tried (proxyPool/ProxyInfo.go Check and ConnProxy, the   *)
(* schemes of ProxyClient, the HTTP and SOCKS clients) by two goroutines:  *)
(* the one ProxyHandle starts for a reported candidate, which searches the *)
(* schemes for one that works, and CheckDB, which goes through the         *)
(* suspects of the table with the scheme each was saved with. Dials and    *)
(* reads have no time limit: an endpoint that is mute holds its goroutine. *)
(***************************************************************************)
EXTENDS Integers, Sequences, FiniteSets, SequencesExt

CONSTANTS
    Addrs,          \* addresses of proxies
    Endpoints,      \* what can be there: a subset of AllEndpoints
    MaxChanges      \* bound: changes of what is there

SCHEME == <<"socks5", "socks4", "socks4a", "https", "http", "socks">>
AllEndpoints == {"socks5", "socks4", "http", "web", "down", "mute"}

ASSUME AddrsAssumption == IsFiniteSet(Addrs) /\ Addrs # {}
ASSUME EndpointsAssumption == Endpoints \subseteq AllEndpoints

Workers == {"candidate", "checkdb"}
NoRow == [scheme |-> 0, ord |-> -1]
Row == [scheme : 1 .. 6, ord : {0, 1}] \cup {NoRow}

VARIABLES
    ep,         \* the endpoint at each address
    table,      \* the row of each address
    job,        \* Check of a worker: [addr, scheme, url, search], url 0 is ""
    pc,         \* "idle", "dial", "hung", "ok", "err"
    list,       \* CheckDB: the suspects still to be checked
    left,       \* history: connections the present Check of a worker left open
    fresh,      \* history: addresses saved as usable since CheckDB took its list
    accepted,   \* history: schemes whose client was given a connection
    changes

vars == <<ep, table, job, pc, list, left, fresh, accepted, changes>>

Init ==
    /\ ep \in [Addrs -> Endpoints]
    /\ table = [a \in Addrs |-> NoRow]
    /\ job \in [Workers -> {[addr |-> a, scheme |-> 1, url |-> 0, search |-> FALSE] : a \in {CHOOSE a \in Addrs : TRUE}}]
    /\ pc = [w \in Workers |-> "idle"]
    /\ list = <<>> /\ left = [w \in Workers |-> 0] /\ fresh = {}
    /\ accepted = [a \in Addrs |-> {}] /\ changes = 0

-----------------------------------------------------------------------------
\* The client of a scheme is given a connection. SOCKS4A is understood by a
\* SOCKS4 endpoint; the HTTP client also takes the connection that a web server
\* answered with another status than 200, and has closed it. An HTTPS proxy has
\* to prove the name "ip:port" (tlsConfigByProxyURL), which no certificate has;
\* NewClient of SOCKSProxy knows no scheme "socks".
Accepts(s, e) ==
    CASE SCHEME[s] = "socks5" -> e = "socks5"
      [] SCHEME[s] \in {"socks4", "socks4a"} -> e = "socks4"
      [] SCHEME[s] = "http" -> e \in {"http", "web"}
      [] OTHER -> FALSE

\* A dial that fails after the connection was made: only the HTTP client closes
\* it.
LeavesOpen(s, e) == e # "down" /\ SCHEME[s] \in {"socks5", "socks4", "socks4a"}

\* String: the URL is made once and kept.
Tried(j) == IF j.url # 0 THEN j.url ELSE j.scheme

\* Check after a failed ConnProxy: the search drops the URL and takes the next
\* scheme, a check with a scheme of its own ends.
Failed(w) ==
    LET j == job[w] IN
    IF j.search /\ j.scheme < Len(SCHEME)
    THEN /\ job' = [job EXCEPT ![w] = [addr |-> j.addr, scheme |-> j.scheme + 1, url |-> 0, search |-> TRUE]]
         /\ pc' = [pc EXCEPT ![w] = "dial"]
    ELSE /\ pc' = [pc EXCEPT ![w] = "err"] /\ UNCHANGED job

\* ConnProxy in Check.
Dial(w) ==
    LET s == Tried(job[w])
        e == ep[job[w].addr]
    IN  /\ pc[w] = "dial"
        /\ \/ /\ Accepts(s, e)
              /\ pc' = [pc EXCEPT ![w] = "ok"]
              /\ accepted' = [accepted EXCEPT ![job[w].addr] = @ \cup {s}]
              /\ UNCHANGED <<job, left>>
           \/ /\ ~Accepts(s, e) /\ (e # "mute" \/ SCHEME[s] = "socks")
              /\ left' = IF LeavesOpen(s, e) THEN [left EXCEPT ![w] = @ + 1] ELSE left
              /\ Failed(w)
              /\ UNCHANGED accepted
           \/ /\ e = "mute" /\ SCHEME[s] # "socks"
              /\ pc' = [pc EXCEPT ![w] = "hung"]
              /\ UNCHANGED <<job, left, accepted>>
        /\ UNCHANGED <<ep, table, list, fresh, changes>>

\* The mute endpoint closes at last.
HungCloses(w) ==
    /\ pc[w] = "hung"
    /\ left' = IF LeavesOpen(Tried(job[w]), "mute") THEN [left EXCEPT ![w] = @ + 1] ELSE left
    /\ Failed(w)
    /\ UNCHANGED <<ep, table, list, fresh, accepted, changes>>

-----------------------------------------------------------------------------
\* ProxyHandle: a candidate is reported.
Report(a) ==
    /\ pc["candidate"] = "idle"
    /\ pc' = [pc EXCEPT !["candidate"] = "dial"]
    /\ job' = [job EXCEPT !["candidate"] = [addr |-> a, scheme |-> 1, url |-> 0, search |-> TRUE]]
    /\ left' = [left EXCEPT !["candidate"] = 0]
    /\ UNCHANGED <<ep, table, list, fresh, accepted, changes>>

Saved(w) == [scheme |-> job[w].scheme, ord |-> 1]

\* Mutant of ReportEnds: the candidate is saved whatever the check found.
ReportEndsAlways ==
    /\ pc["candidate"] \in {"ok", "err"}
    /\ pc' = [pc EXCEPT !["candidate"] = "idle"]
    /\ table' = [table EXCEPT ![job["candidate"].addr] = Saved("candidate")]
    /\ fresh' = fresh \cup {job["candidate"].addr}
    /\ UNCHANGED <<ep, job, list, left, accepted, changes>>

\* Its goroutine ends: a scheme that worked is saved.
ReportEnds ==
    /\ pc["candidate"] \in {"ok", "err"}
    /\ pc' = [pc EXCEPT !["candidate"] = "idle"]
    /\ IF pc["candidate"] = "ok"
       THEN /\ table' = [table EXCEPT ![job["candidate"].addr] = Saved("candidate")]
            /\ fresh' = fresh \cup {job["candidate"].addr}
       ELSE UNCHANGED <<table, fresh>>
    /\ UNCHANGED <<ep, job, list, left, accepted, changes>>

\* Replace saves a proxy with order 0.
Suspect(a) ==
    /\ table[a].ord = 1
    /\ table' = [table EXCEPT ![a].ord = 0]
    /\ UNCHANGED <<ep, job, pc, list, left, fresh, accepted, changes>>

Listed(S) == SetToSeqs({[addr |-> a, scheme |-> table[a].scheme] : a \in S})

\* Mutant of Pass: the whole table is listed.
PassAll ==
    /\ list = <<>> /\ pc["checkdb"] = "idle"
    /\ list' \in Listed({a \in Addrs : table[a] # NoRow}) /\ list' # <<>>
    /\ fresh' = {}
    /\ UNCHANGED <<ep, table, job, pc, left, accepted, changes>>

\* CheckDB takes the list of the suspects.
Pass ==
    /\ list = <<>> /\ pc["checkdb"] = "idle"
    /\ list' \in Listed({a \in Addrs : table[a].ord = 0}) /\ list' # <<>>
    /\ fresh' = {}
    /\ UNCHANGED <<ep, table, job, pc, left, accepted, changes>>

PassCheck ==
    /\ list # <<>> /\ pc["checkdb"] = "idle"
    /\ pc' = [pc EXCEPT !["checkdb"] = "dial"]
    /\ job' = [job EXCEPT !["checkdb"] = [addr |-> list[1].addr, scheme |-> list[1].scheme, url |-> 0, search |-> FALSE]]
    /\ left' = [left EXCEPT !["checkdb"] = 0]
    /\ UNCHANGED <<ep, table, list, fresh, accepted, changes>>

\* Mutant of PassEnds: an error ends the pass with the rest of the list kept.
PassEndsStuck ==
    /\ pc["checkdb"] = "ok"
    /\ pc' = [pc EXCEPT !["checkdb"] = "idle"] /\ list' = Tail(list)
    /\ table' = [table EXCEPT ![job["checkdb"].addr] = Saved("checkdb")]
    /\ UNCHANGED <<ep, job, left, fresh, accepted, changes>>

\* The row is saved or deleted.
PassEnds ==
    /\ pc["checkdb"] \in {"ok", "err"}
    /\ pc' = [pc EXCEPT !["checkdb"] = "idle"] /\ list' = Tail(list)
    /\ table' = [table EXCEPT ![job["checkdb"].addr] =
                    IF pc["checkdb"] = "ok" THEN Saved("checkdb") ELSE NoRow]
    /\ UNCHANGED <<ep, job, left, fresh, accepted, changes>>

\* Something else is at an address.
Change(a) ==
    /\ changes < MaxChanges
    /\ changes' = changes + 1
    /\ \E e \in Endpoints : ep' = [ep EXCEPT ![a] = e]
    /\ UNCHANGED <<table, job, pc, list, left, fresh, accepted>>

CheckDB == PassCheck \/ Dial("checkdb") \/ PassEnds
Candidate == Dial("candidate") \/ ReportEnds

Next ==
    \/ \E a \in Addrs : Report(a) \/ Suspect(a) \/ Change(a)
    \/ Pass \/ CheckDB \/ Candidate
    \/ \E w \in Workers : HungCloses(w)

Spec == Init /\ [][Next]_vars

\* Both goroutines run.
Fairness == WF_vars(CheckDB) /\ WF_vars(Candidate)

FairSpec == Spec /\ Fairness

-----------------------------------------------------------------------------
\* What is at each address, the table and the two goroutines.
TypeOK ==
    /\ ep \in [Addrs -> Endpoints] /\ table \in [Addrs -> Row]
    /\ job \in [Workers -> [addr : Addrs, scheme : 1 .. 6, url : 0 .. 6, search : BOOLEAN]]
    /\ pc \in [Workers -> {"idle", "dial", "hung", "ok", "err"}]
    /\ list \in Seq([addr : Addrs, scheme : 1 .. 6]) /\ left \in [Workers -> Nat]
    /\ fresh \subseteq Addrs /\ accepted \in [Addrs -> SUBSET (1 .. 6)]

\* A proxy in the table, suspect or usable, has a scheme whose client once got
\* a connection there, also when what is at the address changed during the
\* search or since: GetConn never uses a scheme that was not tried (Check,
\* String).
SchemeWorked == \A a \in Addrs : table[a] # NoRow => table[a].scheme \in accepted[a]

\* A check leaves at most one connection open for each SOCKS scheme it tried,
\* and a check of an HTTP proxy none: the SOCKS clients return a connection
\* with their error, which Check drops.
FewLeftOpen ==
    \A w \in Workers :
        left[w] <= IF job[w].search THEN 3 ELSE IF job[w].scheme <= 3 THEN 1 ELSE 0

\* CheckDB deletes a usable row only if the row was a suspect when CheckDB took
\* its list and was saved by another goroutine since.
UsableDeleted ==
    [][\A a \in Addrs : table[a].ord = 1 /\ table'[a] = NoRow => a \in fresh]_vars

\* CheckDB comes to the end of its list, and the check of a candidate ends,
\* unless a proxy took the connection and is mute: there is no time limit. No
\* check leaves more open than a connection for each SOCKS scheme.
ChecksEnd ==
    /\ []FewLeftOpen
    /\ list # <<>> ~> list = <<>> \/ pc["checkdb"] = "hung"
    /\ pc["candidate"] = "dial" ~> pc["candidate"] \in {"idle", "hung"}
=============================================================================
