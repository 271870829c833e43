----------------------------- MODULE RobotServer -----------------------------
(***************************************************************************)
(* robot/Server.go: the sessions of the game robots.  HostMap maps a key   *)
(* byte to a session object (UserBase).  A client that has no key sends    *)
(* one no session has (255) and learns its key from the first byte of the  *)
(* reply.  Every connection has a goroutine (Handle) that serves one       *)
(* request after another; HostMap and the sessions are shared by these     *)
(* goroutines and by ClearServer without any lock.                         *)
(*                                                                         *)
(* A goroutine is a handler h, from the Read of a request to the Write of  *)
(* its reply.  A client that gives up on a connection opens another one    *)
(* while the old handler may still be running.                             *)
(*                                                                         *)
(* A message of fewer than three bytes and a message with an unknown       *)
(* function code touch no session: the first ends the connection, the      *)
(* second is answered with the client's own key.  Neither is a step here.  *)
(***************************************************************************)
EXTENDS Integers, FiniteSets, FiniteSetsExt

CONSTANTS
    Clients,      \* the game robots
    Handlers,     \* connection goroutines that run at the same time
    NumSlots,     \* keys a session can have: 0..NumSlots-1 (255 in the code)
    Payloads,     \* request payloads db[3:]
    Empty,        \* the empty payload, which compByte takes for a nil slice
    Nobody,       \* no client and no handler
    MaxSessions   \* bound: session objects created in a behaviour

ASSUME NumSlotsAssumption == NumSlots \in Nat \ {0}
ASSUME MaxSessionsAssumption == MaxSessions \in Nat
ASSUME EmptyAssumption == Empty \in Payloads
ASSUME HandlersAssumption == IsFiniteSet(Handlers)
ASSUME NobodyAssumption == Nobody \notin Clients \cup Handlers

Slots    == 0..(NumSlots - 1)
NewKey   == NumSlots          \* the key byte no session has
Keys     == 0..NumSlots
Sessions == 1..MaxSessions
None     == 0                 \* the nil *UserBase

VARIABLES
    hostMap,    \* HostMap
    created,    \* session objects created so far
    last,       \* LastForData of each session: arg is [0]; res stands for [1],
                \* and is the payload whose call produced it
    idle,       \* the sessions whose BeginTime is more than 600 s ago, or 0
    pc,         \* where each handler stands
    req,        \* the request it serves: client, key and payload
    sess,       \* u, the session it works on
    ret,        \* what f returned to it
    key,        \* the key each client holds
    conn,       \* the handler of each client's present connection
    sweep,      \* the slot ClearServer is about to delete, or NewKey
    server,     \* "up", or how the process died
    owner,      \* history: the client a session was created for
    ran,        \* history: payload of the last call run on a session
    mixed,      \* history: sessions two handlers worked on at the same time
    raced,      \* history: clients whose allocation overlapped another one
    evicted     \* history: clients a session was taken from

handlerVars == <<pc, req, sess, ret>>
clientVars  == <<key, conn>>
history     == <<owner, ran, mixed, raced, evicted>>
vars == <<hostMap, created, last, idle, sweep, server, handlerVars,
          clientVars, history>>

NoRequest  == [client |-> Nobody, key |-> NewKey, arg |-> Empty]
Searching  == {"lookup", "scan", "insert"}
Working    == {"touch", "comp", "set", "call", "store", "reply"}
Using(s)   == {h \in Handlers : pc[h] \in Working /\ sess[h] = s}
Allocating == {h \in Handlers : pc[h] \in {"scan", "insert"}}
Free       == {k \in Slots : hostMap[k] = None}
InMap(k)   == IF k \in Slots THEN hostMap[k] ELSE None

Init ==
    /\ hostMap = [k \in Slots |-> None]
    /\ created = 0
    /\ last = [s \in Sessions |-> [arg |-> Empty, res |-> Empty]]
    /\ idle = {}
    /\ pc = [h \in Handlers |-> "off"]
    /\ req = [h \in Handlers |-> NoRequest]
    /\ sess = [h \in Handlers |-> None]
    /\ ret = [h \in Handlers |-> Empty]
    /\ key = [c \in Clients |-> NewKey]
    /\ conn = [c \in Clients |-> Nobody]
    /\ sweep = NewKey
    /\ server = "up"
    /\ owner = [s \in Sessions |-> Nobody]
    /\ ran = [s \in Sessions |-> Empty]
    /\ mixed = {}
    /\ raced = {}
    /\ evicted = {}

-----------------------------------------------------------------------------
(* Handle and GetRecvData, one goroutine per connection.                   *)

\* Handle reads a request.  A client waits for the reply on its connection
\* before it sends again, or gives that connection up and uses another one.
\* The bound keeps a session object for every handler that may create one.
Recv(h, c, p) ==
    /\ pc[h] = "off"
    /\ created + Cardinality({g \in Handlers : pc[g] \in Searching}) < MaxSessions
    /\ req' = [req EXCEPT ![h] = [client |-> c, key |-> key[c], arg |-> p]]
    /\ conn' = [conn EXCEPT ![c] = h]
    /\ pc' = [pc EXCEPT ![h] = "lookup"]
    /\ UNCHANGED <<hostMap, created, last, idle, sweep, server, sess, ret, key, history>>

\* GetHost: u = HostMap[key].
Lookup(h) ==
    /\ pc[h] = "lookup"
    /\ LET u == InMap(req[h].key) IN
       \/ /\ u # None
          /\ sess' = [sess EXCEPT ![h] = u]
          /\ pc' = [pc EXCEPT ![h] = "touch"]
          /\ mixed' = IF Using(u) = {} THEN mixed ELSE mixed \cup {u}
          /\ UNCHANGED raced
       \/ /\ u = None
          /\ pc' = [pc EXCEPT ![h] = "scan"]
          /\ raced' = IF Allocating = {} THEN raced
                      ELSE raced \cup {req[g].client : g \in Allocating \cup {h}}
          /\ UNCHANGED <<sess, mixed>>
    /\ UNCHANGED <<hostMap, created, last, idle, sweep, server, req, ret,
                   clientVars, owner, ran, evicted>>

\* Mutant of Scan: the loop variable is a byte and the loop never ends.
ScanWraps(h) ==
    /\ pc[h] = "scan"
    /\ Free # {}
    /\ req' = [req EXCEPT ![h].key = Min(Free)]
    /\ pc' = [pc EXCEPT ![h] = "insert"]
    /\ UNCHANGED <<hostMap, created, last, idle, sweep, server, sess, ret,
                   clientVars, history>>

\* Mutant of Scan: the test for a free slot is dropped.
ScanFirst(h) ==
    /\ pc[h] = "scan"
    /\ req' = [req EXCEPT ![h].key = 0]
    /\ pc' = [pc EXCEPT ![h] = "insert"]
    /\ UNCHANGED <<hostMap, created, last, idle, sweep, server, sess, ret,
                   clientVars, history>>

\* GetHost: the first i with HostMap[i] == nil.  When there is none u stays
\* nil, u.BeginTime = ... dereferences it, and the panic ends the process.
Scan(h) ==
    /\ pc[h] = "scan"
    /\ \/ /\ Free # {}
          /\ req' = [req EXCEPT ![h].key = Min(Free)]
          /\ pc' = [pc EXCEPT ![h] = "insert"]
          /\ UNCHANGED server
       \/ /\ Free = {}
          /\ server' = "panic"
          /\ UNCHANGED <<req, pc>>
    /\ UNCHANGED <<hostMap, created, last, idle, sweep, sess, ret, clientVars, history>>

\* GetHost: u = new(UserBase), u.Init(conn), HostMap[i] = u.  BeginTime is
\* still 0, so ClearServer takes the session for an idle one.
Insert(h) ==
    /\ pc[h] = "insert"
    /\ created' = created + 1
    /\ hostMap' = [hostMap EXCEPT ![req[h].key] = created']
    /\ idle' = idle \cup {created'}
    /\ sess' = [sess EXCEPT ![h] = created']
    /\ owner' = [owner EXCEPT ![created'] = req[h].client]
    /\ pc' = [pc EXCEPT ![h] = "touch"]
    /\ UNCHANGED <<last, sweep, server, req, ret, clientVars, ran, mixed,
                   raced, evicted>>

\* GetHost: u.BeginTime = time.Now().
Touch(h) ==
    /\ pc[h] = "touch"
    /\ idle' = idle \ {sess[h]}
    /\ pc' = [pc EXCEPT ![h] = "comp"]
    /\ UNCHANGED <<hostMap, created, last, sweep, server, req, sess, ret,
                   clientVars, history>>

\* Mutant of Comp: every request runs, a repeated one too.
CompAlways(h) ==
    /\ pc[h] = "comp"
    /\ pc' = [pc EXCEPT ![h] = "set"]
    /\ UNCHANGED <<hostMap, created, last, idle, sweep, server, req, sess, ret,
                   clientVars, history>>

\* compByte(u.LastForData[0], db[3:]): a payload equal to the last one is not
\* run again.
Comp(h) ==
    /\ pc[h] = "comp"
    /\ pc' = [pc EXCEPT ![h] = IF last[sess[h]].arg = req[h].arg THEN "reply" ELSE "set"]
    /\ UNCHANGED <<hostMap, created, last, idle, sweep, server, req, sess, ret,
                   clientVars, history>>

\* Mutant of SetArg: the assignment is missing.
SetArgMissing(h) ==
    /\ pc[h] = "set"
    /\ pc' = [pc EXCEPT ![h] = "call"]
    /\ UNCHANGED <<hostMap, created, last, idle, sweep, server, req, sess, ret,
                   clientVars, history>>

\* u.LastForData[0] = db[3:]
SetArg(h) ==
    /\ pc[h] = "set"
    /\ last' = [last EXCEPT ![sess[h]].arg = req[h].arg]
    /\ pc' = [pc EXCEPT ![h] = "call"]
    /\ UNCHANGED <<hostMap, created, idle, sweep, server, req, sess, ret,
                   clientVars, history>>

\* f(u.LastForData[0], u) runs on the payload the session holds now.
Call(h) ==
    /\ pc[h] = "call"
    /\ ret' = [ret EXCEPT ![h] = last[sess[h]].arg]
    /\ ran' = [ran EXCEPT ![sess[h]] = last[sess[h]].arg]
    /\ pc' = [pc EXCEPT ![h] = "store"]
    /\ UNCHANGED <<hostMap, created, last, idle, sweep, server, req, sess,
                   clientVars, owner, mixed, raced, evicted>>

\* u.LastForData[1] = what f returned.
Store(h) ==
    /\ pc[h] = "store"
    /\ last' = [last EXCEPT ![sess[h]].res = ret[h]]
    /\ pc' = [pc EXCEPT ![h] = "reply"]
    /\ UNCHANGED <<hostMap, created, idle, sweep, server, req, sess, ret,
                   clientVars, history>>

\* Handle writes k and u.LastForData[1].  A client still on this connection
\* learns its key from the first byte; otherwise the reply is lost.  The
\* handler's variables go out of scope.
Reply(h) ==
    LET c == req[h].client IN
    /\ pc[h] = "reply"
    /\ pc' = [pc EXCEPT ![h] = "off"]
    /\ key' \in {key} \cup (IF conn[c] = h THEN {[key EXCEPT ![c] = req[h].key]} ELSE {})
    /\ conn' = [conn EXCEPT ![c] = IF @ = h THEN Nobody ELSE @]
    /\ req' = [req EXCEPT ![h] = NoRequest]
    /\ sess' = [sess EXCEPT ![h] = None]
    /\ ret' = [ret EXCEPT ![h] = Empty]
    /\ UNCHANGED <<hostMap, created, last, idle, sweep, server, history>>

-----------------------------------------------------------------------------
(* ClearServer and the clock.                                              *)

\* 600 seconds pass without a request of a session.
Age(s) ==
    /\ \E k \in Slots : hostMap[k] = s
    /\ s \notin idle
    /\ idle' = idle \cup {s}
    /\ UNCHANGED <<hostMap, created, last, sweep, server, handlerVars,
                   clientVars, history>>

\* Mutant of SweepCheck: the comparison with 600 the wrong way round.
SweepCheckFresh(k) ==
    /\ sweep = NewKey
    /\ hostMap[k] # None
    /\ hostMap[k] \notin idle
    /\ sweep' = k
    /\ UNCHANGED <<hostMap, created, last, idle, server, handlerVars,
                   clientVars, history>>

\* ClearServer's loop reaches key k and finds its session idle.
SweepCheck(k) ==
    /\ sweep = NewKey
    /\ hostMap[k] # None
    /\ hostMap[k] \in idle
    /\ sweep' = k
    /\ UNCHANGED <<hostMap, created, last, idle, server, handlerVars,
                   clientVars, history>>

\* delete(HostMap, k), whatever has happened to the session in between.
SweepDelete ==
    /\ sweep # NewKey
    /\ evicted' = evicted \cup {owner[hostMap[sweep]]}
    /\ hostMap' = [hostMap EXCEPT ![sweep] = None]
    /\ idle' = idle \ {hostMap[sweep]}
    /\ sweep' = NewKey
    /\ UNCHANGED <<created, last, server, handlerVars, clientVars, owner, ran,
                   mixed, raced>>

\* The Go runtime may find a write of HostMap (Insert, SweepDelete) under way
\* at the same time as another access and end the process: another handler's,
\* the range of ClearServer or of ConsoleHandle.
MapRace ==
    /\ \/ \E h \in Handlers : pc[h] = "insert"
       \/ sweep # NewKey /\ \E h \in Handlers : pc[h] \in Searching
    /\ server' = "fatal"
    /\ UNCHANGED <<hostMap, created, last, idle, sweep, handlerVars,
                   clientVars, history>>

-----------------------------------------------------------------------------
Handle(h) ==
    \/ Lookup(h) \/ Scan(h) \/ Insert(h) \/ Touch(h) \/ Comp(h)
    \/ SetArg(h) \/ Call(h) \/ Store(h) \/ Reply(h)

ClearServer == SweepDelete \/ \E k \in Slots : SweepCheck(k)

Next ==
    /\ server = "up"
    /\ \/ \E h \in Handlers, c \in Clients, p \in Payloads : Recv(h, c, p)
       \/ \E h \in Handlers : Handle(h)
       \/ \E s \in Sessions : Age(s)
       \/ ClearServer
       \/ MapRace

Spec == Init /\ [][Next]_vars

\* The Go scheduler runs every goroutine that can run; the loop of ClearServer
\* comes to every key again and again.
Fairness ==
    /\ \A h \in Handlers : WF_vars(server = "up" /\ Handle(h))
    /\ WF_vars(server = "up" /\ SweepDelete)
    /\ \A k \in Slots : SF_vars(server = "up" /\ SweepCheck(k))

FairSpec == Spec /\ Fairness

-----------------------------------------------------------------------------
(* Properties.                                                             *)

\* Every variable has its type; a key a client holds is a key byte.
TypeOK ==
    /\ hostMap \in [Slots -> Sessions \cup {None}]
    /\ created \in 0..MaxSessions
    /\ last \in [Sessions -> [arg : Payloads, res : Payloads]]
    /\ idle \subseteq Sessions
    /\ pc \in [Handlers -> Searching \cup Working \cup {"off"}]
    /\ req \in [Handlers -> [client : Clients \cup {Nobody}, key : Keys, arg : Payloads]]
    /\ sess \in [Handlers -> Sessions \cup {None}]
    /\ ret \in [Handlers -> Payloads]
    /\ key \in [Clients -> Keys]
    /\ conn \in [Clients -> Handlers \cup {Nobody}]
    /\ sweep \in Keys
    /\ server \in {"up", "panic", "fatal"}
    /\ owner \in [Sessions -> Clients \cup {Nobody}]
    /\ ran \in [Sessions -> Payloads]
    /\ mixed \subseteq Sessions
    /\ raced \subseteq Clients
    /\ evicted \subseteq Clients

\* A request works on a session that was created for its own client, unless
\* two clients were looking for a free key at the same time (both may take the
\* same one) or ClearServer deleted a session of this client, whose key may
\* then belong to somebody else.  Lost replies and abandoned connections alone
\* never mix two clients up.
PrivateSession ==
    \A h \in Handlers :
        pc[h] \in Working /\ req[h].client \notin raced \cup evicted =>
            owner[sess[h]] = req[h].client

\* A reply carries what f computed for the payload of its own request, unless
\* two handlers worked on the session at the same time, which may leave a
\* payload and the result of another one together in LastForData.
ReplyIsOwn ==
    \A h \in Handlers :
        pc[h] = "reply" /\ sess[h] \notin mixed => last[sess[h]].res = req[h].arg

\* A request that repeats the payload of the session's last call, as a client
\* does that saw no reply, is answered from LastForData and not run again.
RetryRunsOnce ==
    [][\A h \in Handlers :
          pc[h] = "call" /\ pc'[h] = "store" /\ sess[h] \notin mixed =>
              ran[sess[h]] # last[sess[h]].arg]_vars

\* Every request that Handle has read gets its reply, or the process ends.
EveryRequestEnds ==
    \A h \in Handlers : pc[h] = "lookup" ~> pc[h] = "off" \/ server # "up"

\* A session nobody uses any more gives its key back: ClearServer deletes it
\* unless it is used again or the process ends.
IdleReclaimed ==
    \A k \in Slots, s \in Sessions :
        hostMap[k] = s /\ s \in idle ~> hostMap[k] # s \/ s \notin idle \/ server # "up"

\* GetRecvData ends the connection when GetHost finds no session for it
\* (if u == nil { return nil }): a full table is refused, not fatal.
FullTableRefused == server # "panic"
=============================================================================
