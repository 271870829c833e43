-------------------------------- MODULE Lookup --------------------------------
(***************************************************************************)
(* What GetRemoteAddr of proxyPool/proxy.go promises to the relays of one  *)
(* host: each relay asks once and is told once, either an error or an      *)
(* address.  The address is the one of the relay's own port when no other  *)
(* lookup ran at the same time; otherwise it may be another relay's, or no *)
(* address at all, because the answers share one channel and one buffer.   *)
(***************************************************************************)
CONSTANTS Conns, Garbled, NoResult

VARIABLES
    phase,      \* "idle", "asking" or "told", per relay
    result,     \* what each relay was told
    overlap     \* the lookups that ran while another one did

vars == <<phase, result, overlap>>

Asking == {c \in Conns : phase[c] = "asking"}

\* The results a relay may be told.
Allowed(c) ==
    {"error"} \cup (IF c \in overlap THEN Conns \cup {Garbled} ELSE {c})

Init ==
    /\ phase = [c \in Conns |-> "idle"]
    /\ result = [c \in Conns |-> NoResult]
    /\ overlap = {}

Ask(c) ==
    /\ phase[c] = "idle"
    /\ phase' = [phase EXCEPT ![c] = "asking"]
    /\ overlap' = IF Asking = {} THEN overlap ELSE overlap \cup Asking \cup {c}
    /\ UNCHANGED result

Tell(c) ==
    /\ phase[c] = "asking"
    /\ phase' = [phase EXCEPT ![c] = "told"]
    /\ \E x \in Allowed(c) : result' = [result EXCEPT ![c] = x]
    /\ UNCHANGED overlap

Next == \E c \in Conns : Ask(c) \/ Tell(c)

Spec == Init /\ [][Next]_vars
=============================================================================
