---------------------------- MODULE MCProxyStore ----------------------------
(***************************************************************************)
(* ProxyStore for TLC. The three questions asked of it need different      *)
(* bounds, and all together they are too many states: a behaviour keeps to *)
(* one of the plans, chosen at the start.                                  *)
(***************************************************************************)
EXTENDS ProxyStore, Bitwise

\* Or8 is the operator | of the community module on bytes.
ASSUME OrAssumption == \A a, b \in 0..255 : Or8(a, b) = a | b

\* Two addresses whose ports fit in eight bits.
Small == {[ip |-> 1, port |-> 80], [ip |-> 2, port |-> 80]}

\* 0.0.0.1:80 and 0.0.0.1:336 have one key; 0.0.0.2:336 is loaded as 0.0.0.3.
Overlapping == {[ip |-> 1, port |-> 80], [ip |-> 1, port |-> 336], [ip |-> 2, port |-> 336]}

AllCandidates == Small \cup Overlapping

\* Keys that collide and change the IP; two hosts, the second of which takes over
\* the proxy of the first; three clients of one host who ask for another proxy.
Plans == {
    [candidates |-> Overlapping, hosts |-> 1, pending |-> 1, reload |-> 1],
    [candidates |-> Small,       hosts |-> 2, pending |-> 1, reload |-> 1],
    [candidates |-> Small,       hosts |-> 1, pending |-> 2, reload |-> 3]}

VARIABLE plan

Within ==
    /\ alive \subseteq plan.candidates
    /\ Cardinality(DOMAIN pools) <= plan.hosts
    /\ Cardinality(pending) <= plan.pending
    /\ \A h \in Hosts : reload[h] <= plan.reload

MCInit == plan \in Plans /\ Init /\ Within

MCNext == Next /\ UNCHANGED plan /\ Within'

MCSpec == MCInit /\ [][MCNext]_<<vars, plan>>

HostSymmetry == Permutations(Hosts)
=============================================================================
