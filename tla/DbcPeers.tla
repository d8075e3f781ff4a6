------------------------------ MODULE DbcPeers ------------------------------
(***************************************************************************)
(* The peer pool: network/peer_registry.rs and the arms of run_p2p that    *)
(* read, merge, save and publish it.                                       *)
(*                                                                         *)
(* A registry gives each address the time it was first added, and Never to *)
(* an address it does not hold: merging keeps the earlier time, and Never  *)
(* is later than any.                                                      *)
(***************************************************************************)
EXTENDS Naturals, FiniteSets

CONSTANTS
    Nodes,
    Addrs,       \* multiaddrs that nodes hear of
    DuckDns,     \* those with the bootstrap's host name
    Bootstrap,   \* DUCKDNS_BOOTSTRAP, the only one of them without a peer id
    Owner,       \* the node that answers at an address
    Undialable,  \* is_unusable_dial_addr: 0.0.0.0 and loopback
    Listen,      \* addresses a node announces of itself (identify, UPnP)
    Endpoint,    \* addresses a node's own connections come from
    WithPeer,    \* with_p2p: the address with the peer id of its owner
    Shipped,     \* addresses of the bundled peers.enc
    MaxTime,     \* the clock stops here (a bound of the model)
    MaxFaults,   \* kills, disconnections and losses (a bound of the model)
    NoFile,      \* peers.enc does not exist
    Torn         \* peers.enc cannot be decrypted

Never == MaxTime + 1

Times == 0..MaxTime

\* PeerEntry, PeerRegistry.
Registry == [Addrs -> Times \cup {Never}]

ASSUME PeerAssumption ==
    /\ IsFiniteSet(Nodes)
    /\ DuckDns \subseteq Addrs /\ Shipped \subseteq Addrs
    /\ Bootstrap \in DuckDns
    /\ Owner \in [Addrs -> Nodes]
    /\ Undialable \subseteq Addrs /\ Bootstrap \notin Undialable
    /\ Listen \in [Nodes -> SUBSET Addrs] /\ Endpoint \in [Nodes -> SUBSET Addrs]
    /\ WithPeer \in [Addrs -> Addrs]
    /\ MaxTime \in Nat /\ MaxFaults \in Nat
    /\ NoFile \notin Registry /\ Torn \notin Registry /\ NoFile # Torn

VARIABLES
    up,          \* the process runs
    reg,         \* the registry in memory
    file,        \* data/peers.enc
    todo,        \* what follows the save in hand, "idle" if there is none
    links,       \* <<n, m>>: n counts m among its connected peers
    lists,       \* PeerList messages under way
    now,         \* the clock
    faults

vars == <<up, reg, file, todo, links, lists, now, faults>>

PeerList == [to : Nodes, peers : Registry]

\* The type invariant.  What is in memory is gone when a node is down.
TypeOK ==
    /\ up \in [Nodes -> BOOLEAN]
    /\ reg \in [Nodes -> Registry]
    /\ \A n \in Nodes : file[n] \in Registry \cup {NoFile, Torn}
    /\ DOMAIN file = Nodes
    /\ todo \in [Nodes -> {"idle", "rest", "publish", "leave"}]
    /\ links \subseteq Nodes \X Nodes
    /\ lists \subseteq PeerList
    /\ \A n \in Nodes : ~up[n] =>
          /\ todo[n] = "idle"
          /\ \A m \in Nodes : <<n, m>> \notin links /\ <<m, n>> \notin links
          /\ \A l \in lists : l.to # n
    /\ now \in Times
    /\ faults \in 0..MaxFaults

Empty == [a \in Addrs |-> Never]

\* No node has been started yet.
Init ==
    /\ up = [n \in Nodes |-> FALSE]
    /\ reg = [n \in Nodes |-> Empty]
    /\ file = [n \in Nodes |-> NoFile]
    /\ todo = [n \in Nodes |-> "idle"]
    /\ links = {}
    /\ lists = {}
    /\ now = 0
    /\ faults = 0

-----------------------------------------------------------------------------
(* The registry.                                                           *)

Known(r) == {a \in Addrs : r[a] # Never}

\* What add_multiaddr_str takes: an address that can be dialled and is not known yet.
IsNew(r, a) == a \notin Known(r) \cup Undialable

\* Mutant: an entry that is there already keeps its time.
MergeUnknown(r, peers) ==
    [a \in Addrs |-> IF a \notin Undialable /\ r[a] = Never THEN peers[a] ELSE r[a]]

\* merge_peer_entries.
Merge(r, peers) ==
    [a \in Addrs |-> IF a \notin Undialable /\ peers[a] < r[a] THEN peers[a] ELSE r[a]]

\* refresh_duckdns_bootstrap.
Refresh(r) ==
    [a \in Addrs |-> IF a = Bootstrap THEN now ELSE IF a \in DuckDns THEN Never ELSE r[a]]

\* dial_order: oldest first, the bootstrap last; every target is dialled.
DialTargets(r) ==
    LET community == Known(r) \ DuckDns IN
    IF Known(r) \cap DuckDns # {} \/ community = {}
    THEN community \cup {Bootstrap}
    ELSE community

\* load_or_create.
Load(n) ==
    IF file[n] = NoFile
    THEN [a \in Addrs |-> IF a \in Shipped THEN 0 ELSE Never]
    ELSE file[n]

-----------------------------------------------------------------------------
(* Saving and publishing.                                                  *)

Peers(n) == {m \in Nodes : <<n, m>> \in links}

ListsFrom(n, r) == {[to |-> m, peers |-> r] : m \in Peers(n)}

Idle(n) == up[n] /\ todo[n] = "idle"

\* save_encrypted empties the file before it writes the new content.
StartSave(n, r, next) ==
    /\ reg' = [reg EXCEPT ![n] = r]
    /\ file' = [file EXCEPT ![n] = Torn]
    /\ todo' = [todo EXCEPT ![n] = next]

\* Mutant: the links of the other nodes stay.
DownKeepingLinks(n) ==
    /\ up' = [up EXCEPT ![n] = FALSE]
    /\ reg' = [reg EXCEPT ![n] = Empty]
    /\ todo' = [todo EXCEPT ![n] = "idle"]
    /\ links' = {p \in links : p[1] # n}

\* The end of the process takes its registry and its connections.
Down(n) ==
    /\ up' = [up EXCEPT ![n] = FALSE]
    /\ reg' = [reg EXCEPT ![n] = Empty]
    /\ todo' = [todo EXCEPT ![n] = "idle"]
    /\ links' = {p \in links : n \notin {p[1], p[2]}}

\* The save ends and the handler goes on.
FinishSave(n) ==
    /\ todo[n] # "idle"
    /\ file' = [file EXCEPT ![n] = reg[n]]
    /\ IF todo[n] = "leave"
       THEN /\ Down(n)
            /\ lists' = {l \in lists : l.to # n}
       ELSE /\ todo' = [todo EXCEPT ![n] = "idle"]
            /\ lists' = IF todo[n] = "rest" THEN lists ELSE lists \cup ListsFrom(n, reg[n])
            /\ UNCHANGED <<up, reg, links>>
    /\ UNCHANGED <<now, faults>>

-----------------------------------------------------------------------------
(* The event loop.                                                         *)

\* run_p2p up to its loop.  A file that cannot be read ends it with an error.  The
\* launcher's listen address, 0.0.0.0, is not registered (ensure_self).
Start(n) ==
    /\ ~up[n]
    /\ file[n] # Torn
    /\ up' = [up EXCEPT ![n] = TRUE]
    /\ StartSave(n, Refresh(Load(n)), "rest")
    /\ UNCHANGED <<links, lists, now, faults>>

\* An address is recorded; only a new one is saved.
Record(n, a, next) ==
    /\ IsNew(reg[n], a)
    /\ StartSave(n, [reg[n] EXCEPT ![a] = now], next)

\* UPnP found the node's own public address.
UpnpAddr(n, a) ==
    /\ Idle(n)
    /\ a \in Listen[n]
    /\ Record(n, a, "publish")
    /\ UNCHANGED <<up, links, lists, now, faults>>

\* identify tells a listen address of a connected peer.
Identify(n, m, a) ==
    /\ Idle(n) /\ m \in Peers(n)
    /\ a \in Listen[m]
    /\ Record(n, a, "rest")
    /\ UNCHANGED <<up, links, lists, now, faults>>

\* ConnectionEstablished: n sees its peer m at address a.  It publishes its registry
\* whether the address is new or not.
Established(n, m, a) ==
    /\ Idle(n)
    /\ <<n, m>> \notin links
    /\ links' = links \cup {<<n, m>>}
    /\ \/ Record(n, a, "publish") /\ UNCHANGED lists
       \/ /\ ~IsNew(reg[n], a)
          /\ lists' = lists \cup {[to |-> k, peers |-> reg[n]] : k \in Peers(n) \cup {m}}
          /\ UNCHANGED <<reg, file, todo>>
    /\ UNCHANGED <<up, now, faults>>

\* n reaches m at an address of a list, or at a target of startup and peer_search.
Dial(n, m, a) ==
    /\ m # n /\ up[m] /\ Owner[a] = m
    /\ a \in DialTargets(reg[n]) \cup Known(reg[n])
    /\ Established(n, m, WithPeer[a])

\* n learns that m has reached it, and sees m at the other end of the connection.
Dialled(n, m, a) ==
    /\ <<m, n>> \in links /\ a \in Endpoint[m]
    /\ Established(n, m, a)

\* Mutant: the list is saved only if it brings several entries.
SavesSeveral(n, peers) == Cardinality({a \in Known(peers) : IsNew(reg[n], a)}) > 1

\* added > 0.
Saves(n, peers) == \E a \in Known(peers) : IsNew(reg[n], a)

\* The PeerList arm: earlier times alone are kept in memory only; every list is
\* answered with a list, and the node ends if nobody is left to publish it to.
HandleList(n) ==
    \E l \in {l \in lists : l.to = n} :
        LET merged == Merge(reg[n], l.peers) IN
        /\ Idle(n)
        /\ IF Saves(n, l.peers)
           THEN /\ StartSave(n, merged, IF Peers(n) = {} THEN "leave" ELSE "publish")
                /\ lists' = lists \ {l}
                /\ UNCHANGED <<up, links>>
           ELSE IF Peers(n) = {}
           THEN /\ Down(n)
                /\ lists' = {k \in lists : k.to # n}
                /\ UNCHANGED file
           ELSE /\ reg' = [reg EXCEPT ![n] = merged]
                /\ lists' = (lists \ {l}) \cup ListsFrom(n, merged)
                /\ UNCHANGED <<up, file, todo, links>>
        /\ UNCHANGED <<now, faults>>

\* peer_search: a node that has no peer dials all its targets, and may reach one; ...
Search(n) ==
    /\ Peers(n) = {}
    /\ \E m \in Nodes, a \in DialTargets(reg[n]) : Dial(n, m, a)

\* ... and a node that has one publishes its registry.
PeerSearch(n) ==
    /\ Idle(n)
    /\ lists' = lists \cup ListsFrom(n, reg[n])
    /\ UNCHANGED <<up, reg, file, todo, links, now, faults>>

Tick ==
    /\ now < MaxTime
    /\ now' = now + 1
    /\ UNCHANGED <<up, reg, file, todo, links, lists, faults>>

-----------------------------------------------------------------------------
(* Faults.                                                                 *)

Fault == faults < MaxFaults /\ faults' = faults + 1

Kill(n) ==
    /\ Fault
    /\ up[n]
    /\ Down(n)
    /\ lists' = {l \in lists : l.to # n}
    /\ UNCHANGED <<file, now>>

Disconnect ==
    /\ Fault
    /\ \E n, m \in Nodes : /\ <<n, m>> \in links
                          /\ links' = links \ {<<n, m>>, <<m, n>>}
    /\ UNCHANGED <<up, reg, file, todo, lists, now>>

Lose ==
    /\ Fault
    /\ \E l \in lists : lists' = lists \ {l}
    /\ UNCHANGED <<up, reg, file, todo, links, now>>

Next ==
    \/ \E n \in Nodes : Start(n) \/ FinishSave(n) \/ HandleList(n) \/ PeerSearch(n) \/ Kill(n)
    \/ \E n \in Nodes, a \in Addrs : UpnpAddr(n, a)
    \/ \E n, m \in Nodes, a \in Addrs : Identify(n, m, a) \/ Dial(n, m, a) \/ Dialled(n, m, a)
    \/ Tick \/ Disconnect \/ Lose

Spec == Init /\ [][Next]_vars

\* A node is started, its loop goes round, and it dials until it has a peer.
Fairness ==
    /\ \A n \in Nodes :
        /\ WF_vars(Start(n))
        /\ WF_vars(FinishSave(n))
        /\ SF_vars(\E m \in Nodes, a \in Addrs : Dialled(n, m, a))
        /\ SF_vars(HandleList(n))
        /\ SF_vars(PeerSearch(n))
        /\ SF_vars(Search(n))

FairSpec == Spec /\ Fairness

-----------------------------------------------------------------------------
(* Properties.                                                             *)

\* No address a running node has learned is lost by a kill: it is in the file as soon
\* as the handler that learned it is done (peer_registry.rs:124-127).
EntriesSaved ==
    \A n \in Nodes : Idle(n) => Known(reg[n]) \subseteq Known(file[n])

\* The pools meet: unless a file was torn, all nodes end up holding the same addresses
\* with the same, oldest times, whatever was lost and whoever restarted
\* (peer_registry.rs:76, p2p.rs:676-694).
PoolsConverge ==
    <>[](\A n, m \in Nodes :
            up[n] /\ up[m] /\ todo[n] = "idle" /\ todo[m] = "idle" => reg[n] = reg[m])
=============================================================================
