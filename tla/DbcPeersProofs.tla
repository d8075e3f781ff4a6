--------------------------- MODULE DbcPeersProofs ---------------------------
(***************************************************************************)
(* Theorems about the peer pool (DbcPeers), for every set of nodes and     *)
(* addresses.                                                              *)
(***************************************************************************)
EXTENDS DbcPeers, TLAPS

USE DEF Registry, Times, Never

\* The parts of TypeOK, one for each group of variables that a step changes.
FilesOK ==
    /\ DOMAIN file = Nodes
    /\ \A n \in Nodes : file[n] \in Registry \cup {NoFile, Torn}

WorkOK ==
    /\ todo \in [Nodes -> {"idle", "rest", "publish", "leave"}]
    /\ \A n \in Nodes : ~up[n] => todo[n] = "idle"

LinksOK ==
    /\ links \subseteq Nodes \X Nodes
    /\ \A n, m \in Nodes : <<n, m>> \in links => up[n] /\ up[m]

ListsOK ==
    /\ lists \subseteq PeerList
    /\ \A l \in lists : up[l.to]

CountsOK == now \in Times /\ faults \in 0..MaxFaults

Parts ==
    /\ up \in [Nodes -> BOOLEAN] /\ reg \in [Nodes -> Registry]
    /\ FilesOK /\ WorkOK /\ LinksOK /\ ListsOK /\ CountsOK

LEMMA TypeParts == TypeOK <=> Parts
  <1>1. lists \subseteq PeerList =>
            ((\A n \in Nodes : ~up[n] => \A l \in lists : l.to # n) <=> \A l \in lists : up[l.to])
    BY DEF PeerList
  <1> QED
    BY <1>1 DEF TypeOK, Parts, FilesOK, WorkOK, LinksOK, ListsOK, CountsOK

LEMMA MergeTypes ==
    ASSUME NEW r \in Registry, NEW p \in Registry
    PROVE  Merge(r, p) \in Registry
  BY DEF Merge

LEMMA LoadTypes ==
    ASSUME FilesOK, NEW n \in Nodes, file[n] # Torn
    PROVE  Load(n) \in Registry
  <1>1. file[n] \in Registry \cup {NoFile, Torn}
    BY DEF FilesOK
  <1>2. CASE file[n] = NoFile
    BY <1>2, PeerAssumption DEF Load, PeerAssumption
  <1>3. CASE file[n] # NoFile
    BY <1>1, <1>3 DEF Load
  <1> QED
    BY <1>2, <1>3

LEMMA RefreshTypes ==
    ASSUME CountsOK, NEW r \in Registry
    PROVE  Refresh(r) \in Registry
  BY DEF Refresh, CountsOK

\* Lists sent to running nodes.
LEMMA SendTypes ==
    ASSUME Parts, NEW M \in SUBSET Nodes, \A m \in M : up[m], NEW r \in Registry,
           NEW old \in SUBSET lists, UNCHANGED up,
           lists' = old \cup {[to |-> m, peers |-> r] : m \in M}
    PROVE  ListsOK'
  <1>1. \A m \in M : [to |-> m, peers |-> r] \in [to : Nodes, peers : Registry]
    OBVIOUS
  <1> QED
    BY <1>1 DEF PeerList, Parts, ListsOK

LEMMA PeersAreUp ==
    ASSUME Parts, NEW n \in Nodes
    PROVE  Peers(n) \in SUBSET Nodes /\ \A m \in Peers(n) : up[m]
  BY DEF Peers, Parts, LinksOK

\* A running node starts a save.
LEMMA SaveTypes ==
    ASSUME Parts, NEW n \in Nodes, NEW r \in Registry,
           NEW next \in {"rest", "publish", "leave"}, StartSave(n, r, next), up'[n],
           \A m \in Nodes \ {n} : up'[m] = up[m]
    PROVE  reg' \in [Nodes -> Registry] /\ FilesOK' /\ WorkOK'
  <1>1. \A m \in Nodes : file'[m] = IF m = n THEN Torn ELSE file[m]
    BY DEF StartSave, Parts, FilesOK
  <1>2. FilesOK'
    BY <1>1 DEF StartSave, Parts, FilesOK
  <1>3. WorkOK'
    BY DEF StartSave, Parts, WorkOK
  <1>4. reg' \in [Nodes -> Registry]
    BY DEF StartSave, Parts
  <1> QED
    BY <1>2, <1>3, <1>4

LEMMA DownTypes ==
    ASSUME Parts, NEW n \in Nodes, Down(n), lists' = {l \in lists : l.to # n}
    PROVE  /\ up' \in [Nodes -> BOOLEAN] /\ reg' \in [Nodes -> Registry]
           /\ WorkOK' /\ LinksOK' /\ ListsOK'
  <1>1. Empty \in Registry
    BY PeerAssumption DEF PeerAssumption, Empty
  <1>2. up' \in [Nodes -> BOOLEAN] /\ reg' \in [Nodes -> Registry]
    BY <1>1 DEF Down, Parts
  <1>3. WorkOK'
    BY DEF Down, Parts, WorkOK
  <1>4. LinksOK'
    BY DEF Down, Parts, LinksOK
  <1>5. ListsOK'
    BY DEF Down, Parts, ListsOK, PeerList
  <1> QED
    BY <1>2, <1>3, <1>4, <1>5

-----------------------------------------------------------------------------
(* Type correctness, one lemma for each action that sends or saves.        *)

LEMMA FinishTypes ==
    ASSUME Parts, NEW n \in Nodes, FinishSave(n)
    PROVE  Parts'
  <1>1. up[n] /\ reg[n] \in Registry
    BY DEF FinishSave, Parts, WorkOK
  <1>2. FilesOK' /\ CountsOK'
    <2>1. \A m \in Nodes : file'[m] = IF m = n THEN reg[n] ELSE file[m]
      BY DEF FinishSave, Parts, FilesOK
    <2> QED
      BY <1>1, <2>1 DEF FinishSave, Parts, FilesOK, CountsOK
  <1>3. CASE todo[n] = "leave"
    BY <1>2, <1>3, DownTypes DEF FinishSave, Parts
  <1>4. CASE todo[n] # "leave"
    <2>1. UNCHANGED <<up, reg, links>>
      BY <1>4 DEF FinishSave
    <2>2. ASSUME lists' = lists PROVE ListsOK'
      BY <2>1, <2>2 DEF Parts, ListsOK
    <2>3. ASSUME lists' = lists \cup {[to |-> m, peers |-> reg[n]] : m \in Peers(n)}
          PROVE  ListsOK'
      <3>1. /\ Peers(n) \in SUBSET Nodes /\ \A m \in Peers(n) : up[m]
            /\ lists \in SUBSET lists /\ UNCHANGED up
        BY <2>1, PeersAreUp
      <3> QED
        BY <1>1, <2>3, <3>1, SendTypes
    <2>5. ListsOK'
      BY <1>4, <2>2, <2>3 DEF FinishSave, ListsFrom
    <2>4. WorkOK' /\ LinksOK'
      BY <1>1, <1>4, <2>1 DEF FinishSave, Parts, WorkOK, LinksOK
    <2> QED
      BY <1>2, <2>1, <2>4, <2>5 DEF Parts
  <1> QED
    BY <1>3, <1>4

LEMMA StartTypes ==
    ASSUME Parts, NEW n \in Nodes, Start(n)
    PROVE  Parts'
  <1>1. Refresh(Load(n)) \in Registry
    BY LoadTypes, RefreshTypes DEF Start, Parts
  <1>2. /\ up' \in [Nodes -> BOOLEAN] /\ up'[n]
        /\ \A m \in Nodes : up[m] => up'[m]
        /\ \A m \in Nodes \ {n} : up'[m] = up[m]
    BY DEF Start, Parts
  <1>3. reg' \in [Nodes -> Registry] /\ FilesOK' /\ WorkOK'
    BY <1>1, <1>2, SaveTypes DEF Start
  <1>4. LinksOK' /\ ListsOK' /\ CountsOK'
    BY <1>2 DEF Start, Parts, LinksOK, ListsOK, CountsOK, PeerList
  <1> QED
    BY <1>2, <1>3, <1>4 DEF Parts

LEMMA RecordTypes ==
    ASSUME Parts, NEW n \in Nodes, NEW a \in Addrs, up[n], UNCHANGED up,
           NEW next \in {"rest", "publish"}, Record(n, a, next)
    PROVE  reg' \in [Nodes -> Registry] /\ FilesOK' /\ WorkOK'
  <1>1. [reg[n] EXCEPT ![a] = now] \in Registry
    BY DEF Parts, CountsOK
  <1> QED
    BY <1>1, SaveTypes DEF Record

LEMMA EstablishedTypes ==
    ASSUME Parts, NEW n \in Nodes, NEW m \in Nodes, NEW a \in Addrs,
           up[m], Established(n, m, a)
    PROVE  Parts'
  <1>1. up[n] /\ UNCHANGED up /\ LinksOK' /\ CountsOK'
    BY DEF Established, Idle, Parts, LinksOK, CountsOK
  <1>2. CASE Record(n, a, "publish") /\ UNCHANGED lists
    <2>1. ListsOK'
      BY <1>1, <1>2 DEF Parts, ListsOK
    <2> QED
      BY <1>1, <1>2, <2>1, RecordTypes DEF Parts
  <1>3. CASE lists' = lists \cup {[to |-> k, peers |-> reg[n]] : k \in Peers(n) \cup {m}}
             /\ UNCHANGED <<reg, file, todo>>
    <2>1. reg[n] \in Registry /\ Peers(n) \cup {m} \in SUBSET Nodes
          /\ \A k \in Peers(n) \cup {m} : up[k]
      BY PeersAreUp DEF Parts
    <2>2. ListsOK'
      BY <1>1, <1>3, <2>1, SendTypes
    <2>3. FilesOK' /\ WorkOK'
      BY <1>1, <1>3 DEF Parts, FilesOK, WorkOK
    <2> QED
      BY <1>1, <1>3, <2>2, <2>3 DEF Parts
  <1> QED
    BY <1>2, <1>3 DEF Established

LEMMA SearchTypes ==
    ASSUME Parts, NEW n \in Nodes, PeerSearch(n)
    PROVE  Parts'
  <1>1. lists' = lists \cup {[to |-> m, peers |-> reg[n]] : m \in Peers(n)}
    BY DEF PeerSearch, ListsFrom
  <1>2. /\ reg[n] \in Registry /\ lists \in SUBSET lists
        /\ Peers(n) \in SUBSET Nodes /\ \A m \in Peers(n) : up[m]
    BY PeersAreUp DEF Parts
  <1>3. UNCHANGED <<up, reg, file, todo, links, now, faults>>
    BY DEF PeerSearch
  <1>4. ListsOK'
    BY <1>1, <1>2, <1>3, SendTypes
  <1> QED
    BY <1>3, <1>4 DEF Parts, FilesOK, WorkOK, LinksOK, CountsOK

\* The three outcomes of a list.
LEMMA HandleCases ==
    ASSUME NEW n \in Nodes, HandleList(n)
    PROVE  \E l \in lists :
             /\ l.to = n /\ Idle(n) /\ UNCHANGED <<now, faults>>
             /\ \/ \E next \in {"leave", "publish"} :
                     /\ StartSave(n, Merge(reg[n], l.peers), next)
                     /\ lists' = lists \ {l} /\ UNCHANGED <<up, links>>
                \/ Down(n) /\ lists' = {k \in lists : k.to # n} /\ UNCHANGED file
                \/ /\ ~Saves(n, l.peers)
                   /\ reg' = [reg EXCEPT ![n] = Merge(reg[n], l.peers)]
                   /\ lists' = (lists \ {l}) \cup ListsFrom(n, Merge(reg[n], l.peers))
                   /\ UNCHANGED <<up, file, todo, links>>
  BY DEF HandleList

LEMMA HandleTypes ==
    ASSUME Parts, NEW n \in Nodes, HandleList(n)
    PROVE  Parts'
  <1> PICK l \in lists :
             /\ l.to = n /\ Idle(n) /\ UNCHANGED <<now, faults>>
             /\ \/ \E next \in {"leave", "publish"} :
                     /\ StartSave(n, Merge(reg[n], l.peers), next)
                     /\ lists' = lists \ {l} /\ UNCHANGED <<up, links>>
                \/ Down(n) /\ lists' = {k \in lists : k.to # n} /\ UNCHANGED file
                \/ /\ ~Saves(n, l.peers)
                   /\ reg' = [reg EXCEPT ![n] = Merge(reg[n], l.peers)]
                   /\ lists' = (lists \ {l}) \cup ListsFrom(n, Merge(reg[n], l.peers))
                   /\ UNCHANGED <<up, file, todo, links>>
    BY HandleCases
  <1> DEFINE merged == Merge(reg[n], l.peers)
  <1>1. up[n] /\ reg[n] \in Registry /\ l.peers \in Registry
    BY DEF Idle, Parts, ListsOK, PeerList
  <1>2. merged \in Registry
    BY <1>1, MergeTypes
  <1>3. CountsOK'
    BY DEF Parts, CountsOK
  <1> HIDE DEF merged
  <1>4. ASSUME NEW next \in {"leave", "publish"}, StartSave(n, merged, next),
               lists' = lists \ {l}, UNCHANGED <<up, links>>
        PROVE  Parts'
    <2>1. reg' \in [Nodes -> Registry] /\ FilesOK' /\ WorkOK'
      BY <1>1, <1>2, <1>4, SaveTypes
    <2>2. LinksOK' /\ ListsOK'
      BY <1>4 DEF Parts, LinksOK, ListsOK
    <2> QED
      BY <1>3, <1>4, <2>1, <2>2 DEF Parts
  <1>5. CASE Down(n) /\ lists' = {k \in lists : k.to # n} /\ UNCHANGED file
    <2>1. FilesOK'
      BY <1>5 DEF Parts, FilesOK
    <2> QED
      BY <1>3, <1>5, <2>1, DownTypes DEF Parts
  <1>6. CASE /\ reg' = [reg EXCEPT ![n] = merged]
             /\ lists' = (lists \ {l}) \cup ListsFrom(n, merged)
             /\ UNCHANGED <<up, file, todo, links>>
    <2>1. ListsOK'
      <3>1. lists' = (lists \ {l}) \cup {[to |-> m, peers |-> merged] : m \in Peers(n)}
        BY <1>6 DEF ListsFrom
      <3>2. /\ Peers(n) \in SUBSET Nodes /\ \A m \in Peers(n) : up[m]
            /\ lists \ {l} \in SUBSET lists /\ UNCHANGED up
        BY <1>6, PeersAreUp
      <3> QED
        BY <1>2, <3>1, <3>2, SendTypes
    <2>2. FilesOK' /\ WorkOK' /\ LinksOK'
      BY <1>6 DEF Parts, FilesOK, WorkOK, LinksOK
    <2> QED
      BY <1>2, <1>3, <1>6, <2>1, <2>2 DEF Parts
  <1> QED
    BY <1>4, <1>5, <1>6 DEF merged

-----------------------------------------------------------------------------
(* The theorems.                                                           *)

LEMMA InitTypes == Init => Parts
  <1> SUFFICES ASSUME Init PROVE Parts
    OBVIOUS
  <1>1. reg \in [Nodes -> Registry]
    BY PeerAssumption DEF PeerAssumption, Init, Empty
  <1>2. FilesOK /\ WorkOK /\ LinksOK /\ ListsOK /\ CountsOK
    BY PeerAssumption DEF PeerAssumption, Init, FilesOK, WorkOK, LinksOK, ListsOK, CountsOK
  <1> QED
    BY <1>1, <1>2 DEF Init, Parts

LEMMA StepTypes == Parts /\ [Next]_vars => Parts'
  <1> SUFFICES ASSUME Parts, [Next]_vars PROVE Parts'
    OBVIOUS
  <1> USE DEF Parts, FilesOK, WorkOK, LinksOK, ListsOK, CountsOK
  <1>1. ASSUME NEW n \in Nodes, FinishSave(n) PROVE Parts'
    BY <1>1, FinishTypes
  <1>2. ASSUME NEW n \in Nodes, Start(n) PROVE Parts'
    BY <1>2, StartTypes
  <1>3. ASSUME NEW n \in Nodes, HandleList(n) PROVE Parts'
    BY <1>3, HandleTypes
  <1>4. ASSUME NEW n \in Nodes, PeerSearch(n) PROVE Parts'
    BY <1>4, SearchTypes
  <1>5. ASSUME NEW n \in Nodes, Kill(n) PROVE Parts'
    <2>1. FilesOK' /\ CountsOK'
      BY <1>5, PeerAssumption DEF Kill, Fault, PeerAssumption
    <2> QED
      BY <1>5, <2>1, DownTypes DEF Kill
  <1>6. ASSUME NEW n \in Nodes, NEW a \in Addrs, UpnpAddr(n, a) PROVE Parts'
    <2>1. up[n] /\ UNCHANGED <<up, links, lists, now, faults>> /\ Record(n, a, "publish")
      BY <1>6 DEF UpnpAddr, Idle
    <2> QED
      BY <2>1, RecordTypes
  <1>7. ASSUME NEW n \in Nodes, NEW m \in Nodes, NEW a \in Addrs, Identify(n, m, a) PROVE Parts'
    <2>1. up[n] /\ UNCHANGED <<up, links, lists, now, faults>> /\ Record(n, a, "rest")
      BY <1>7 DEF Identify, Idle
    <2> QED
      BY <2>1, RecordTypes
  <1>8. ASSUME NEW n \in Nodes, NEW m \in Nodes, NEW a \in Addrs, Dial(n, m, a) PROVE Parts'
    <2>1. WithPeer[a] \in Addrs /\ up[m] /\ Established(n, m, WithPeer[a])
      BY <1>8, PeerAssumption DEF Dial, PeerAssumption
    <2> QED
      BY <2>1, EstablishedTypes
  <1>9. ASSUME NEW n \in Nodes, NEW m \in Nodes, NEW a \in Addrs, Dialled(n, m, a) PROVE Parts'
    <2>1. up[m] /\ Established(n, m, a)
      BY <1>9 DEF Dialled
    <2> QED
      BY <2>1, EstablishedTypes
  <1>10. CASE Tick
    BY <1>10, PeerAssumption DEF Tick, PeerAssumption
  <1>11. CASE Disconnect
    BY <1>11, PeerAssumption DEF Disconnect, Fault, PeerAssumption
  <1>12. CASE Lose
    BY <1>12, PeerAssumption DEF Lose, Fault, PeerAssumption
  <1>13. CASE UNCHANGED vars
    BY <1>13 DEF vars
  <1> QED
    BY <1>1, <1>2, <1>3, <1>4, <1>5, <1>6, <1>7, <1>8, <1>9, <1>10, <1>11, <1>12, <1>13 DEF Next

\* The variables keep their types, and nothing of a node that is down stays in memory.
THEOREM PeersTypes == Spec => []TypeOK
  <1>1. Spec => []Parts
    BY InitTypes, StepTypes, PTL DEF Spec
  <1> QED
    BY <1>1, TypeParts, PTL

-----------------------------------------------------------------------------

\* A list that adds no address leaves the known ones as they are.
LEMMA MergeKnown ==
    ASSUME NEW n \in Nodes, reg[n] \in Registry, NEW p \in Registry, ~Saves(n, p)
    PROVE  Known(Merge(reg[n], p)) \subseteq Known(reg[n])
  <1> SUFFICES ASSUME NEW a \in Addrs, Merge(reg[n], p)[a] # Never, reg[n][a] = Never
               PROVE  FALSE
    BY DEF Known
  <1>1. a \notin Undialable /\ p[a] < reg[n][a]
    BY DEF Merge
  <1>2. a \in Known(p) /\ IsNew(reg[n], a)
    BY <1>1, PeerAssumption DEF Known, IsNew, PeerAssumption
  <1> QED
    BY <1>2 DEF Saves

\* A step that starts a save keeps EntriesSaved: the node is not idle after it.
LEMMA SaveKeepsSaved ==
    ASSUME Parts, EntriesSaved, NEW n \in Nodes, NEW r, NEW next \in {"rest", "publish", "leave"},
           StartSave(n, r, next), \A m \in Nodes \ {n} : up'[m] = up[m]
    PROVE  EntriesSaved'
  <1> SUFFICES ASSUME NEW m \in Nodes, Idle(m)' PROVE Known(reg[m])' \subseteq Known(file[m])'
    BY DEF EntriesSaved
  <1>1. m # n
    BY DEF StartSave, Idle, Parts, WorkOK
  <1>2. Idle(m) /\ reg'[m] = reg[m] /\ file'[m] = file[m]
    BY <1>1 DEF StartSave, Idle, Parts, WorkOK, FilesOK
  <1> QED
    BY <1>2 DEF EntriesSaved, Known

\* So does the end of a node, whatever it leaves in its file.
LEMMA DownKeepsSaved ==
    ASSUME Parts, EntriesSaved, NEW n \in Nodes, Down(n),
           \A m \in Nodes \ {n} : file'[m] = file[m]
    PROVE  EntriesSaved'
  <1> SUFFICES ASSUME NEW m \in Nodes, Idle(m)' PROVE Known(reg[m])' \subseteq Known(file[m])'
    BY DEF EntriesSaved
  <1>1. m # n
    BY DEF Down, Idle, Parts
  <1>2. Idle(m) /\ reg'[m] = reg[m] /\ file'[m] = file[m]
    BY <1>1 DEF Down, Idle, Parts, WorkOK
  <1> QED
    BY <1>2 DEF EntriesSaved, Known

\* And a step that touches none of these variables.
LEMMA QuietKeepsSaved ==
    ASSUME EntriesSaved, UNCHANGED <<up, reg, file, todo>>
    PROVE  EntriesSaved'
  BY DEF EntriesSaved, Known, Idle

LEMMA FinishKeepsSaved ==
    ASSUME Parts, EntriesSaved, NEW n \in Nodes, FinishSave(n)
    PROVE  EntriesSaved'
  <1>1. \A m \in Nodes : file'[m] = IF m = n THEN reg[n] ELSE file[m]
    BY DEF FinishSave, Parts, FilesOK
  <1>2. CASE todo[n] = "leave"
    BY <1>1, <1>2, DownKeepsSaved DEF FinishSave
  <1>3. CASE todo[n] # "leave"
    <2> SUFFICES ASSUME NEW m \in Nodes, Idle(m)' PROVE Known(reg[m])' \subseteq Known(file[m])'
      BY DEF EntriesSaved
    <2>1. UNCHANGED <<up, reg>>
      BY <1>3 DEF FinishSave
    <2>2. CASE m = n
      BY <1>1, <2>1, <2>2 DEF Known
    <2>3. CASE m # n
      <3>1. Idle(m) /\ file'[m] = file[m]
        BY <1>1, <1>3, <2>1, <2>3 DEF FinishSave, Idle, Parts, WorkOK
      <3> QED
        BY <2>1, <3>1 DEF EntriesSaved, Known
    <2> QED
      BY <2>2, <2>3
  <1> QED
    BY <1>2, <1>3

LEMMA HandleKeepsSaved ==
    ASSUME Parts, EntriesSaved, NEW n \in Nodes, HandleList(n)
    PROVE  EntriesSaved'
  <1> PICK l \in lists :
             /\ l.to = n /\ Idle(n) /\ UNCHANGED <<now, faults>>
             /\ \/ \E next \in {"leave", "publish"} :
                     /\ StartSave(n, Merge(reg[n], l.peers), next)
                     /\ lists' = lists \ {l} /\ UNCHANGED <<up, links>>
                \/ Down(n) /\ lists' = {k \in lists : k.to # n} /\ UNCHANGED file
                \/ /\ ~Saves(n, l.peers)
                   /\ reg' = [reg EXCEPT ![n] = Merge(reg[n], l.peers)]
                   /\ lists' = (lists \ {l}) \cup ListsFrom(n, Merge(reg[n], l.peers))
                   /\ UNCHANGED <<up, file, todo, links>>
    BY HandleCases
  <1>1. ASSUME NEW next \in {"leave", "publish"}, UNCHANGED up,
               StartSave(n, Merge(reg[n], l.peers), next)
        PROVE  EntriesSaved'
    BY <1>1, SaveKeepsSaved
  <1>2. CASE Down(n) /\ UNCHANGED file
    BY <1>2, DownKeepsSaved
  <1>3. CASE /\ ~Saves(n, l.peers)
             /\ reg' = [reg EXCEPT ![n] = Merge(reg[n], l.peers)]
             /\ UNCHANGED <<up, file, todo>>
    <2>1. reg[n] \in Registry /\ l.peers \in Registry
      BY DEF Parts, ListsOK, PeerList
    <2>2. Known(Merge(reg[n], l.peers)) \subseteq Known(reg[n])
      BY <1>3, <2>1, MergeKnown
    <2> SUFFICES ASSUME NEW m \in Nodes, Idle(m)' PROVE Known(reg[m])' \subseteq Known(file[m])'
      BY DEF EntriesSaved
    <2>3. Idle(m) /\ reg'[m] = IF m = n THEN Merge(reg[n], l.peers) ELSE reg[m]
      BY <1>3 DEF Idle, Parts
    <2>4. Known(reg'[m]) \subseteq Known(reg[m]) /\ file'[m] = file[m]
      BY <1>3, <2>2, <2>3
    <2> QED
      BY <2>3, <2>4 DEF EntriesSaved, Known
  <1> QED
    BY <1>1, <1>2, <1>3

LEMMA EstablishedKeepsSaved ==
    ASSUME Parts, EntriesSaved, NEW n \in Nodes, NEW m \in Nodes, NEW a \in Addrs,
           Established(n, m, a)
    PROVE  EntriesSaved'
  <1>1. CASE Record(n, a, "publish")
    BY <1>1, SaveKeepsSaved DEF Established, Record
  <1>2. CASE UNCHANGED <<reg, file, todo>>
    BY <1>2, QuietKeepsSaved DEF Established
  <1> QED
    BY <1>1, <1>2 DEF Established

LEMMA StepSaved == Parts /\ EntriesSaved /\ [Next]_vars => EntriesSaved'
  <1> SUFFICES ASSUME Parts, EntriesSaved, [Next]_vars PROVE EntriesSaved'
    OBVIOUS
  <1>1. ASSUME NEW n \in Nodes, FinishSave(n) PROVE EntriesSaved'
    BY <1>1, FinishKeepsSaved
  <1>2. ASSUME NEW n \in Nodes, Start(n) PROVE EntriesSaved'
    <2>1. \A m \in Nodes \ {n} : up'[m] = up[m]
      BY <1>2 DEF Start, Parts
    <2> QED
      BY <1>2, <2>1, SaveKeepsSaved DEF Start
  <1>3. ASSUME NEW n \in Nodes, HandleList(n) PROVE EntriesSaved'
    BY <1>3, HandleKeepsSaved
  <1>4. ASSUME NEW n \in Nodes, PeerSearch(n) PROVE EntriesSaved'
    BY <1>4, QuietKeepsSaved DEF PeerSearch
  <1>5. ASSUME NEW n \in Nodes, Kill(n) PROVE EntriesSaved'
    BY <1>5, DownKeepsSaved DEF Kill
  <1>6. ASSUME NEW n \in Nodes, NEW a \in Addrs, UpnpAddr(n, a) PROVE EntriesSaved'
    BY <1>6, SaveKeepsSaved DEF UpnpAddr, Record
  <1>7. ASSUME NEW n \in Nodes, NEW m \in Nodes, NEW a \in Addrs, Identify(n, m, a)
        PROVE  EntriesSaved'
    BY <1>7, SaveKeepsSaved DEF Identify, Record
  <1>8. ASSUME NEW n \in Nodes, NEW m \in Nodes, NEW a \in Addrs, Dial(n, m, a)
        PROVE  EntriesSaved'
    <2>1. WithPeer[a] \in Addrs
      BY PeerAssumption DEF PeerAssumption
    <2> QED
      BY <1>8, <2>1, EstablishedKeepsSaved DEF Dial
  <1>9. ASSUME NEW n \in Nodes, NEW m \in Nodes, NEW a \in Addrs, Dialled(n, m, a)
        PROVE  EntriesSaved'
    BY <1>9, EstablishedKeepsSaved DEF Dialled
  <1>10. CASE Tick \/ Disconnect \/ Lose \/ UNCHANGED vars
    BY <1>10, QuietKeepsSaved DEF Tick, Disconnect, Lose, vars
  <1> QED
    BY <1>1, <1>2, <1>3, <1>4, <1>5, <1>6, <1>7, <1>8, <1>9, <1>10 DEF Next

\* Whatever a running node knows of its peers is in its file whenever no handler is at
\* work, so that no kill at such a time loses an address.
THEOREM EntriesAreSaved == Spec => []EntriesSaved
  <1>1. Init => EntriesSaved
    BY DEF Init, EntriesSaved, Idle
  <1>2. Spec => [](Parts /\ EntriesSaved)
    BY <1>1, InitTypes, StepTypes, StepSaved, PTL DEF Spec
  <1> QED
    BY <1>2, PTL
=============================================================================
