-------------------------- MODULE DbcLauncherProofs --------------------------
(***************************************************************************)
(* Proofs about DbcLauncher: types, who can keep a command from the        *)
(* databases, for whom the node mines, and the recovery phrase on disk.    *)
(*                                                                         *)
(* All four come from the shape of the handlers' programs: a kill comes    *)
(* first and its wait second, a send is followed by its end, and whatever  *)
(* spawns a node saves the address before.  So outside kill and reap a     *)
(* handler runs with no node of its own (NodeInHandler).                   *)
(***************************************************************************)
EXTENDS DbcLauncher, TLAPS

\* What may come next in a program: a kill comes first and its wait second, a send
\* comes between its phrase and its end, and nothing follows a spawn.
Follows(x, y) ==
    /\ y # "kill"
    /\ y = "reap" <=> x = "kill"
    /\ y = "sent" <=> x = "send"
    /\ x = "phrase" => y = "send"
    /\ x # "spawn"

MayEnd(x) == x \notin {"kill", "phrase", "send"}

Shape(s) ==
    /\ \A i \in 1..Len(s) - 1 : Follows(s[i], s[i + 1])
    /\ s # <<>> => MayEnd(s[Len(s)])

Has(s, step) == \E i \in 1..Len(s) : s[i] = step

\* A program that spawns a node saves the address first.
SavesFirst(s) == Has(s, "spawn") => Has(s, "save")

Program(s) == s \in Seq(Steps) /\ Shape(s) /\ SavesFirst(s)

\* While a handler runs, the launcher has a node only until it is killed and waited for.
NodeInHandler ==
    /\ At("kill") => own # "none"
    /\ At("reap") => own \in {"dying", "gone"}
    /\ own = "dying" => At("reap")
    /\ todo # <<>> => At("kill") \/ At("reap") \/ own = "none"
    /\ At("sent") <=> holder = "send"
    /\ ~open => own = "none" /\ todo = <<>>

\* Once a handler is past its save, the address in the box is the one in the file.
SavedBeforeSpawn == Has(todo, "spawn") => Has(todo, "save") \/ payout = walletFile

\* A node that was not killed mines for the address in the file.
NodeMines == own \in {"opening", "running"} => mineCtl /\ nodePayout = walletFile

\* Without faults the phrase is on disk just while its send is next.
PhraseInUse ==
    faults = 0 => phrases \subseteq {"current"} /\ (phrases # {} => At("send"))

\* TypeOK in three parts.
Flags ==
    /\ open \in BOOLEAN /\ error \in BOOLEAN /\ mineCtl \in BOOLEAN
    /\ todo \in Seq(Steps)

Values ==
    /\ payout \in Addresses \cup {NoAddress}
    /\ walletFile \in Addresses \cup {NoAddress}
    /\ nodePayout \in Addresses \cup {NoAddress}
    /\ shown \in NoHeight..MaxTip
    /\ tip \in NoHeight..MaxTip
    /\ nodeLog \in NoHeight..MaxTip
    /\ statusFile \in Torn..MaxTip

Locks ==
    /\ own \in {"none", "opening", "running", "dying", "gone"}
    /\ stray \in {"none", "opening", "running"}
    /\ holder \in {"none", "own", "stray", "send", "serve"}
    /\ refused \in {"none", "own", "stray", "send", "serve"}
    /\ phrases \subseteq {"current", "earlier"}
    /\ faults \in 0..MaxFaults
    /\ own \in {"running", "dying"} <=> holder = "own"
    /\ stray = "running" <=> holder = "stray"

\* The parts are the type invariant.
LEMMA Parts == TypeOK <=> Flags /\ Values /\ Locks
  BY DEF TypeOK, Flags, Values, Locks

LauncherInv ==
    /\ Flags
    /\ Values
    /\ Locks
    /\ Shape(todo)
    /\ NodeInHandler
    /\ SavedBeforeSpawn
    /\ NodeMines
    /\ PhraseInUse
    /\ RefusedOnlyByOthers

-----------------------------------------------------------------------------
(* Programs.                                                               *)

\* What remains of a program after its first step.
LEMMA TailFacts ==
    ASSUME NEW s \in Seq(Steps), s # <<>>, Shape(s)
    PROVE  /\ Tail(s) \in Seq(Steps)
           /\ Shape(Tail(s))
           /\ Tail(s) = <<>> => MayEnd(Head(s))
           /\ Tail(s) # <<>> => Follows(Head(s), Head(Tail(s)))
           /\ Has(Tail(s), "spawn") => Has(s, "spawn")
           /\ Has(s, "save") => Head(s) = "save" \/ Has(Tail(s), "save")
<1> DEFINE r == Tail(s)
<1>1. /\ Len(s) \in Nat /\ Len(s) # 0 /\ r \in Seq(Steps)
      /\ Len(r) = Len(s) - 1
      /\ Head(s) = s[1]
  OBVIOUS
<1>2. \A i \in 1..Len(r) : r[i] = s[i + 1]
  BY <1>1
<1>3. r # <<>> => Len(r) # 0 /\ Head(r) = r[1]
  BY <1>1
<1>4. r = <<>> => Len(r) = 0
  <2>1. Len(<<>>) = 0
    OBVIOUS
  <2> HIDE DEF r
  <2> QED
    BY <2>1
<1> HIDE DEF r
<1>5. ASSUME NEW i \in 1..Len(r) - 1 PROVE Follows(r[i], r[i + 1])
  <2>1. i + 1 \in 1..Len(s) - 1 /\ i \in 1..Len(r) /\ i + 1 \in 1..Len(r)
    BY <1>1
  <2> QED
    BY <2>1, <1>2 DEF Shape
<1>6. r # <<>> => MayEnd(r[Len(r)])
  <2> SUFFICES ASSUME r # <<>> PROVE MayEnd(r[Len(r)])
    OBVIOUS
  <2>1. Len(r) \in 1..Len(r) /\ Len(r) + 1 = Len(s)
    BY <1>1, <1>3
  <2> QED
    BY <2>1, <1>2 DEF Shape
<1>7. r = <<>> => MayEnd(Head(s))
  <2> SUFFICES ASSUME r = <<>> PROVE MayEnd(Head(s))
    OBVIOUS
  <2>1. Len(s) = 1
    BY <1>1, <1>4
  <2> QED
    BY <1>1, <2>1 DEF Shape
<1>8. r # <<>> => Follows(Head(s), Head(r))
  <2> SUFFICES ASSUME r # <<>> PROVE Follows(Head(s), Head(r))
    OBVIOUS
  <2>1. 1 \in 1..Len(s) - 1 /\ 1 \in 1..Len(r) /\ 1 + 1 = 2
    BY <1>1, <1>3
  <2>2. Head(r) = s[2] /\ Follows(s[1], s[2])
    BY <1>2, <1>3, <2>1 DEF Shape
  <2> QED
    BY <1>1, <2>2
<1>9. Has(r, "spawn") => Has(s, "spawn")
  <2> SUFFICES ASSUME NEW i \in 1..Len(r), r[i] = "spawn" PROVE Has(s, "spawn")
    BY DEF Has
  <2>1. i + 1 \in 1..Len(s) /\ s[i + 1] = "spawn"
    BY <1>1, <1>2
  <2> QED
    BY <2>1 DEF Has
<1>10. Has(s, "save") => Head(s) = "save" \/ Has(r, "save")
  <2> SUFFICES ASSUME NEW i \in 1..Len(s), s[i] = "save", s[1] # "save"
               PROVE  Has(r, "save")
    BY <1>1 DEF Has
  <2>1. i - 1 \in 1..Len(r) /\ (i - 1) + 1 = i
    BY <1>1
  <2>2. r[i - 1] = "save"
    BY <1>2, <2>1
  <2> QED
    BY <2>1, <2>2 DEF Has
<1> QED
  BY <1>1, <1>5, <1>6, <1>7, <1>8, <1>9, <1>10 DEF Shape, r

\* Two programs one after the other.
LEMMA JoinedPrograms ==
    ASSUME NEW s \in Seq(Steps), NEW t \in Seq(Steps), s # <<>>, t # <<>>,
           Shape(s), Shape(t), s[Len(s)] # "spawn", t[1] \notin {"kill", "reap", "sent"}
    PROVE  /\ s \o t \in Seq(Steps)
           /\ s \o t # <<>>
           /\ Head(s \o t) = Head(s)
           /\ Shape(s \o t)
           /\ (s \o t)[Len(s \o t)] = t[Len(t)]
           /\ \A step : Has(t, step) => Has(s \o t, step)
<1> DEFINE j == s \o t
<1>1. /\ Len(s) \in Nat /\ Len(t) \in Nat /\ Len(s) # 0 /\ Len(t) # 0
      /\ j \in Seq(Steps) /\ Len(j) = Len(s) + Len(t)
      /\ Head(s) = s[1]
  OBVIOUS
<1>2. /\ \A i \in 1..Len(s) : j[i] = s[i]
      /\ \A i \in 1..Len(t) : j[Len(s) + i] = t[i]
  OBVIOUS
<1>3. j # <<>> => Head(j) = j[1]
  BY <1>1
<1>4. j = <<>> => Len(j) = 0
  OBVIOUS
<1> HIDE DEF j
<1>5. j # <<>> /\ Head(j) = Head(s)
  <2>1. j # <<>> /\ 1 \in 1..Len(s)
    BY <1>1, <1>4
  <2> QED
    BY <1>1, <1>2, <1>3, <2>1
<1>6. j[Len(j)] = t[Len(t)]
  <2>1. Len(t) \in 1..Len(t) /\ Len(j) = Len(s) + Len(t)
    BY <1>1
  <2> QED
    BY <1>2, <2>1
<1>7. ASSUME NEW i \in 1..Len(j) - 1 PROVE Follows(j[i], j[i + 1])
  <2>1. CASE i < Len(s)
    <3>1. i \in 1..Len(s) - 1 /\ i \in 1..Len(s) /\ i + 1 \in 1..Len(s)
      BY <1>1, <2>1
    <3> QED
      BY <1>2, <3>1 DEF Shape
  <2>2. CASE i = Len(s)
    <3>1. i \in 1..Len(s) /\ 1 \in 1..Len(t)
      BY <1>1, <2>2
    <3>2. j[i] = s[Len(s)] /\ j[i + 1] = t[1]
      BY <1>2, <2>2, <3>1
    <3> QED
      BY <3>2 DEF Shape, Follows, MayEnd
  <2>3. CASE i > Len(s)
    <3> DEFINE k == i - Len(s)
    <3>1. /\ k \in 1..Len(t) - 1 /\ k \in 1..Len(t) /\ k + 1 \in 1..Len(t)
          /\ i = Len(s) + k /\ i + 1 = Len(s) + (k + 1)
      BY <1>1, <2>3
    <3> HIDE DEF k
    <3> QED
      BY <1>2, <3>1 DEF Shape
  <2> QED
    BY <1>1, <2>1, <2>2, <2>3
<1>8. ASSUME NEW step, Has(t, step) PROVE Has(j, step)
  <2>1. PICK i \in 1..Len(t) : t[i] = step
    BY <1>8 DEF Has
  <2>2. Len(s) + i \in 1..Len(j) /\ j[Len(s) + i] = step
    BY <1>1, <1>2, <2>1
  <2> QED
    BY <2>2 DEF Has
<1>9. Shape(j)
  BY <1>6, <1>7 DEF Shape
<1> QED
  BY <1>1, <1>5, <1>6, <1>8, <1>9 DEF j

\* The programs the launcher starts with or falls back to.
LEMMA FixedPrograms ==
    /\ Program(StartSteps) /\ StartSteps # <<>> /\ Head(StartSteps) = "save"
    /\ StartSteps[1] = "save" /\ Has(StartSteps, "save")
    /\ Program(StopSteps) /\ StopSteps # <<>> /\ Head(StopSteps) = "kill"
    /\ StopSteps[Len(StopSteps)] = "reap"
    /\ Program(<<>>)
    /\ Program(<<"wallet">>) /\ <<"wallet">> # <<>> /\ Head(<<"wallet">>) = "wallet"
    /\ Program(<<"try genesis", "height">>) /\ ~Has(<<"try genesis", "height">>, "spawn")
    /\ <<"try genesis", "height">> # <<>> /\ Head(<<"try genesis", "height">>) = "try genesis"
<1>1. Shape(StartSteps)
  BY DEF Shape, Follows, MayEnd, StartSteps
<1>2. Shape(StopSteps)
  BY DEF Shape, Follows, MayEnd, StopSteps
<1>3. Shape(<<>>)
  BY DEF Shape, Follows, MayEnd
<1>4. Shape(<<"wallet">>)
  <2>1. Len(<<"wallet">>) = 1 /\ <<"wallet">>[1] = "wallet"
    OBVIOUS
  <2> QED
    BY <2>1 DEF Shape, MayEnd
<1>5. Shape(<<"try genesis", "height">>)
  <2> DEFINE p == <<"try genesis", "height">>
  <2>1. Len(p) = 2 /\ p[1] = "try genesis" /\ p[2] = "height"
    OBVIOUS
  <2> HIDE DEF p
  <2>2. Follows(p[1], p[2]) /\ MayEnd(p[2])
    BY <2>1 DEF Follows, MayEnd
  <2>3. \A i \in 1..(2 - 1) : i = 1 /\ i + 1 = 2
    OBVIOUS
  <2>4. Shape(p)
    BY <2>1, <2>2, <2>3 DEF Shape
  <2> QED
    BY <2>4 DEF p
<1>6. /\ StartSteps \in Seq(Steps) /\ StopSteps \in Seq(Steps) /\ <<>> \in Seq(Steps)
      /\ <<"wallet">> \in Seq(Steps) /\ <<"try genesis", "height">> \in Seq(Steps)
  BY DEF Steps, StartSteps, StopSteps
<1>7. /\ StartSteps # <<>> /\ Head(StartSteps) = "save" /\ StartSteps[1] = "save"
      /\ StopSteps # <<>> /\ Head(StopSteps) = "kill" /\ StopSteps[Len(StopSteps)] = "reap"
      /\ <<"wallet">> # <<>> /\ Head(<<"wallet">>) = "wallet"
      /\ <<"try genesis", "height">> # <<>>
      /\ Head(<<"try genesis", "height">>) = "try genesis"
  BY DEF StartSteps, StopSteps
<1>8. Has(StartSteps, "save")
  <2>1. 1 \in 1..Len(StartSteps)
    BY DEF StartSteps
  <2> QED
    BY <1>7, <2>1 DEF Has
<1>9. ~Has(StopSteps, "spawn")
  <2>1. /\ Len(StopSteps) = 2
        /\ StopSteps[1] # "spawn" /\ StopSteps[2] # "spawn"
    BY DEF StopSteps
  <2> QED
    BY <2>1 DEF Has
<1>10. ~Has(<<>>, "spawn")
  BY DEF Has
<1>11. ~Has(<<"wallet">>, "spawn")
  <2>1. Len(<<"wallet">>) = 1 /\ <<"wallet">>[1] # "spawn"
    OBVIOUS
  <2> QED
    BY <2>1 DEF Has
<1>12. ~Has(<<"try genesis", "height">>, "spawn")
  <2> DEFINE p == <<"try genesis", "height">>
  <2>1. Len(p) = 2 /\ p[1] # "spawn" /\ p[2] # "spawn"
    OBVIOUS
  <2> HIDE DEF p
  <2>2. ~Has(p, "spawn")
    BY <2>1 DEF Has
  <2> QED
    BY <2>2 DEF p
<1> QED
  BY <1>1, <1>2, <1>3, <1>4, <1>5, <1>6, <1>7, <1>8, <1>9, <1>10, <1>11, <1>12
  DEF Program, SavesFirst

\* A body between a stop and a start, or alone.
LEMMA AroundProgram ==
    ASSUME NEW body \in Seq(Steps), body # <<>>, Shape(body), ~Has(body, "spawn"),
           body[1] \notin {"kill", "reap", "sent"}, body[Len(body)] # "spawn"
    PROVE  /\ Program(Around(body))
           /\ Around(body) # <<>>
           /\ Head(Around(body)) = IF NodeRunning THEN "kill" ELSE Head(body)
<1>1. CASE NodeRunning
  <2> DEFINE first == StopSteps \o body
             all == first \o StartSteps
  <2>1. /\ first \in Seq(Steps) /\ first # <<>> /\ Head(first) = "kill"
        /\ Shape(first) /\ first[Len(first)] # "spawn"
    BY FixedPrograms, JoinedPrograms DEF Program
  <2> HIDE DEF first
  <2>2. /\ all \in Seq(Steps) /\ all # <<>> /\ Head(all) = "kill" /\ Shape(all)
        /\ Has(all, "save")
    BY <2>1, FixedPrograms, JoinedPrograms DEF Program
  <2>3. Around(body) = all
    BY <1>1 DEF Around, first
  <2> QED
    BY <1>1, <2>2, <2>3 DEF Program, SavesFirst
<1>2. CASE ~NodeRunning
  BY <1>2 DEF Around, Program, SavesFirst
<1> QED
  BY <1>1, <1>2

\* The programs of Send, Get Balance and View Transactions.
LEMMA BodyPrograms ==
    LET p == <<"phrase", "send", "sent", "height">>
        q == <<"height", "query">>
        r == <<"query">>
    IN  \A body \in {p, q, r} :
           /\ Program(Around(body))
           /\ Around(body) # <<>>
           /\ NodeRunning => Head(Around(body)) = "kill"
           /\ ~NodeRunning => Head(Around(body)) \in {"phrase", "height", "query"}
<1> DEFINE p == <<"phrase", "send", "sent", "height">>
           q == <<"height", "query">>
           r == <<"query">>
           Good(b) == /\ b \in Seq(Steps) /\ b # <<>> /\ Shape(b) /\ ~Has(b, "spawn")
                      /\ b[1] \in {"phrase", "height", "query"} /\ Head(b) = b[1]
                      /\ b[Len(b)] # "spawn"
<1>1. Good(p)
  <2>1. /\ Len(p) = 4 /\ p \in Seq(Steps) /\ p # <<>> /\ Head(p) = p[1]
        /\ p[1] = "phrase" /\ p[2] = "send" /\ p[3] = "sent" /\ p[4] = "height"
    BY DEF Steps
  <2> HIDE DEF p
  <2>2. Shape(p) /\ ~Has(p, "spawn")
    BY <2>1 DEF Shape, Follows, MayEnd, Has
  <2> QED
    BY <2>1, <2>2
<1>2. Good(q)
  <2>1. /\ Len(q) = 2 /\ q \in Seq(Steps) /\ q # <<>> /\ Head(q) = q[1]
        /\ q[1] = "height" /\ q[2] = "query"
    BY DEF Steps
  <2> HIDE DEF q
  <2>2. Shape(q) /\ ~Has(q, "spawn")
    BY <2>1 DEF Shape, Follows, MayEnd, Has
  <2> QED
    BY <2>1, <2>2
<1>3. Good(r)
  <2>1. /\ Len(r) = 1 /\ r \in Seq(Steps) /\ r # <<>> /\ Head(r) = r[1]
        /\ r[1] = "query"
    BY DEF Steps
  <2> HIDE DEF r
  <2>2. Shape(r) /\ ~Has(r, "spawn")
    BY <2>1 DEF Shape, MayEnd, Has
  <2> QED
    BY <2>1, <2>2
<1> HIDE DEF p, q, r
<1> SUFFICES ASSUME NEW body \in {p, q, r}
             PROVE  /\ Program(Around(body))
                    /\ Around(body) # <<>>
                    /\ NodeRunning => Head(Around(body)) = "kill"
                    /\ ~NodeRunning => Head(Around(body)) \in {"phrase", "height", "query"}
  BY DEF p, q, r
<1>4. Good(body)
  BY <1>1, <1>2, <1>3
<1> HIDE DEF Good
<1>5. /\ body \in Seq(Steps) /\ body # <<>> /\ Shape(body) /\ ~Has(body, "spawn")
      /\ body[1] \notin {"kill", "reap", "sent"} /\ body[Len(body)] # "spawn"
      /\ Head(body) \in {"phrase", "height", "query"}
  BY <1>4 DEF Good
<1> QED
  BY <1>5, AroundProgram

-----------------------------------------------------------------------------
(* One step.                                                               *)

\* What the rest of the program looks like when a step is done.
LEMMA NextStep ==
    ASSUME Flags, Shape(todo), todo # <<>>, todo' = Tail(todo)
    PROVE  /\ todo' \in Seq(Steps)
           /\ Shape(todo')
           /\ ~At("kill")'
           /\ At("reap")' <=> At("kill")
           /\ At("sent")' <=> At("send")
           /\ At("phrase") => At("send")'
           /\ At("spawn") => todo' = <<>>
           /\ Has(todo', "spawn") => Has(todo, "spawn")
           /\ Has(todo, "save") => At("save") \/ Has(todo', "save")
<1> DEFINE r == Tail(todo)
<1>1. /\ r \in Seq(Steps) /\ Shape(r)
      /\ r = <<>> => MayEnd(Head(todo))
      /\ r # <<>> => Follows(Head(todo), Head(r))
      /\ Has(r, "spawn") => Has(todo, "spawn")
      /\ Has(todo, "save") => Head(todo) = "save" \/ Has(r, "save")
  BY TailFacts DEF Flags
<1> HIDE DEF r
<1>2. todo' = r
  BY DEF r
<1>3. \A x : At(x)' <=> r # <<>> /\ Head(r) = x
  BY <1>2 DEF At
<1>4. \A x : At(x) <=> Head(todo) = x
  BY DEF At
<1>5. /\ ~At("kill")'
      /\ At("reap")' <=> At("kill")
      /\ At("sent")' <=> At("send")
      /\ At("phrase") => At("send")'
      /\ At("spawn") => r = <<>>
  BY <1>1, <1>3, <1>4 DEF Follows, MayEnd
<1> QED
  BY <1>1, <1>2, <1>4, <1>5

\* What an error leaves of a program.
LEMMA ErrorStep ==
    ASSUME todo' \in {<<>>, RestOfHandler}
    PROVE  /\ todo' \in Seq(Steps)
           /\ Shape(todo')
           /\ \A x \in {"kill", "reap", "sent", "send"} : ~At(x)'
           /\ Has(todo', "spawn") => Has(todo', "save")
<1>1. todo' = <<>> \/ todo' = StartSteps
  BY DEF RestOfHandler
<1>2. CASE todo' = <<>>
  BY <1>2, FixedPrograms DEF At, Program, SavesFirst
<1>3. CASE todo' = StartSteps
  BY <1>3, FixedPrograms DEF At, Program, SavesFirst
<1> QED
  BY <1>1, <1>2, <1>3

\* A new installation.
LEMMA InitInv == Init => LauncherInv
<1> SUFFICES ASSUME Init PROVE LauncherInv
  OBVIOUS
<1>1. todo \in Seq(Steps) /\ Shape(todo)
  BY FixedPrograms DEF Init, Program
<1>2. Flags
  BY <1>1 DEF Init, Flags
<1>3. Values
  BY LauncherAssumption DEF Init, Values, NoHeight, Torn
<1>4. Locks
  BY LauncherAssumption DEF Init, Locks
<1> QED
  BY <1>1, <1>2, <1>3, <1>4
  DEF Init, LauncherInv, NodeInHandler, At, SavedBeforeSpawn, NodeMines, PhraseInUse,
      RefusedOnlyByOthers

\* A button or the opening of the window starts a program.
LEMMA BeginInv ==
    ASSUME LauncherInv, NEW p, Program(p), p # <<>>, Head(p) \notin {"reap", "sent"},
           Head(p) = "kill" <=> own # "none", Begin(p)
    PROVE  LauncherInv'
<1> USE DEF Begin, Idle, uiVars, nodeVars, fileVars
<1>1. Flags' /\ Values' /\ Locks'
  BY DEF LauncherInv, Flags, Values, Locks, Program
<1>2. \A x : At(x)' <=> Head(p) = x
  BY DEF At
<1>3. \A x : ~At(x)
  BY DEF At
<1>4. NodeInHandler'
  BY <1>2, <1>3 DEF LauncherInv, NodeInHandler
<1>5. Shape(todo)' /\ SavedBeforeSpawn'
  BY DEF Program, SavesFirst, SavedBeforeSpawn
<1>6. NodeMines' /\ PhraseInUse' /\ RefusedOnlyByOthers'
  BY <1>3 DEF LauncherInv, NodeMines, PhraseInUse, RefusedOnlyByOthers
<1> QED
  BY <1>1, <1>4, <1>5, <1>6 DEF LauncherInv

Clicks ==
    ClickStart \/ ClickStop \/ ClickSend \/ ClickBalance \/ ClickHistory \/ ClickWallet

\* Every button.
LEMMA ClickInv == LauncherInv /\ Clicks => LauncherInv'
<1> SUFFICES ASSUME LauncherInv, Clicks PROVE LauncherInv'
  OBVIOUS
<1>1. CASE ClickStart
  BY <1>1, FixedPrograms, BeginInv DEF ClickStart, NodeRunning
<1>2. CASE ClickStop
  BY <1>2, FixedPrograms, BeginInv DEF ClickStop, NodeRunning
<1>3. CASE ClickWallet
  BY <1>3, FixedPrograms, BeginInv DEF ClickWallet, NodeRunning
<1>4. CASE ClickSend \/ ClickBalance \/ ClickHistory
  <2>1. PICK body \in {<<"phrase", "send", "sent", "height">>, <<"height", "query">>,
                       <<"query">>} : Begin(Around(body))
    BY <1>4 DEF ClickSend, ClickBalance, ClickHistory
  <2>2. /\ Program(Around(body)) /\ Around(body) # <<>>
        /\ NodeRunning => Head(Around(body)) = "kill"
        /\ ~NodeRunning => Head(Around(body)) \in {"phrase", "height", "query"}
    BY BodyPrograms
  <2> QED
    BY <2>1, <2>2, BeginInv DEF NodeRunning
<1> QED
  BY <1>1, <1>2, <1>3, <1>4 DEF Clicks

-----------------------------------------------------------------------------
(* The steps of the handlers.                                              *)

\* Where the databases are while a handler runs.
LEMMA InHandler ==
    ASSUME LauncherInv, todo # <<>>
    PROVE  /\ open
           /\ \A x, y : At(x) /\ At(y) => x = y
           /\ ~At("kill") /\ ~At("reap") => own = "none"
           /\ own = "none" /\ ~At("sent") => holder \in {"none", "stray", "serve"}
<1>1. \A x : At(x) <=> Head(todo) = x
  BY DEF At
<1> QED
  BY <1>1 DEF LauncherInv, NodeInHandler, Locks

\* What the steps of a handler that has no node have in common.
Quietly ==
    /\ LauncherInv
    /\ todo # <<>> /\ ~At("kill") /\ ~At("reap")
    /\ own' = own /\ open' = open
    /\ Values' /\ Locks'
    /\ error' \in BOOLEAN /\ mineCtl' \in BOOLEAN
    /\ refused' = refused \/ (refused' = holder /\ ~At("sent"))

\* A step that succeeds and leaves the rest of the program.
LEMMA AdvanceInv ==
    ASSUME Quietly, todo' = Tail(todo), ~At("spawn"),
           holder' = "send" <=> At("send"),
           payout' = payout,
           IF At("save") THEN walletFile' = payout ELSE walletFile' = walletFile,
           faults' = faults,
           \/ phrases' = phrases /\ ~At("send")
           \/ phrases' = phrases \cup {"current"} /\ At("phrase")
           \/ phrases' = phrases \ {"current"}
    PROVE  LauncherInv'
<1>1. /\ open /\ own = "none"
      /\ \A x, y : At(x) /\ At(y) => x = y
      /\ ~At("sent") => holder \in {"none", "stray", "serve"}
  BY InHandler DEF Quietly
<1>2. /\ todo' \in Seq(Steps) /\ Shape(todo')
      /\ ~At("kill")' /\ ~At("reap")'
      /\ At("sent")' <=> At("send")
      /\ At("phrase") => At("send")'
      /\ Has(todo', "spawn") => Has(todo, "spawn")
      /\ Has(todo, "save") => At("save") \/ Has(todo', "save")
  BY NextStep DEF Quietly, LauncherInv
<1>3. Flags' /\ Values' /\ Locks' /\ Shape(todo)'
  BY <1>1, <1>2 DEF Quietly, Flags
<1>4. NodeInHandler'
  <2>1. own' = "none" /\ open'
    BY <1>1 DEF Quietly
  <2> QED
    BY <1>2, <2>1 DEF NodeInHandler
<1>5. SavedBeforeSpawn'
  BY <1>2 DEF Quietly, LauncherInv, SavedBeforeSpawn
<1>6. NodeMines' /\ RefusedOnlyByOthers'
  BY <1>1 DEF Quietly, LauncherInv, NodeMines, RefusedOnlyByOthers
<1>7. PhraseInUse'
  <2> SUFFICES ASSUME faults = 0
               PROVE  phrases' \subseteq {"current"} /\ (phrases' # {} => At("send")')
    BY DEF PhraseInUse
  <2>1. phrases \subseteq {"current"} /\ (phrases # {} => At("send"))
    BY DEF Quietly, LauncherInv, PhraseInUse
  <2> QED
    BY <1>2, <2>1
<1> QED
  BY <1>3, <1>4, <1>5, <1>6, <1>7 DEF LauncherInv

\* A step that fails, or ends the program.
LEMMA ErrorInv ==
    ASSUME Quietly, todo' \in {<<>>, RestOfHandler},
           holder' # "send",
           IF faults' = 0 THEN faults = 0 /\ phrases' \subseteq phrases \ {"current"}
                          ELSE TRUE
    PROVE  LauncherInv'
<1>1. open /\ own = "none" /\ (~At("sent") => holder \in {"none", "stray", "serve"})
  BY InHandler DEF Quietly
<1>2. /\ todo' \in Seq(Steps) /\ Shape(todo')
      /\ ~At("kill")' /\ ~At("reap")' /\ ~At("sent")'
      /\ Has(todo', "spawn") => Has(todo', "save")
  BY ErrorStep
<1>3. Flags' /\ Values' /\ Locks' /\ Shape(todo)'
  BY <1>1, <1>2 DEF Quietly, Flags
<1>4. NodeInHandler'
  <2>1. own' = "none" /\ open'
    BY <1>1 DEF Quietly
  <2> QED
    BY <1>2, <2>1 DEF NodeInHandler
<1>5. SavedBeforeSpawn'
  BY <1>2 DEF SavedBeforeSpawn
<1>6. NodeMines' /\ RefusedOnlyByOthers'
  BY <1>1 DEF Quietly, LauncherInv, NodeMines, RefusedOnlyByOthers
<1>7. PhraseInUse'
  BY DEF Quietly, LauncherInv, PhraseInUse
<1> QED
  BY <1>3, <1>4, <1>5, <1>6, <1>7 DEF LauncherInv

\* The address goes to its file before the node is spawned with it.
LEMMA SaveInv == LauncherInv /\ Save => LauncherInv'
<1> SUFFICES ASSUME LauncherInv, Save PROVE LauncherInv'
  OBVIOUS
<1> USE DEF Save, SaveFails, Complain, uiVars, nodeVars, fileVars
<1>1. At("save") /\ todo # <<>> /\ (\A x, y : At(x) /\ At(y) => x = y)
      /\ holder \in {"none", "stray", "serve"} /\ own = "none"
  <2>1. At("save") /\ todo # <<>>
    BY DEF At
  <2> QED
    BY <2>1, InHandler
<1>2. Values'
  BY DEF LauncherInv, Values
<1>3. Locks'
  BY DEF LauncherInv, Locks
<1>4. Quietly
  BY <1>1, <1>2, <1>3 DEF Quietly, LauncherInv, Flags
<1>5. CASE todo' = <<>>
  <2>1. faults = 0 => phrases = {}
    BY <1>1 DEF LauncherInv, PhraseInUse
  <2> QED
    BY <1>1, <1>4, <1>5, <2>1, ErrorInv
<1>6. CASE walletFile' = payout /\ todo' = Tail(todo)
  BY <1>1, <1>4, <1>6, AdvanceInv
<1> QED
  BY <1>5, <1>6

\* NoHeight is a height the window may show.
LEMMA NoHeightInRange == NoHeight \in NoHeight..MaxTip
  BY LauncherAssumption DEF NoHeight

\* What import-genesis leaves is a height.
LEMMA ImportedInRange ==
    tip \in NoHeight..MaxTip => Imported \in NoHeight..MaxTip
  BY LauncherAssumption DEF Imported, NoHeight

\* ensure_genesis, from default or from spawn_node.
LEMMA GenesisInv == LauncherInv /\ Genesis => LauncherInv'
<1> SUFFICES ASSUME LauncherInv, Genesis PROVE LauncherInv'
  OBVIOUS
<1> USE DEF Genesis, Complain, CanOpen, uiVars, nodeVars, fileVars
<1>1. (At("genesis") \/ At("try genesis")) /\ todo # <<>>
      /\ (\A x, y : At(x) /\ At(y) => x = y)
      /\ holder \in {"none", "stray", "serve"} /\ own = "none"
  <2>1. (At("genesis") \/ At("try genesis")) /\ todo # <<>>
    BY DEF At
  <2> QED
    BY <2>1, InHandler
<1>2. Values'
  <2>1. tip' \in NoHeight..MaxTip
    BY ImportedInRange DEF LauncherInv, Values
  <2> QED
    BY <2>1 DEF LauncherInv, Values
<1>3. Locks'
  BY DEF LauncherInv, Locks
<1>4. Quietly
  BY <1>1, <1>2, <1>3 DEF Quietly, LauncherInv, Flags
<1>5. CASE todo' = <<>>
  <2>1. faults = 0 => phrases = {}
    BY <1>1 DEF LauncherInv, PhraseInUse
  <2> QED
    BY <1>1, <1>4, <1>5, <2>1, ErrorInv
<1>6. CASE todo' = Tail(todo)
  BY <1>1, <1>4, <1>6, AdvanceInv
<1> QED
  BY <1>5, <1>6

\* The two steps that only read.
LEMMA ReadInv == LauncherInv /\ (Height \/ Query) => LauncherInv'
<1> SUFFICES ASSUME LauncherInv, Height \/ Query PROVE LauncherInv'
  OBVIOUS
<1> USE DEF Height, Query, CanOpen, uiVars, nodeVars, fileVars
<1>1. (At("height") \/ At("query")) /\ todo # <<>>
      /\ (\A x, y : At(x) /\ At(y) => x = y)
      /\ holder \in {"none", "stray", "serve"} /\ own = "none"
  <2>1. (At("height") \/ At("query")) /\ todo # <<>>
    BY DEF At
  <2> QED
    BY <2>1, InHandler
<1>2. Values'
  BY DEF LauncherInv, Values
<1>3. Locks'
  BY DEF LauncherInv, Locks
<1>4. Quietly
  BY <1>1, <1>2, <1>3 DEF Quietly, LauncherInv, Flags
<1> QED
  BY <1>1, <1>4, AdvanceInv

\* A node comes up with the saved address and with mine_ctl set.
LEMMA SpawnInv == LauncherInv /\ Spawn => LauncherInv'
<1> SUFFICES ASSUME LauncherInv, Spawn PROVE LauncherInv'
  OBVIOUS
<1> USE DEF Spawn, uiVars, nodeVars, fileVars
<1>1. /\ At("spawn") /\ todo # <<>> /\ Head(todo) = "spawn" /\ own = "none" /\ open
      /\ \A x, y : At(x) /\ At(y) => x = y
      /\ holder \in {"none", "stray", "serve"}
  <2>1. At("spawn") /\ todo # <<>> /\ Head(todo) = "spawn"
    BY DEF At
  <2> QED
    BY <2>1, InHandler
<1>2. todo' = <<>> /\ Shape(todo') /\ (Has(todo, "save") => Has(todo', "save"))
  BY <1>1, NextStep DEF LauncherInv
<1>3. payout = walletFile
  <2>1. Has(todo, "spawn")
    <3>1. Len(todo) # 0 /\ Head(todo) = todo[1] /\ Len(todo) \in Nat
      BY <1>1 DEF LauncherInv, Flags
    <3>2. 1 \in 1..Len(todo)
      BY <3>1
    <3> QED
      BY <1>1, <3>1, <3>2 DEF Has
  <2>2. ~Has(<<>>, "save")
    BY DEF Has
  <2> QED
    BY <1>2, <2>1, <2>2 DEF LauncherInv, SavedBeforeSpawn
<1>4. Flags' /\ Values' /\ Shape(todo)'
  BY <1>2, <1>3, FixedPrograms DEF LauncherInv, Flags, Values, Program
<1>5. Locks'
  BY <1>1 DEF LauncherInv, Locks
<1>6. NodeInHandler' /\ SavedBeforeSpawn' /\ NodeMines'
  BY <1>1, <1>2, <1>3 DEF NodeInHandler, SavedBeforeSpawn, NodeMines, At
<1>7. PhraseInUse' /\ RefusedOnlyByOthers'
  BY <1>1 DEF LauncherInv, PhraseInUse, RefusedOnlyByOthers
<1> QED
  BY <1>4, <1>5, <1>6, <1>7 DEF LauncherInv

\* The node that is killed is dying or gone when its wait is next.
LEMMA KillInv == LauncherInv /\ Kill => LauncherInv'
<1> SUFFICES ASSUME LauncherInv, Kill PROVE LauncherInv'
  OBVIOUS
<1> USE DEF Kill, uiVars, nodeVars, fileVars
<1>1. /\ At("kill") /\ todo # <<>> /\ open
      /\ \A x, y : At(x) /\ At(y) => x = y
      /\ own \in {"opening", "running", "gone"}
  <2>1. At("kill") /\ todo # <<>>
    BY DEF At
  <2>2. open /\ \A x, y : At(x) /\ At(y) => x = y
    BY <2>1, InHandler
  <2> QED
    BY <2>1, <2>2 DEF LauncherInv, NodeInHandler, Locks
<1>2. /\ todo' \in Seq(Steps) /\ Shape(todo') /\ ~At("kill")' /\ At("reap")' /\ ~At("sent")'
      /\ Has(todo', "spawn") => Has(todo, "spawn")
      /\ Has(todo, "save") => Has(todo', "save")
  BY <1>1, NextStep DEF LauncherInv
<1>3. Flags' /\ Values' /\ Shape(todo)'
  BY <1>2 DEF LauncherInv, Flags, Values
<1>4. Locks'
  BY <1>1 DEF LauncherInv, Locks
<1>5. NodeInHandler'
  <2>1. own' \in {"dying", "gone"} /\ open' /\ holder' # "send"
    BY <1>1 DEF LauncherInv, NodeInHandler
  <2> QED
    BY <1>2, <2>1 DEF NodeInHandler
<1>6. SavedBeforeSpawn'
  BY <1>2 DEF LauncherInv, SavedBeforeSpawn
<1>7. NodeMines' /\ PhraseInUse' /\ RefusedOnlyByOthers'
  BY <1>1 DEF LauncherInv, NodeMines, PhraseInUse, RefusedOnlyByOthers
<1> QED
  BY <1>3, <1>4, <1>5, <1>6, <1>7 DEF LauncherInv

\* After the wait there is no node of the launcher.
LEMMA ReapInv == LauncherInv /\ Reap => LauncherInv'
<1> SUFFICES ASSUME LauncherInv, Reap PROVE LauncherInv'
  OBVIOUS
<1> USE DEF Reap, uiVars, nodeVars, fileVars
<1>1. At("reap") /\ todo # <<>> /\ open /\ \A x, y : At(x) /\ At(y) => x = y
  <2>1. At("reap") /\ todo # <<>>
    BY DEF At
  <2> QED
    BY <2>1, InHandler
<1>2. /\ todo' \in Seq(Steps) /\ Shape(todo') /\ ~At("kill")' /\ ~At("reap")' /\ ~At("sent")'
      /\ Has(todo', "spawn") => Has(todo, "spawn")
      /\ Has(todo, "save") => Has(todo', "save")
  BY <1>1, NextStep DEF LauncherInv
<1>3. Flags' /\ Shape(todo)'
  BY <1>2 DEF LauncherInv, Flags
<1>4. Values'
  BY LauncherAssumption DEF LauncherInv, Values, NoHeight
<1>5. Locks'
  BY DEF LauncherInv, Locks
<1>6. NodeInHandler'
  <2>1. own' = "none" /\ open' /\ holder' # "send"
    BY <1>1 DEF LauncherInv, NodeInHandler
  <2> QED
    BY <1>2, <2>1 DEF NodeInHandler
<1>7. SavedBeforeSpawn'
  BY <1>2 DEF LauncherInv, SavedBeforeSpawn
<1>8. NodeMines' /\ PhraseInUse' /\ RefusedOnlyByOthers'
  BY <1>1 DEF LauncherInv, NodeMines, PhraseInUse, RefusedOnlyByOthers
<1> QED
  BY <1>3, <1>4, <1>5, <1>6, <1>7, <1>8 DEF LauncherInv

\* The phrase is written just before its send.
LEMMA PhraseInv == LauncherInv /\ Phrase => LauncherInv'
<1> SUFFICES ASSUME LauncherInv, Phrase PROVE LauncherInv'
  OBVIOUS
<1> USE DEF Phrase, Complain, uiVars, nodeVars, fileVars
<1>1. At("phrase") /\ todo # <<>> /\ (\A x, y : At(x) /\ At(y) => x = y) /\ own = "none"
  <2>1. At("phrase") /\ todo # <<>>
    BY DEF At
  <2> QED
    BY <2>1, InHandler
<1>2. Values'
  BY DEF LauncherInv, Values
<1>3. Locks'
  BY <1>1 DEF LauncherInv, Locks
<1>4. Quietly
  BY <1>1, <1>2, <1>3 DEF Quietly, LauncherInv, Flags
<1>5. holder # "send"
  BY <1>1 DEF LauncherInv, NodeInHandler
<1>6. CASE todo' = RestOfHandler /\ phrases' = phrases
  <2>1. faults = 0 => phrases = {}
    BY <1>1 DEF LauncherInv, PhraseInUse
  <2> QED
    BY <1>4, <1>5, <1>6, <2>1, ErrorInv
<1>7. CASE todo' = Tail(todo) /\ phrases' = phrases \cup {"current"}
  BY <1>1, <1>4, <1>5, <1>7, AdvanceInv
<1> QED
  BY <1>6, <1>7

\* The phrase is gone whatever becomes of the send.
LEMMA SendInv == LauncherInv /\ Send => LauncherInv'
<1> SUFFICES ASSUME LauncherInv, Send PROVE LauncherInv'
  OBVIOUS
<1> USE DEF Send, Complain, CanOpen, uiVars, nodeVars, fileVars
<1>1. At("send") /\ todo # <<>> /\ (\A x, y : At(x) /\ At(y) => x = y) /\ own = "none"
  <2>1. At("send") /\ todo # <<>>
    BY DEF At
  <2> QED
    BY <2>1, InHandler
<1>2. Values'
  BY DEF LauncherInv, Values
<1>3. Locks'
  BY <1>1 DEF LauncherInv, Locks
<1>4. Quietly
  BY <1>1, <1>2, <1>3 DEF Quietly, LauncherInv, Flags
<1>5. CASE CanOpen
  BY <1>1, <1>4, <1>5, AdvanceInv
<1>6. CASE ~CanOpen
  <2>1. holder' # "send"
    BY <1>1, <1>6 DEF LauncherInv, NodeInHandler
  <2>2. todo' = RestOfHandler /\ faults' = faults /\ phrases' = phrases \ {"current"}
    BY <1>6
  <2> QED
    BY <1>4, <2>1, <2>2, ErrorInv
<1> QED
  BY <1>5, <1>6

\* The end of a send gives the databases back.
LEMMA SentInv == LauncherInv /\ Sent => LauncherInv'
<1> SUFFICES ASSUME LauncherInv, Sent PROVE LauncherInv'
  OBVIOUS
<1> USE DEF Sent, Complain, uiVars, nodeVars, fileVars
<1>1. At("sent") /\ todo # <<>> /\ (\A x, y : At(x) /\ At(y) => x = y) /\ own = "none"
  <2>1. At("sent") /\ todo # <<>>
    BY DEF At
  <2> QED
    BY <2>1, InHandler
<1>2. Values'
  <2>1. tip' \in NoHeight..MaxTip
    BY LauncherAssumption DEF LauncherInv, Values, NoHeight
  <2> QED
    BY <2>1 DEF LauncherInv, Values
<1>3. Locks'
  BY <1>1 DEF LauncherInv, Locks, NodeInHandler
<1>4. Quietly
  BY <1>1, <1>2, <1>3 DEF Quietly, LauncherInv, Flags
<1>5. CASE todo' = Tail(todo)
  BY <1>1, <1>4, <1>5, AdvanceInv
<1>6. CASE todo' = RestOfHandler
  <2>1. faults = 0 => phrases = {}
    BY <1>1 DEF LauncherInv, PhraseInUse
  <2> QED
    BY <1>4, <1>6, <2>1, ErrorInv
<1> QED
  BY <1>5, <1>6

\* A wallet is created or restored.
LEMMA WalletInv == LauncherInv /\ Wallet => LauncherInv'
<1> SUFFICES ASSUME LauncherInv, Wallet PROVE LauncherInv'
  OBVIOUS
<1> USE DEF Wallet, SaveFails, CanOpen, uiVars, nodeVars, fileVars
<1>1. At("wallet") /\ todo # <<>> /\ (\A x, y : At(x) /\ At(y) => x = y) /\ own = "none"
  <2>1. At("wallet") /\ todo # <<>>
    BY DEF At
  <2> QED
    BY <2>1, InHandler
<1>2. Values'
  BY DEF LauncherInv, Values
<1>3. Locks'
  BY <1>1 DEF LauncherInv, Locks
<1>4. Quietly
  BY <1>1, <1>2, <1>3 DEF Quietly, LauncherInv, Flags
<1>5. holder' # "send"
  BY <1>1 DEF LauncherInv, NodeInHandler
<1>6. faults = 0 => phrases = {}
  BY <1>1 DEF LauncherInv, PhraseInUse
<1> QED
  BY <1>4, <1>5, <1>6, ErrorInv

\* A process that cannot be started is a fault.
LEMMA SpawnFailsInv == LauncherInv /\ SpawnFails => LauncherInv'
<1> SUFFICES ASSUME LauncherInv, SpawnFails PROVE LauncherInv'
  OBVIOUS
<1> USE DEF SpawnFails, Complain, uiVars, nodeVars, fileVars
<1>1. (At("spawn") \/ At("send")) /\ todo # <<>>
      /\ (\A x, y : At(x) /\ At(y) => x = y) /\ own = "none"
  <2>1. (At("spawn") \/ At("send")) /\ todo # <<>>
    BY DEF At
  <2> QED
    BY <2>1, InHandler
<1>2. Values'
  BY DEF LauncherInv, Values
<1>3. Locks'
  <2>1. faults' \in 0..MaxFaults
    BY LauncherAssumption DEF LauncherInv, Locks
  <2>2. UNCHANGED <<own, stray, holder, refused, phrases>>
    OBVIOUS
  <2> HIDE DEF SpawnFails
  <2> QED
    BY <2>1, <2>2 DEF LauncherInv, Locks
<1>4. Quietly
  BY <1>1, <1>2, <1>3 DEF Quietly, LauncherInv, Flags
<1>5. holder' # "send"
  BY <1>1 DEF LauncherInv, NodeInHandler
<1>6. faults' # 0
  BY DEF LauncherInv, Locks
<1> QED
  BY <1>4, <1>5, <1>6, ErrorInv

\* Every step of a handler.
LEMMA HandlerStepInv == LauncherInv /\ HandlerStep => LauncherInv'
  BY SaveInv, GenesisInv, ReadInv, SpawnInv, KillInv, ReapInv, PhraseInv, SendInv, SentInv,
     WalletInv
  DEF HandlerStep

-----------------------------------------------------------------------------
(* The window and the processes.                                           *)

\* A repaint, and what a node writes for it.
LEMMA WindowInv ==
    LauncherInv /\ (Frame \/ Grow \/ BeginStatus \/ EndStatus) => LauncherInv'
<1> SUFFICES ASSUME LauncherInv, Frame \/ Grow \/ BeginStatus \/ EndStatus
             PROVE  LauncherInv'
  OBVIOUS
<1> USE DEF uiVars, nodeVars, fileVars
<1>1. /\ UNCHANGED <<open, payout, todo, own, nodePayout, stray, holder, refused,
                     walletFile, mineCtl, phrases, faults>>
      /\ error' \in BOOLEAN
  BY DEF Frame, ErrorForgotten, Grow, BeginStatus, EndStatus, LauncherInv, Flags
<1>2. Values'
  <2>1. shown \in NoHeight..MaxTip /\ tip \in NoHeight..MaxTip
        /\ nodeLog \in NoHeight..MaxTip /\ statusFile \in Torn..MaxTip
    BY DEF LauncherInv, Values
  <2>2. shown' \in NoHeight..MaxTip /\ tip' \in NoHeight..MaxTip
        /\ nodeLog' \in NoHeight..MaxTip /\ statusFile' \in Torn..MaxTip
    <3>1. CASE Frame
      BY <2>1, <3>1, LauncherAssumption DEF Frame, FromStatusFile, FromLog, NoHeight, Torn
    <3>2. CASE Grow
      BY <2>1, <3>2, LauncherAssumption DEF Grow, NoHeight, Torn
    <3>3. CASE BeginStatus \/ EndStatus
      BY <2>1, <3>3, LauncherAssumption DEF BeginStatus, EndStatus, NoHeight, Torn
    <3> QED
      BY <3>1, <3>2, <3>3
  <2> QED
    BY <1>1, <2>2 DEF LauncherInv, Values
<1>3. Locks'
  BY <1>1 DEF LauncherInv, Locks
<1>4. Flags' /\ Shape(todo)' /\ \A x : At(x)' <=> At(x)
  BY <1>1 DEF LauncherInv, Flags, At
<1>5. NodeInHandler'
  BY <1>1, <1>4 DEF LauncherInv, NodeInHandler
<1>6. SavedBeforeSpawn' /\ NodeMines' /\ PhraseInUse' /\ RefusedOnlyByOthers'
  BY <1>1, <1>4
  DEF LauncherInv, SavedBeforeSpawn, NodeMines, PhraseInUse, RefusedOnlyByOthers
<1> QED
  BY <1>2, <1>3, <1>4, <1>5, <1>6 DEF LauncherInv

\* The text box is edited between two handlers.
LEMMA EditInv == ASSUME LauncherInv, NEW a \in Addresses \cup {NoAddress}, EditPayout(a)
                 PROVE  LauncherInv'
<1> USE DEF EditPayout, Idle, uiVars, nodeVars, fileVars
<1>1. Flags' /\ Shape(todo)' /\ \A x : At(x)' <=> At(x)
  BY DEF LauncherInv, Flags, At
<1>2. Values'
  BY DEF LauncherInv, Values
<1>3. Locks'
  BY DEF LauncherInv, Locks
<1>4. NodeInHandler'
  BY <1>1 DEF LauncherInv, NodeInHandler
<1>5. SavedBeforeSpawn'
  BY DEF SavedBeforeSpawn, Has
<1>6. NodeMines' /\ PhraseInUse' /\ RefusedOnlyByOthers'
  BY <1>1 DEF LauncherInv, NodeMines, PhraseInUse, RefusedOnlyByOthers
<1> QED
  BY <1>1, <1>2, <1>3, <1>4, <1>5, <1>6 DEF LauncherInv

\* DbcUiApp::default.
LEMMA OpenInv == LauncherInv /\ Open => LauncherInv'
<1> SUFFICES ASSUME LauncherInv, Open PROVE LauncherInv'
  OBVIOUS
<1> USE DEF Open, uiVars, nodeVars, fileVars
<1> DEFINE p == <<"try genesis", "height">>
<1>1. Program(p) /\ ~Has(p, "spawn") /\ Head(p) = "try genesis" /\ p # <<>>
  BY FixedPrograms
<1> HIDE DEF p
<1>2. todo' = p
  BY DEF p
<1>3. \A x : At(x)' <=> x = "try genesis"
  BY <1>1, <1>2 DEF At
<1>4. own = "none" /\ todo = <<>> /\ open' /\ \A x : ~At(x)
  BY DEF LauncherInv, NodeInHandler, At
<1>5. Flags' /\ Shape(todo)'
  BY <1>1, <1>2 DEF LauncherInv, Flags, Program
<1>6. Values'
  BY NoHeightInRange DEF LauncherInv, Values
<1>7. Locks'
  BY DEF LauncherInv, Locks
<1>8. NodeInHandler'
  BY <1>3, <1>4 DEF LauncherInv, NodeInHandler
<1>9. SavedBeforeSpawn' /\ NodeMines'
  BY <1>4 DEF SavedBeforeSpawn, NodeMines
<1>10. PhraseInUse' /\ RefusedOnlyByOthers'
  BY <1>4 DEF LauncherInv, PhraseInUse, RefusedOnlyByOthers
<1> QED
  BY <1>5, <1>6, <1>7, <1>8, <1>9, <1>10 DEF LauncherInv

\* A process gets the databases, gives them back or is gone.
LEMMA ProcessInv ==
    ASSUME LauncherInv, Locks', nodeLog' \in NoHeight..MaxTip,
           UNCHANGED <<open, payout, shown, error, todo, refused, nodePayout, tip,
                       walletFile, mineCtl, phrases, statusFile, faults>>,
           \/ own' = own
           \/ own \in {"opening", "running"} /\ own' \in {"running", "gone"}
           \/ own = "dying" /\ own' = "gone",
           holder' = "send" <=> holder = "send"
    PROVE  LauncherInv'
<1>1. Flags' /\ Shape(todo)' /\ \A x : At(x)' <=> At(x)
  BY DEF LauncherInv, Flags, At
<1>2. Values'
  BY DEF LauncherInv, Values
<1>3. NodeInHandler'
  <2>1. todo' = todo /\ open' = open
    OBVIOUS
  <2>2. At("reap") => own \in {"dying", "gone"}
    BY DEF LauncherInv, NodeInHandler
  <2>3. own' = "dying" => own = "dying"
    OBVIOUS
  <2>4. own' = "none" <=> own = "none"
    OBVIOUS
  <2>5. At("reap") => own' \in {"dying", "gone"}
    BY <2>2
  <2> QED
    BY <1>1, <2>1, <2>3, <2>4, <2>5 DEF LauncherInv, NodeInHandler
<1>4. SavedBeforeSpawn' /\ NodeMines' /\ PhraseInUse' /\ RefusedOnlyByOthers'
  BY <1>1 DEF LauncherInv, SavedBeforeSpawn, NodeMines, PhraseInUse, RefusedOnlyByOthers
<1> QED
  BY <1>1, <1>2, <1>3, <1>4 DEF LauncherInv

\* Every process that comes or goes.
LEMMA ProcessesInv ==
    LauncherInv /\ (NodeOpens \/ StrayOpens \/ NodeDies \/ NodeEnds \/ StrayEnds
                     \/ ServeStarts \/ ServeEnds)
        => LauncherInv'
<1> SUFFICES ASSUME LauncherInv,
                    NodeOpens \/ StrayOpens \/ NodeDies \/ NodeEnds \/ StrayEnds
                       \/ ServeStarts \/ ServeEnds
             PROVE  LauncherInv'
  OBVIOUS
<1> USE DEF CanOpen, uiVars, nodeVars, fileVars
<1>1. tip \in NoHeight..MaxTip /\ nodeLog \in NoHeight..MaxTip
  BY DEF LauncherInv, Values
<1>2. CASE NodeOpens
  <2>1. Locks'
    BY <1>2 DEF NodeOpens, LauncherInv, Locks
  <2> QED
    BY <1>1, <1>2, <2>1, ProcessInv DEF NodeOpens
<1>3. CASE StrayOpens
  <2>1. Locks'
    BY <1>3 DEF StrayOpens, LauncherInv, Locks
  <2> QED
    BY <1>1, <1>3, <2>1, ProcessInv DEF StrayOpens
<1>4. CASE NodeDies
  <2>1. Locks' /\ holder # "send"
    BY <1>4 DEF NodeDies, LauncherInv, Locks
  <2> QED
    BY <1>1, <1>4, <2>1, ProcessInv DEF NodeDies
<1>5. CASE NodeEnds
  <2>1. Locks' /\ holder # "send"
    BY <1>5 DEF NodeEnds, LauncherInv, Locks
  <2> QED
    BY <1>1, <1>5, <2>1, ProcessInv DEF NodeEnds
<1>6. CASE StrayEnds
  <2>1. Locks' /\ holder # "send"
    BY <1>6 DEF StrayEnds, LauncherInv, Locks
  <2> QED
    BY <1>1, <1>6, <2>1, ProcessInv DEF StrayEnds
<1>7. CASE ServeStarts
  <2>1. Locks'
    BY <1>7 DEF ServeStarts, LauncherInv, Locks
  <2> QED
    BY <1>1, <1>7, <2>1, ProcessInv DEF ServeStarts
<1>8. CASE ServeEnds
  <2>1. Locks'
    BY <1>8 DEF ServeEnds, LauncherInv, Locks
  <2> QED
    BY <1>1, <1>8, <2>1, ProcessInv DEF ServeEnds
<1> QED
  BY <1>2, <1>3, <1>4, <1>5, <1>6, <1>7, <1>8

\* The end of the launcher, by its user or not.
LEMMA LeaveInv == LauncherInv /\ (Close \/ Crash) => LauncherInv'
<1> SUFFICES ASSUME LauncherInv, Close \/ Crash PROVE LauncherInv'
  OBVIOUS
<1> USE DEF uiVars, nodeVars, fileVars
<1>1. /\ open' = FALSE /\ todo' = <<>> /\ LeaveNode
      /\ UNCHANGED <<payout, shown, error, refused, tip, walletFile, mineCtl, statusFile>>
  BY DEF Close, Crash, Idle
<1>2. holder # "send"
  BY DEF Close, Crash, Idle, LauncherInv, NodeInHandler, At
<1>3. Flags' /\ Shape(todo)'
  BY <1>1, FixedPrograms DEF LauncherInv, Flags, Program
<1>4. Values'
  BY <1>1, NoHeightInRange DEF LauncherInv, Values, LeaveNode
<1>5. faults' \in 0..MaxFaults /\ phrases' \subseteq {"current", "earlier"}
  <2>1. faults \in 0..MaxFaults /\ phrases \subseteq {"current", "earlier"}
    BY DEF LauncherInv, Locks
  <2>2. CASE Close
    BY <2>1, <2>2 DEF Close
  <2>3. faults < MaxFaults => faults + 1 \in 0..MaxFaults
    BY <2>1, LauncherAssumption
  <2>4. CASE Crash
    BY <2>1, <2>3, <2>4 DEF Crash
  <2> QED
    BY <2>2, <2>4
<1>6. Locks'
  BY <1>1, <1>5 DEF LauncherInv, Locks, LeaveNode
<1>7. NodeInHandler'
  BY <1>1, <1>2 DEF NodeInHandler, At, LeaveNode
<1>8. SavedBeforeSpawn' /\ NodeMines' /\ RefusedOnlyByOthers'
  BY <1>1 DEF LauncherInv, SavedBeforeSpawn, NodeMines, RefusedOnlyByOthers, Has, LeaveNode
<1>9. PhraseInUse'
  <2>1. CASE Close
    BY <2>1 DEF Close, Idle, LauncherInv, PhraseInUse, At
  <2>2. CASE Crash
    BY <2>2 DEF Crash, LauncherInv, PhraseInUse, Locks
  <2> QED
    BY <2>1, <2>2
<1> QED
  BY <1>3, <1>4, <1>6, <1>7, <1>8, <1>9 DEF LauncherInv

\* The invariant is inductive.
LEMMA NextInv == LauncherInv /\ [Next]_vars => LauncherInv'
<1> SUFFICES ASSUME LauncherInv, [Next]_vars PROVE LauncherInv'
  OBVIOUS
<1>1. CASE User
  BY <1>1, ClickInv, EditInv, OpenInv, LeaveInv, ProcessesInv DEF User, Clicks
<1>2. CASE HandlerStep
  BY <1>2, HandlerStepInv
<1>3. CASE Frame \/ Processes
  BY <1>3, WindowInv, ProcessesInv DEF Processes
<1>4. CASE SpawnFails \/ Crash
  BY <1>4, SpawnFailsInv, LeaveInv
<1>5. CASE UNCHANGED vars
  BY <1>5
  DEF vars, LauncherInv, Flags, Values, Locks, NodeInHandler, At, SavedBeforeSpawn,
      NodeMines, PhraseInUse, RefusedOnlyByOthers
<1> QED
  BY <1>1, <1>2, <1>3, <1>4, <1>5 DEF Next

-----------------------------------------------------------------------------
(* Theorems.                                                               *)

\* The inductive invariant holds in every state.
THEOREM LauncherInvariant == Spec => []LauncherInv
  BY InitInv, NextInv, PTL DEF Spec

\* The variables of the launcher and of its data directory keep their types; among
\* others, one process at a time has the databases (dbc-ui.rs, main.rs).
THEOREM LauncherTypes == Spec => []TypeOK
<1>1. LauncherInv => TypeOK
  BY Parts DEF LauncherInv
<1> QED
  BY <1>1, LauncherInvariant, PTL

\* No command of the launcher is ever kept from the databases by the launcher's own
\* node: stop_node waits for the killed process (dbc-ui.rs:578-583).
THEOREM OwnNodeNeverInTheWay == Spec => []RefusedOnlyByOthers
<1>1. LauncherInv => RefusedOnlyByOthers
  BY DEF LauncherInv
<1> QED
  BY <1>1, LauncherInvariant, PTL

\* A node that is on mines for the address in wallet_address.txt: every way to it
\* goes through start_online, which saves the address before spawn_node reads it.
THEOREM OnlineNodeMinesForWallet == Spec => []OnlineMinesForWallet
<1>1. LauncherInv => OnlineMinesForWallet
  BY DEF LauncherInv, OnlineMinesForWallet, NodeMines
<1> QED
  BY <1>1, LauncherInvariant, PTL

\* Without a fault the recovery phrase is off the disk when run_send returns.
THEOREM PhraseGoesWithItsSend == Spec => []PhraseNotKept
<1>1. LauncherInv => PhraseNotKept
  BY DEF LauncherInv, PhraseNotKept, PhraseInUse, Locks, At
<1> QED
  BY <1>1, LauncherInvariant, PTL
=============================================================================
