----------------------------- MODULE DbcLauncher -----------------------------
(***************************************************************************)
(* The desktop launcher (bin/dbc-ui.rs) and the processes it starts on one *)
(* data directory (main.rs).                                               *)
(*                                                                         *)
(* The launcher has one thread: a button handler runs its steps one after  *)
(* the other and nothing is drawn meanwhile.  Around it run the node it    *)
(* started, a node an earlier launcher left behind, a `send` and a `serve` *)
(* somebody started by hand.  Each opens the RocksDB databases before      *)
(* anything else, and only one process at a time can.                      *)
(*                                                                         *)
(* Layout, colours and the wording of status lines are left out; the chain *)
(* is reduced to the height of its tip.                                    *)
(***************************************************************************)
EXTENDS Integers, Sequences

CONSTANTS
    Addresses,     \* payout addresses the user may have
    NoAddress,     \* an empty text box, or no wallet_address.txt
    MaxTip,        \* greatest height reached (a bound)
    MaxFaults      \* failed spawns, ends of the launcher (a bound)

ASSUME LauncherAssumption ==
    /\ NoAddress \notin Addresses
    /\ MaxTip \in Nat
    /\ MaxFaults \in Nat

VARIABLES
    open,          \* the window is there
    payout,        \* payout_address, bound to the text box
    shown,         \* chain_height, NoHeight for None
    error,         \* error.is_some()
    todo,          \* steps the running button handler has left
    \* The node the launcher has a handle on, and any other process.
    own,           \* child: "none", or how far its process is
    stray,         \* a node no launcher has a handle on
    holder,        \* the process that has the databases open
    refused,       \* the process that kept the last command from opening them
    nodePayout,    \* --address of the own node
    nodeLog,       \* last height among its unread log lines
    \* The data directory.
    tip,           \* height of the chain
    walletFile,    \* wallet_address.txt
    mineCtl,       \* mine_ctl.txt holds "1"
    statusFile,    \* tip_height in status.json
    phrases,       \* send_<pid>.tmp files: this launcher's, an earlier one's
    faults

uiVars == <<open, payout, shown>>
nodeVars == <<own, nodePayout, nodeLog>>
fileVars == <<walletFile, mineCtl, phrases>>
vars == <<open, payout, shown, error, todo, own, stray, holder, refused,
          nodePayout, nodeLog, tip, walletFile, mineCtl, statusFile, phrases, faults>>

NoHeight == -1
Torn == -2        \* status.json cut short: read_status returns None

Steps == {"save", "genesis", "try genesis", "height", "spawn", "kill", "reap",
          "phrase", "send", "sent", "query", "wallet"}

\* The type invariant.
TypeOK ==
    /\ open \in BOOLEAN /\ error \in BOOLEAN /\ mineCtl \in BOOLEAN
    /\ payout \in Addresses \cup {NoAddress}
    /\ walletFile \in Addresses \cup {NoAddress}
    /\ nodePayout \in Addresses \cup {NoAddress}
    /\ shown \in NoHeight..MaxTip
    /\ tip \in NoHeight..MaxTip
    /\ nodeLog \in NoHeight..MaxTip
    /\ statusFile \in Torn..MaxTip
    /\ todo \in Seq(Steps)
    /\ own \in {"none", "opening", "running", "dying", "gone"}
    /\ stray \in {"none", "opening", "running"}
    /\ holder \in {"none", "own", "stray", "send", "serve"}
    /\ refused \in {"none", "own", "stray", "send", "serve"}
    /\ phrases \subseteq {"current", "earlier"}
    /\ faults \in 0..MaxFaults
    /\ own \in {"running", "dying"} <=> holder = "own"
    /\ stray = "running" <=> holder = "stray"

\* A new installation, nothing running.
Init ==
    /\ open = FALSE
    /\ payout = NoAddress /\ walletFile = NoAddress /\ nodePayout = NoAddress
    /\ shown = NoHeight /\ tip = NoHeight /\ nodeLog = NoHeight /\ statusFile = NoHeight
    /\ error = FALSE
    /\ todo = <<>>
    /\ own = "none" /\ stray = "none"
    /\ holder = "none" /\ refused = "none"
    /\ mineCtl = FALSE
    /\ phrases = {}
    /\ faults = 0

-----------------------------------------------------------------------------
(* Programs of the buttons, as the steps they make.                        *)

\* start_online with spawn_node.
StartSteps == <<"save", "genesis", "height", "spawn">>

\* stop_online with stop_node.
StopSteps == <<"kill", "reap">>

\* node_running: a process that ended by itself still counts.
NodeRunning == own # "none"

\* A handler that needs the databases stops the node for it and starts it again.
Around(body) == IF NodeRunning THEN StopSteps \o body \o StartSteps ELSE body

Idle == open /\ todo = <<>>

\* The steps that remain when the rest of a body is skipped by an error.
RestOfHandler ==
    IF \E i \in 1..Len(todo) : todo[i] = "spawn" THEN StartSteps ELSE <<>>

Begin(steps) ==
    /\ Idle
    /\ todo' = steps
    /\ error' = FALSE
    /\ UNCHANGED <<uiVars, nodeVars, stray, holder, refused, tip, fileVars, statusFile, faults>>

ClickStart == ~NodeRunning /\ Begin(StartSteps)
ClickStop == NodeRunning /\ Begin(StopSteps)
ClickSend == Begin(Around(<<"phrase", "send", "sent", "height">>))
ClickBalance == Begin(Around(<<"height", "query">>))
ClickHistory == Begin(Around(<<"query">>))

\* Create Wallet and Restore Wallet, disabled while the node is on.
ClickWallet == ~NodeRunning /\ Begin(<<"wallet">>)

\* The address is a text box, editable at any time.
EditPayout(a) ==
    /\ Idle
    /\ payout # a
    /\ payout' = a
    /\ UNCHANGED <<open, shown, error, todo, nodeVars, stray, holder, refused, tip,
                   fileVars, statusFile, faults>>

-----------------------------------------------------------------------------
(* The steps.                                                              *)

At(step) == todo # <<>> /\ Head(todo) = step

\* Chain::open, the first thing every command does.
CanOpen == holder = "none"

Complain(rest) == error' = TRUE /\ todo' = rest

\* save_wallet_address returns an error; its fs::write may have emptied the file.
SaveFails == error' = TRUE /\ walletFile' \in {walletFile, NoAddress}

\* start_online and the first half of spawn_node: nothing without an address, and
\* the address goes to its file.
Save ==
    /\ At("save")
    /\ IF payout = NoAddress
         THEN Complain(<<>>) /\ UNCHANGED walletFile
         ELSE \/ walletFile' = payout /\ todo' = Tail(todo) /\ UNCHANGED error
              \/ SaveFails /\ todo' = <<>>
    /\ UNCHANGED <<uiVars, nodeVars, stray, holder, refused, tip, mineCtl, phrases,
                   statusFile, faults>>

\* The import-genesis command: nothing on a chain that has blocks.
Imported == IF tip = NoHeight THEN 0 ELSE tip

\* ensure_genesis: nothing without a genesis.json beside the executable.
\* Default::default ignores its error, spawn_node does not.
Genesis ==
    /\ At("genesis") \/ At("try genesis")
    /\ \/ todo' = Tail(todo) /\ UNCHANGED <<error, refused, tip>>
       \/ /\ CanOpen
          /\ tip' = Imported
          /\ refused' = "none"
          /\ todo' = Tail(todo)
          /\ UNCHANGED error
       \/ /\ ~CanOpen
          /\ refused' = holder
          /\ IF At("genesis") THEN Complain(<<>>) ELSE todo' = Tail(todo) /\ UNCHANGED error
          /\ UNCHANGED tip
    /\ UNCHANGED <<uiVars, nodeVars, stray, holder, fileVars, statusFile, faults>>

\* refresh_chain_height with the info command; a failure changes nothing.
Height ==
    /\ At("height")
    /\ todo' = Tail(todo)
    /\ refused' = holder
    /\ shown' = IF CanOpen /\ tip # NoHeight THEN tip ELSE shown
    /\ UNCHANGED <<open, payout, error, nodeVars, stray, holder, tip, fileVars,
                   statusFile, faults>>

\* Mutant: mine_ctl keeps what stop_online wrote.
SpawnKeepingCtl ==
    /\ At("spawn")
    /\ own' = "opening"
    /\ nodePayout' = payout
    /\ todo' = Tail(todo)
    /\ UNCHANGED <<uiVars, error, nodeLog, stray, holder, refused, tip, fileVars,
                   statusFile, faults>>

\* The second half of spawn_node: mine_ctl, then the process.
Spawn ==
    /\ At("spawn")
    /\ mineCtl' = TRUE
    /\ own' = "opening"
    /\ nodePayout' = payout
    /\ todo' = Tail(todo)
    /\ UNCHANGED <<uiVars, error, nodeLog, stray, holder, refused, tip, walletFile,
                   phrases, statusFile, faults>>

\* stop_online and child.kill(): the process ends a little later.
Kill ==
    /\ At("kill")
    /\ mineCtl' = FALSE
    /\ own' = IF own = "running" THEN "dying" ELSE "gone"
    /\ todo' = Tail(todo)
    /\ UNCHANGED <<uiVars, error, nodePayout, nodeLog, stray, holder, refused, tip,
                   walletFile, phrases, statusFile, faults>>

\* Mutant: the handle is dropped without wait().
ReapAtOnce ==
    /\ At("reap")
    /\ own' = "none"
    /\ nodePayout' = NoAddress
    /\ nodeLog' = NoHeight
    /\ todo' = Tail(todo)
    /\ UNCHANGED <<uiVars, error, stray, holder, refused, tip, fileVars, statusFile, faults>>

\* child.wait(), and its log is dropped.
Reap ==
    /\ At("reap")
    /\ own = "gone"
    /\ own' = "none"
    /\ nodePayout' = NoAddress
    /\ nodeLog' = NoHeight
    /\ todo' = Tail(todo)
    /\ UNCHANGED <<uiVars, error, stray, holder, refused, tip, fileVars, statusFile, faults>>

\* run_send up to the temporary file; any of its inputs may be refused.
Phrase ==
    /\ At("phrase")
    /\ \/ Complain(RestOfHandler) /\ UNCHANGED phrases
       \/ /\ payout # NoAddress
          /\ phrases' = phrases \cup {"current"}
          /\ todo' = Tail(todo)
          /\ UNCHANGED error
    /\ UNCHANGED <<uiVars, nodeVars, stray, holder, refused, tip, walletFile, mineCtl,
                   statusFile, faults>>

\* Mutant: an error returns before the file is removed.
SendLeavingFile ==
    /\ At("send")
    /\ refused' = holder
    /\ IF CanOpen
         THEN holder' = "send" /\ phrases' = phrases \ {"current"}
              /\ todo' = Tail(todo) /\ UNCHANGED error
         ELSE Complain(RestOfHandler) /\ UNCHANGED <<holder, phrases>>
    /\ UNCHANGED <<uiVars, nodeVars, stray, tip, walletFile, mineCtl, statusFile, faults>>

\* The send command starts.  It reads and removes the file once it has the
\* databases; run_send removes it when the command is over, successful or not.
Send ==
    /\ At("send")
    /\ refused' = holder
    /\ phrases' = phrases \ {"current"}
    /\ IF CanOpen
         THEN holder' = "send" /\ todo' = Tail(todo) /\ UNCHANGED error
         ELSE Complain(RestOfHandler) /\ UNCHANGED holder
    /\ UNCHANGED <<uiVars, nodeVars, stray, tip, walletFile, mineCtl, statusFile, faults>>

\* Mutant: a failed send returns before the node is started again.
SentOrStay ==
    /\ At("sent")
    /\ holder' = "none"
    /\ \/ /\ tip \in 0..MaxTip - 1
          /\ tip' = tip + 1
          /\ todo' = Tail(todo)
          /\ UNCHANGED error
       \/ error' = FALSE /\ todo' = <<>> /\ UNCHANGED tip
    /\ UNCHANGED <<uiVars, nodeVars, stray, refused, fileVars, statusFile, faults>>

\* The send command ends: it mined one block with the payment on the tip it found, or
\* it failed (an empty chain, no funds, a bad phrase).
Sent ==
    /\ At("sent")
    /\ holder' = "none"
    /\ \/ /\ tip \in 0..MaxTip - 1
          /\ tip' = tip + 1
          /\ todo' = Tail(todo)
          /\ UNCHANGED error
       \/ Complain(RestOfHandler) /\ UNCHANGED tip
    /\ UNCHANGED <<uiVars, nodeVars, stray, refused, fileVars, statusFile, faults>>

\* run_balance or run_history: the text of the command is shown, also when it failed.
Query ==
    /\ At("query")
    /\ refused' = holder
    /\ todo' = Tail(todo)
    /\ UNCHANGED <<uiVars, error, nodeVars, stray, holder, tip, fileVars, statusFile, faults>>

\* create_wallet or restore_wallet: a command computes the address, which goes to the
\* text box and to its file.  The command opens ./data, the launcher's own directory.
Wallet ==
    /\ At("wallet")
    /\ todo' = <<>>
    /\ refused' = holder
    /\ \/ error' = TRUE /\ UNCHANGED <<payout, walletFile>>
       \/ /\ CanOpen
          /\ payout' \in Addresses
          /\ SaveFails \/ (walletFile' = payout' /\ UNCHANGED error)
    /\ UNCHANGED <<open, shown, nodeVars, stray, holder, tip, mineCtl, phrases,
                   statusFile, faults>>

HandlerStep ==
    \/ Save \/ Genesis \/ Height \/ Spawn \/ Kill \/ Reap
    \/ Phrase \/ Send \/ Sent \/ Query \/ Wallet

-----------------------------------------------------------------------------
(* A repaint of the window, its opening and its end.                       *)

\* ingest_log_line on every waiting line of the node's output: the last height wins.
FromLog == IF nodeLog # NoHeight THEN nodeLog ELSE shown

\* refresh_from_status_file: a file read_status can parse replaces what was shown.
FromStatusFile(height) == IF NodeRunning /\ statusFile >= 0 THEN statusFile ELSE height

\* An error is drawn once and forgotten.
ErrorForgotten == error' = FALSE

\* update: the log first, then status.json if a node was started.
Frame ==
    /\ Idle
    /\ shown' = FromStatusFile(FromLog)
    /\ nodeLog' = NoHeight
    /\ ErrorForgotten
    /\ UNCHANGED <<open, payout, todo, own, nodePayout, stray, holder, refused, tip,
                   fileVars, statusFile, faults>>

\* DbcUiApp::default.
Open ==
    /\ ~open
    /\ open' = TRUE
    /\ payout' = walletFile
    /\ shown' = NoHeight
    /\ error' = FALSE
    /\ todo' = <<"try genesis", "height">>
    /\ UNCHANGED <<nodeVars, stray, holder, refused, tip, fileVars, statusFile, faults>>

\* Dropping a Child does not kill it: the node goes on.
LeaveNode ==
    /\ own' = "none"
    /\ nodePayout' = NoAddress
    /\ nodeLog' = NoHeight
    /\ stray' = IF own = "running" \/ (own = "opening" /\ stray = "none") THEN own ELSE stray
    /\ holder' = IF holder # "own" THEN holder
                 ELSE IF own = "running" THEN "stray" ELSE "none"

\* The user closes the window.
Close ==
    /\ Idle
    /\ open' = FALSE
    /\ LeaveNode
    /\ UNCHANGED <<payout, shown, error, todo, refused, tip, fileVars, statusFile, faults>>

-----------------------------------------------------------------------------
(* The processes.                                                          *)

\* The node gets the databases and logs its tip, or ends because it cannot.
NodeOpens ==
    /\ own = "opening"
    /\ IF CanOpen
         THEN own' = "running" /\ holder' = "own" /\ nodeLog' = tip
         ELSE own' = "gone" /\ UNCHANGED <<holder, nodeLog>>
    /\ UNCHANGED <<uiVars, error, todo, stray, refused, nodePayout, tip, fileVars,
                   statusFile, faults>>

StrayOpens ==
    /\ stray = "opening"
    /\ IF CanOpen THEN stray' = "running" /\ holder' = "stray"
                  ELSE stray' = "none" /\ UNCHANGED holder
    /\ UNCHANGED <<uiVars, error, todo, nodeVars, refused, tip, fileVars, statusFile, faults>>

\* The killed process is gone, and with it its lock.
NodeDies ==
    /\ own = "dying"
    /\ own' = "gone"
    /\ holder' = "none"
    /\ UNCHANGED <<uiVars, error, todo, stray, refused, nodePayout, nodeLog, tip,
                   fileVars, statusFile, faults>>

\* run_p2p returns an error (DbcNet has the cases).  Nobody asks the handle.
NodeEnds ==
    /\ own = "running"
    /\ own' = "gone"
    /\ holder' = "none"
    /\ UNCHANGED <<uiVars, error, todo, stray, refused, nodePayout, nodeLog, tip,
                   fileVars, statusFile, faults>>

StrayEnds ==
    /\ stray = "running"
    /\ stray' = "none"
    /\ holder' = "none"
    /\ UNCHANGED <<uiVars, error, todo, nodeVars, refused, tip, fileVars, statusFile, faults>>

\* A node that runs mines or receives a block, and logs its height.
Grow ==
    /\ own = "running" \/ stray = "running"
    /\ tip < MaxTip
    /\ tip' = tip + 1
    /\ nodeLog' = IF own = "running" THEN tip' ELSE nodeLog
    /\ UNCHANGED <<uiVars, error, todo, own, nodePayout, stray, holder, refused,
                   fileVars, statusFile, faults>>

\* Mutant: the status file is written once.
BeginStatusOnce ==
    /\ own = "running" \/ stray = "running"
    /\ statusFile = NoHeight
    /\ statusFile' = Torn
    /\ UNCHANGED <<uiVars, error, todo, nodeVars, stray, holder, refused, tip,
                   fileVars, faults>>

\* The status tick of a node empties status.json (fs::write) ...
BeginStatus ==
    /\ own = "running" \/ stray = "running"
    /\ statusFile \notin {tip, Torn}
    /\ statusFile' = Torn
    /\ UNCHANGED <<uiVars, error, todo, nodeVars, stray, holder, refused, tip,
                   fileVars, faults>>

\* ... and fills it.
EndStatus ==
    /\ own = "running" \/ stray = "running"
    /\ statusFile = Torn
    /\ statusFile' = tip
    /\ UNCHANGED <<uiVars, error, todo, nodeVars, stray, holder, refused, tip,
                   fileVars, faults>>

\* Somebody runs `serve` on the data directory, and stops it.
ServeStarts ==
    /\ CanOpen
    /\ holder' = "serve"
    /\ UNCHANGED <<uiVars, error, todo, nodeVars, stray, refused, tip, fileVars,
                   statusFile, faults>>

ServeEnds ==
    /\ holder = "serve"
    /\ holder' = "none"
    /\ UNCHANGED <<uiVars, error, todo, nodeVars, stray, refused, tip, fileVars,
                   statusFile, faults>>

-----------------------------------------------------------------------------
(* Faults.                                                                 *)

\* Command::spawn or Command::output fails.  run_send leaves through `?` with its file
\* on disk.
SpawnFails ==
    /\ At("spawn") \/ At("send")
    /\ faults < MaxFaults
    /\ faults' = faults + 1
    /\ mineCtl' = (mineCtl \/ At("spawn"))
    /\ Complain(IF At("send") THEN RestOfHandler ELSE <<>>)
    /\ UNCHANGED <<uiVars, nodeVars, stray, holder, refused, tip, walletFile, phrases,
                   statusFile>>

\* The launcher is killed, at any moment but while a send command runs (that one would
\* go on alone).  Its temporary file is nobody's: the next one has another process id.
Crash ==
    /\ open
    /\ holder # "send"
    /\ faults < MaxFaults
    /\ faults' = faults + 1
    /\ open' = FALSE
    /\ todo' = <<>>
    /\ LeaveNode
    /\ phrases' = IF phrases = {} THEN {} ELSE {"earlier"}
    /\ UNCHANGED <<payout, shown, error, refused, tip, walletFile, mineCtl, statusFile>>

-----------------------------------------------------------------------------

User ==
    \/ ClickStart \/ ClickStop \/ ClickSend \/ ClickBalance \/ ClickHistory \/ ClickWallet
    \/ \E a \in Addresses \cup {NoAddress} : EditPayout(a)
    \/ Open \/ Close
    \/ ServeStarts \/ ServeEnds

Processes ==
    \/ NodeOpens \/ StrayOpens \/ NodeDies \/ NodeEnds \/ StrayEnds
    \/ Grow \/ BeginStatus \/ EndStatus

Next == User \/ HandlerStep \/ Frame \/ Processes \/ SpawnFails \/ Crash

Spec == Init /\ [][Next]_vars

\* A handler in progress goes on (a send too: some nonce ends its grind), the window
\* is repainted every 250 ms, a process that was killed or started gets somewhere,
\* and a node's status timer ticks.  Nothing is assumed of the user or of new blocks.
Fairness ==
    /\ WF_vars(HandlerStep)
    /\ WF_vars(Frame)
    /\ WF_vars(NodeOpens) /\ WF_vars(NodeDies)
    /\ WF_vars(BeginStatus) /\ WF_vars(EndStatus)

FairSpec == Spec /\ Fairness

-----------------------------------------------------------------------------
(* Properties.                                                             *)

\* A command of the launcher is kept from the databases only by a process the launcher
\* has no handle on: never by the node it just stopped, killed and waited for, although
\* the next process starts at once on the same directory (dbc-ui.rs:578-583).
RefusedOnlyByOthers == refused \in {"none", "stray", "serve"}

\* While the node is on, it mines (mine_ctl) for the address in wallet_address.txt,
\* whatever was typed, restored, sent or queried before: "Start = node + mining".
OnlineMinesForWallet ==
    Idle /\ own = "running" => mineCtl /\ nodePayout = walletFile

\* The recovery phrase is on disk only while a send is in progress ("not saved",
\* dbc-ui.rs:1059), unless a process failed to start or the launcher was killed.
PhraseNotKept == todo = <<>> /\ phrases # {} => faults > 0

\* A handler that will start the node ends with the node started and mining, or with
\* an error: "Send briefly stops the node if it is running, then restarts it."
NodeComesBack ==
    (\E i \in 1..Len(todo) : todo[i] = "spawn")
        ~> \/ ~open
           \/ todo = <<>> /\ (error \/ (NodeRunning /\ mineCtl))

\* With the node on for good, the height in the window becomes the height of the chain,
\* whatever status.json an earlier run, a kill or a send left behind.
ShownCatchesUp ==
    <>[](open /\ own = "running") => <>[](shown = tip)
=============================================================================
