------------------------------ MODULE RulesMC ------------------------------
(***************************************************************************)
(* The consensus rules, the snapshots of the coins and the life of the     *)
(* process, each on a small instance: one behaviour runs one of the        *)
(* machines, named by rrun; the variables of the others rest.              *)
(***************************************************************************)
EXTENDS Pow, VersionBits, BlockCheck, Snapshot, NodeLife

VARIABLE rrun

\* Operands of every length, with and without carries at every limb.
MCOperands == (0 .. 5) \cup {2 ^ i - 1 : i \in 0 .. BITS} \cup {2 ^ i + 1 : i \in 3 .. BITS - 1}

MCDeploymentHeight == [v \in 2 .. 4 |-> v]

----------------------------------------------------------------------------
\* Two deployments by signalling, one with a short window, one with a minimum
\* height, on trees with a fork in the middle of a period.
Blk(p, h, t, top, bit) ==
    [parent |-> p, height |-> h, time |-> t, version |-> [top |-> top, bit |-> bit]]
Window(start, timeout, height) ==
    [kind |-> "timed", start |-> start, timeout |-> timeout, height |-> height]
MCDeployments ==
    [d \in {"a", "b", "c", "d"} |->
        CASE d = "a" -> Window(3, 6, 0)
          [] d = "b" -> Window(2, 30, 9)
          [] d = "c" -> [Window(0, 0, 0) EXCEPT !.kind = "always"]
          [] d = "d" -> [Window(0, 0, 0) EXCEPT !.kind = "never"]]
MCTrees ==
    {<< Blk(0, 0, 0, TRUE, FALSE), Blk(1, 1, 2, TRUE, FALSE), Blk(2, 2, 7, TRUE, v),
        Blk(3, 3, 3, TRUE, FALSE), Blk(4, 4, 4, TRUE, w), Blk(5, 5, 5, TRUE, TRUE),
        Blk(4, 4, 8, TRUE, TRUE), Blk(7, 5, 9, TRUE, TRUE), Blk(8, 6, 10, TRUE, FALSE),
        Blk(9, 7, 11, FALSE, TRUE), Blk(10, 8, 12, TRUE, FALSE) >> : v, w \in BOOLEAN}

----------------------------------------------------------------------------
\* Transactions and bodies: final and not yet final ones, a coinbase of the
\* wrong height, doubled inputs, outputs above MAX_MONEY, with and without
\* witnesses.
In(p, f) == [prevout |-> p, final |-> f]
Tx(cb, vin, vout, kind, at) ==
    [cb |-> cb, vin |-> vin, vout |-> vout, size |-> 2, sigops |-> 1, script |-> 4,
     height |-> IF cb THEN 5 ELSE 0, lock |-> [kind |-> kind, at |-> at]]
Coinbase == Tx(TRUE, << In("null", TRUE) >>, << 5 >>, "height", 0)
MCTxInfo ==
    [n \in {"cb", "cb4", "a", "b", "c", "late", "dup", "inflate", "pair"} |->
        CASE n = "cb" -> Coinbase
          [] n = "cb4" -> [Coinbase EXCEPT !.height = 4]
          [] n = "a" -> Tx(FALSE, << In("p", FALSE) >>, << 1, 2 >>, "height", 0)
          [] n = "b" -> Tx(FALSE, << In("q", FALSE) >>, << 1 >>, "height", 4)
          [] n = "c" -> Tx(FALSE, << In("r", FALSE) >>, << 1 >>, "time", 7)
          [] n = "late" -> Tx(FALSE, << In("r", FALSE) >>, << 1 >>, "height", 5)
          [] n = "dup" -> Tx(FALSE, << In("r", FALSE), In("r", TRUE) >>, << 1 >>, "height", 0)
          [] n = "inflate" -> Tx(FALSE, << In("s", FALSE) >>, << 9, 9 >>, "height", 0)
          [] n = "pair" -> Tx(FALSE, << In("z", FALSE) >>, << 1 >>, "height", 0)]

Use(t, w) == [tx |-> t, wit |-> w, commit |-> << >>, inner |-> << >>]
Body(names, segwit) == [i \in DOMAIN names |-> Use(names[i], IF i \in segwit THEN "w1" ELSE "none")]
MCContexts ==
    [ctx : [root : {<< >>}, pow : {TRUE}, signed : {TRUE}, height : {5}, time : {9},
            mtp : {6}, segwit : BOOLEAN, csv : BOOLEAN, bip34 : {TRUE}],
     commits : BOOLEAN,
     vtx : {Body(<< "cb", "a", "b" >>, {2}), Body(<< "cb", "a", "b" >>, {}),
            Body(<< "cb", "a" >>, {2}), Body(<< "cb" >>, {}), Body(<< "cb", "c", "a" >>, {3}),
            Body(<< "cb4", "c" >>, {}), Body(<< "cb", "late" >>, {}), Body(<< "cb", "dup" >>, {2}),
            Body(<< "cb", "inflate" >>, {2}), Body(<< "a", "b" >>, {}),
            Body(<< "cb", "a", "b", "c", "c" >>, {3, 4}),
            Body(<< "cb", "a", "b", "c", "inflate", "late" >>, {3})}]

----------------------------------------------------------------------------
\* Snapshots: a good file and bad ones.
SnapFile(header, params, coins, count, hash) ==
    [header |-> header, params |-> params, coins |-> coins, count |-> count, hash |-> hash]

MCSnapFiles ==
    [good      |-> SnapFile(TRUE, TRUE, <<"good", "good">>, 2, "match"),
     unknown   |-> SnapFile(FALSE, TRUE, <<"good">>, 1, "match"),
     truncated |-> SnapFile(TRUE, TRUE, <<"good">>, 2, "match"),
     longer    |-> SnapFile(TRUE, TRUE, <<"good", "good">>, 1, "match"),
     other     |-> SnapFile(TRUE, TRUE, <<"good">>, 1, "other")]

----------------------------------------------------------------------------
Rest == << >>
ArithRest == areg = Rest /\ anum = Rest
PowRest == hchain = Rest /\ hcheck = Rest /\ hnow = Rest
VersionRest == vtree = Rest /\ vknown = Rest /\ vcache = Rest
BlockRest == bctx = Rest /\ bhonest = Rest /\ bstat = Rest /\ bstored = Rest
SnapRest ==
    /\ sup = "off" /\ sibd = NoChainstate /\ ssnap = NoChainstate
    /\ sactive = "none" /\ spool = [owner |-> "none", size |-> 0] /\ sload = Idle
    /\ sdirs = [default |-> EmptyDir, snapshot |-> NoDir, todelete |-> NoDir, invalid |-> NoDir]
    /\ sdata = {} /\ sright = TRUE /\ sknown = TRUE /\ sstory = "none" /\ sfaults = 0
NodeRest ==
    /\ npc = "setup" /\ nok = TRUE /\ nreq = FALSE /\ nintr = FALSE
    /\ nlive = {} /\ nthr = {} /\ nwait = {} /\ nlisten = {} /\ ntasks = {} /\ nwarm = FALSE
    /\ nq = << >> /\ ntip = 0 /\ ndisk = 0 /\ nidx = [mem |-> 0, disk |-> 0, synced |-> FALSE]
    /\ nload = "import" /\ nloaded = 0 /\ ntried = FALSE /\ nfile = LPoolFile

RulesInit ==
    \/ /\ rrun = "arith" /\ ArithInit
       /\ PowRest /\ VersionRest /\ BlockRest /\ SnapRest /\ NodeRest
    \/ /\ rrun = "pow" /\ PowInit
       /\ ArithRest /\ VersionRest /\ BlockRest /\ SnapRest /\ NodeRest
    \/ /\ rrun = "version" /\ VersionInit
       /\ ArithRest /\ PowRest /\ BlockRest /\ SnapRest /\ NodeRest
    \/ /\ rrun = "block" /\ BlockInit
       /\ ArithRest /\ PowRest /\ VersionRest /\ SnapRest /\ NodeRest
    \/ /\ rrun = "snapshot" /\ SnapInit
       /\ ArithRest /\ PowRest /\ VersionRest /\ BlockRest /\ NodeRest
    \/ /\ rrun = "life" /\ NodeInit
       /\ ArithRest /\ PowRest /\ VersionRest /\ BlockRest /\ SnapRest

RulesNext ==
    \/ /\ rrun = "arith" /\ ArithNext
       /\ UNCHANGED <<rrun, powVars, versionVars, blockVars, snapVars, nodeVars>>
    \/ /\ rrun = "pow" /\ PowNext
       /\ UNCHANGED <<rrun, arithVars, versionVars, blockVars, snapVars, nodeVars>>
    \/ /\ rrun = "version" /\ VersionNext
       /\ UNCHANGED <<rrun, arithVars, powVars, blockVars, snapVars, nodeVars>>
    \/ /\ rrun = "block" /\ BlockNext
       /\ UNCHANGED <<rrun, arithVars, powVars, versionVars, snapVars, nodeVars>>
    \/ /\ rrun = "snapshot" /\ SnapNext
       /\ UNCHANGED <<rrun, arithVars, powVars, versionVars, blockVars, nodeVars>>
    \/ /\ rrun = "life" /\ NodeNext
       /\ UNCHANGED <<rrun, arithVars, powVars, versionVars, blockVars, snapVars>>

RulesVars == <<rrun, arithVars, powVars, versionVars, blockVars, snapVars, nodeVars>>

\* NodeFair, for the behaviours of the process.
RulesFair ==
    /\ WF_nodeVars(rrun = "life" /\ Main) /\ WF_nodeVars(rrun = "life" /\ SchedulerThread)
    /\ WF_nodeVars(rrun = "life" /\ LoadThread) /\ WF_nodeVars(rrun = "life" /\ IndexThread)
    /\ WF_nodeVars(rrun = "life" /\ HttpEnds) /\ WF_nodeVars(rrun = "life" /\ NetEnds)
    /\ \A t \in {"net", "http"} : WF_nodeVars(rrun = "life" /\ QueueEmpty(t))

RulesSpec == RulesInit /\ [][RulesNext]_RulesVars /\ RulesFair


\* What a restart finds: never silently the chain from before a snapshot that was
\* in use (NoSilentRevert); after a clean exit the tip and the index that followed
\* it (CleanExitDurable), and never the dump of a mempool.dat half read
\* (MempoolFileKept).
RestartSound == NoSilentRevert /\ (rrun = "life" => CleanExitDurable /\ MempoolFileKept)
============================================================================
