------------------------------ MODULE Startup ------------------------------
(***************************************************************************)
(* What the node does with what it finds at its start: the block files are *)
(* scanned (-reindex, -loadblock), the block database is checked, and the  *)
(* network options are brought into agreement.                             *)
(***************************************************************************)
EXTENDS Sequences, FiniteSets, Integers

----------------------------------------------------------------------------
(***************************************************************************)
(* LoadExternalBlockFile (validation.cpp): the block files are scanned     *)
(* from front to back to rebuild the block index (-reindex), or a foreign  *)
(* file is imported (-loadblock).  Blocks may lie in any order, twice, or  *)
(* broken.  A block whose parent is not known yet is remembered with its   *)
(* place and read again when the parent has been accepted.                 *)
(***************************************************************************)

CONSTANTS
    RParent,       \* block -> parent; the genesis block is its own
    RBad,          \* blocks that the checks refuse
    RLayouts,      \* sequences of files; a file is a sequence of entries
    RStops         \* bound on interruptions

RBlocks == DOMAIN RParent
RGenesis == CHOOSE b \in RBlocks : RParent[b] = b

VARIABLES
    rfiles,    \* the files: an entry is [block, whole]
    rmode,     \* "reindex" or "import"
    rat,       \* the next entry: <<file, entry>>
    runknown,  \* blocks_with_unknown_parent: {<<block, place>>}
    rqueue,    \* the accepted blocks whose successors are still to be read
    rindex,    \* block -> place of its data
    rsaved,    \* the part of rindex that has reached the disk
    rup,       \* "scan", "error", "done"
    rstops

reindexVars == <<rfiles, rmode, rat, runknown, rqueue, rindex, rsaved, rup, rstops>>

Entry(place) == rfiles[place[1]][place[2]]
Readable(place) == Entry(place).whole

\* A failed block is in the index without data.
NoData == <<0, 0>>
Known(b) == b \in DOMAIN rindex
Have(b) == Known(b) /\ rindex[b] # NoData
ParentKnown(b) == b = RGenesis \/ Known(RParent[b])

\* AcceptBlock (as requested) for a block with a known parent: the header is
\* refused below a failed block, the body may fail, else the place is noted.
Accepts(b) == b \notin RBad /\ (b = RGenesis \/ Have(RParent[b]))
AcceptBlock(b, place) ==
    IF Known(b) \/ ~(b = RGenesis \/ Have(RParent[b])) THEN rindex
    ELSE [x \in DOMAIN rindex \cup {b} |->
             IF x # b THEN rindex[x] ELSE IF b \in RBad THEN NoData ELSE place]

\* Where the data of an imported block goes (SaveBlockToDisk).
NewPlace == <<0, 1>>

ReindexInit ==
    /\ rfiles \in RLayouts /\ rmode \in {"reindex", "import"}
    /\ rat = <<1, 1>> /\ runknown = {} /\ rqueue = << >>
    /\ rindex = << >> /\ rsaved = << >>
    /\ rup = "scan" /\ rstops = 0

Advance == IF rat[2] < Len(rfiles[rat[1]]) THEN <<rat[1], rat[2] + 1>> ELSE <<rat[1] + 1, 1>>
AtEnd == rat[1] > Len(rfiles)
AtEntry == rup = "scan" /\ rqueue = << >> /\ ~AtEnd

\* Bytes that are no block (no message start, a size out of range), or a block
\* that does not deserialise: the scan goes on behind them.  The header of a
\* broken block is still read, so it may be taken for one with unknown parent.
SkipJunk ==
    /\ AtEntry
    /\ \/ Entry(rat).block = "junk"
       \/ /\ Entry(rat).block # "junk" /\ ~Entry(rat).whole
          /\ ParentKnown(Entry(rat).block) /\ ~Have(Entry(rat).block)
    /\ rat' = Advance
    /\ UNCHANGED <<rfiles, rmode, runknown, rqueue, rindex, rsaved, rup, rstops>>

\* The mutated form of OutOfOrder: the place of the next entry is remembered.
OutOfOrder_Place ==
    /\ AtEntry /\ Entry(rat).block # "junk" /\ ~ParentKnown(Entry(rat).block)
    /\ runknown' = IF rmode = "reindex" THEN runknown \cup {<<Entry(rat).block, <<1, 1>> >>}
                   ELSE runknown
    /\ rat' = Advance
    /\ UNCHANGED <<rfiles, rmode, rqueue, rindex, rsaved, rup, rstops>>

\* The parent is not in the index: remember the block, with its place, by parent.
OutOfOrder ==
    /\ AtEntry /\ Entry(rat).block # "junk" /\ ~ParentKnown(Entry(rat).block)
    /\ runknown' = IF rmode = "reindex" THEN runknown \cup {<<Entry(rat).block, rat>>}
                   ELSE runknown
    /\ rat' = Advance
    /\ UNCHANGED <<rfiles, rmode, rqueue, rindex, rsaved, rup, rstops>>

\* A block in order: accepted unless it is known with its data or refused; in
\* each case the successors met earlier are looked up next.
InOrder ==
    /\ AtEntry /\ Entry(rat).block # "junk"
    /\ LET b == Entry(rat).block
       IN  /\ ParentKnown(b) /\ (Have(b) \/ Entry(rat).whole)
           /\ rindex' = AcceptBlock(b, IF rmode = "reindex" THEN rat ELSE NewPlace)
           /\ rqueue' = IF rmode = "reindex" THEN <<b>> ELSE << >>
    /\ rat' = Advance
    /\ UNCHANGED <<rfiles, rmode, runknown, rsaved, rup, rstops>>

\* A system error of AcceptBlock (a full disk) ends the scan.
SystemError ==
    /\ AtEntry /\ rstops < RStops
    /\ Entry(rat).block \in {b \in RBlocks : ParentKnown(b) /\ ~Have(b)}
    /\ rup' = "error" /\ rstops' = rstops + 1
    /\ UNCHANGED <<rfiles, rmode, rat, runknown, rqueue, rindex, rsaved>>

\* The successors of the head of the queue, one at a time: read again from its
\* place, accepted or not, and forgotten.
Successor ==
    /\ rup = "scan" /\ rqueue # << >>
    /\ \E u \in runknown :
        /\ RParent[u[1]] = Head(rqueue)
        /\ runknown' = runknown \ {u}
        /\ rindex' = IF Readable(u[2]) THEN AcceptBlock(u[1], u[2]) ELSE rindex
        /\ rqueue' = IF Readable(u[2]) /\ Accepts(u[1]) THEN Append(rqueue, u[1]) ELSE rqueue
    /\ UNCHANGED <<rfiles, rmode, rat, rsaved, rup, rstops>>

NoSuccessor ==
    /\ rup = "scan" /\ rqueue # << >>
    /\ ~\E u \in runknown : RParent[u[1]] = Head(rqueue)
    /\ rqueue' = Tail(rqueue)
    /\ UNCHANGED <<rfiles, rmode, rat, runknown, rindex, rsaved, rup, rstops>>

\* The block index is flushed meanwhile.
FlushIndex ==
    /\ rup = "scan" /\ rsaved # rindex
    /\ rsaved' = rindex
    /\ UNCHANGED <<rfiles, rmode, rat, runknown, rqueue, rindex, rup, rstops>>

\* Interrupted or crashed: the next start reads all the files again.
StopScan ==
    /\ rup # "done" /\ rstops < RStops
    /\ rstops' = rstops + 1
    /\ rat' = <<1, 1>> /\ runknown' = {} /\ rqueue' = << >>
    /\ rindex' = rsaved /\ rup' = "scan"
    /\ UNCHANGED <<rfiles, rmode, rsaved>>

EndScan ==
    /\ rup = "scan" /\ AtEnd /\ rqueue = << >>
    /\ rup' = "done"
    /\ UNCHANGED <<rfiles, rmode, rat, runknown, rqueue, rindex, rsaved, rstops>>

ReindexNext ==
    \/ SkipJunk \/ OutOfOrder \/ InOrder \/ SystemError \/ Successor \/ NoSuccessor
    \/ FlushIndex \/ StopScan \/ EndScan

----------------------------------------------------------------------------
Stored == {e.block : e \in {x \in UNION {{f[i] : i \in DOMAIN f} :
                                         f \in {rfiles[k] : k \in DOMAIN rfiles}} : x.whole}}

\* The blocks that are there with all their ancestors.
RConnected ==
    LET up[b \in RBlocks] == /\ b \in Stored \ RBad
                             /\ b = RGenesis \/ up[RParent[b]]
    IN  {b \in RBlocks : up[b]}

\* In whatever order, how often and how broken the blocks lie in the files, and
\* however often the scan was interrupted, a finished -reindex knows exactly the
\* blocks that are there with all their ancestors, and the place noted for each
\* holds that block, whole.
ReindexComplete ==
    /\ rup = "done" /\ rmode = "reindex" => {b \in RBlocks : Have(b)} = RConnected
    /\ rmode = "reindex" =>
        \A b \in {x \in RBlocks : Have(x)} : Entry(rindex[b]).block = b /\ Readable(rindex[b])

----------------------------------------------------------------------------
(***************************************************************************)
(* CVerifyDB::VerifyDB (validation.cpp): from the tip back, a block is     *)
(* read, checked, its undo data read and, on a copy of the coins, undone,  *)
(* as far as the level says; then, at level 4, the blocks are connected    *)
(* again.  The memory for the copy is limited.                             *)
(***************************************************************************)

CONSTANTS
    VHeight,    \* the height of the chain
    VFaults,    \* the sets of faults tried: height -> what is wrong there
    VMemory     \* blocks that can be undone before the cache is full

VARIABLES
    vfault, vlevel, vdepth,
    vskips,    \* pruned, or a chainstate from a snapshot: data may be missing
    vmem,      \* the limit of this run
    vat,       \* pindex
    vcoins,    \* the height the copy of the coins is at
    vflags,    \* pindexFailure, skipped_no_block_data, skipped_l3_checks
    vres       \* "" while it runs

verifyVars == <<vfault, vlevel, vdepth, vskips, vmem, vat, vcoins, vflags, vres>>
verifyGiven == <<vfault, vlevel, vdepth, vskips, vmem>>

Min2(a, b) == IF a < b THEN a ELSE b

\* nCheckDepth and nCheckLevel are brought into range first.
VerifyInit ==
    /\ vfault \in VFaults
    /\ \E level \in -1 .. 5 : vlevel = IF level < 0 THEN 0 ELSE Min2(level, 4)
    /\ \E depth \in -1 .. VHeight + 1 :
           vdepth = IF depth <= 0 \/ depth > VHeight THEN VHeight ELSE depth
    /\ vskips \in BOOLEAN /\ vmem \in VMemory
    /\ vat = VHeight /\ vcoins = VHeight
    /\ vflags = {} /\ vres = ""

VEnds(res) == vres' = res /\ UNCHANGED <<verifyGiven, vat, vcoins, vflags>>

\* The loop down has reached the depth, the genesis block, or a missing block.
Bottom == vat <= VHeight - vdepth \/ vat = 0
NoBlock == vskips /\ vat > 0 /\ vfault[vat] = "nodata"
Down == vres = "" /\ "up" \notin vflags

\* What each level finds in the block at hand.
Corrupt(level) ==
    \/ vfault[vat] \in {"nodata", "unread"}
    \/ level >= 1 /\ vfault[vat] = "invalid"
    \/ level >= 2 /\ vfault[vat] = "badundo"
    \/ level >= 3 /\ vfault[vat] = "failed" /\ VHeight - vat < vmem

\* One block down: undone on the copy unless the cache is full; then m_interrupt
\* is looked at.
VerifyDown ==
    /\ Down /\ ~Bottom /\ ~NoBlock /\ ~Corrupt(vlevel)
    /\ IF vlevel < 3 THEN UNCHANGED <<vcoins, vflags>>
       ELSE IF VHeight - vat >= vmem
       THEN vflags' = vflags \cup {"l3"} /\ UNCHANGED vcoins
       ELSE /\ vcoins' = vat - 1
            /\ vflags' = IF vfault[vat] = "unclean" THEN vflags \cup {"unclean"} ELSE vflags
    /\ vat' = vat - 1 /\ vres' \in {"", "INTERRUPTED"}
    /\ UNCHANGED verifyGiven

VerifyCorrupt ==
    /\ Down /\ ~Bottom /\ ~NoBlock /\ Corrupt(vlevel)
    /\ VEnds("CORRUPTED_BLOCK_DB")

VerifyTurn ==
    /\ Down /\ (Bottom \/ NoBlock)
    /\ IF "unclean" \in vflags THEN VEnds("CORRUPTED_BLOCK_DB")
       ELSE /\ vflags' = vflags \cup {"up"} \cup (IF Bottom THEN {} ELSE {"nodata"})
            /\ UNCHANGED <<verifyGiven, vat, vcoins, vres>>

\* Level 4: the next block is read and connected to the copy.
Reconnects == "up" \in vflags /\ vres = "" /\ vlevel >= 4 /\ "l3" \notin vflags

VerifyUp ==
    /\ Reconnects /\ vat < VHeight
    /\ IF vfault[vat + 1] \in {"unread", "nodata", "unconnectable"} THEN VEnds("CORRUPTED_BLOCK_DB")
       ELSE /\ vat' = vat + 1 /\ vcoins' = vat + 1
            /\ vres' \in {"", "INTERRUPTED"}
            /\ UNCHANGED <<verifyGiven, vflags>>

VerifyEnd ==
    /\ "up" \in vflags /\ vres = ""
    /\ ~Reconnects \/ vat = VHeight
    /\ VEnds(IF "l3" \in vflags THEN "SKIPPED_L3_CHECKS"
            ELSE IF "nodata" \in vflags THEN "SKIPPED_MISSING_BLOCKS" ELSE "SUCCESS")

VerifyNext == VerifyDown \/ VerifyCorrupt \/ VerifyTurn \/ VerifyUp \/ VerifyEnd

----------------------------------------------------------------------------
\* What level 4, 3, ... can see of a block.
Visible(level) ==
    {"unread", "nodata"} \cup (IF level >= 1 THEN {"invalid"} ELSE {})
    \cup (IF level >= 2 THEN {"badundo"} ELSE {})
    \cup (IF level >= 3 THEN {"failed", "unclean"} ELSE {})
    \cup (IF level >= 4 THEN {"unconnectable"} ELSE {})
Window == {h \in 1 .. VHeight : h > VHeight - vdepth}

\* The blocks that the run says something about.
Covered == {h \in Window : vskips => \A k \in h .. VHeight : vfault[k] # "nodata"}
Skipped == {"SKIPPED_L3_CHECKS", "SKIPPED_MISSING_BLOCKS"}

\* SUCCESS means that no block within the depth has a fault that the level looks
\* for; a check that skipped something still answers for what it did look at; a
\* corruption is reported only if there is one; and the copy of the coins is at
\* the block that is undone or connected next (the assertion on its best block),
\* also when the cache fills up on the way.
VerdictExact ==
    /\ vres = "SUCCESS" => \A h \in Window : vfault[h] \notin Visible(vlevel)
    /\ vres \in Skipped => \A h \in Covered :
           vfault[h] \notin Visible(IF "l3" \in vflags THEN 2 ELSE vlevel)
    /\ vres = "CORRUPTED_BLOCK_DB" => \E h \in Window : vfault[h] \in Visible(vlevel)
    /\ (Down /\ vlevel >= 3 /\ VHeight - vat < vmem) => vcoins = vat
    /\ Reconnects => vcoins = vat

----------------------------------------------------------------------------
(***************************************************************************)
(* How the network options act on each other at the start (init.cpp):      *)
(* InitParameterInteraction sets options that the user left open,          *)
(* AppInitParameterInteraction refuses contradictions, and AppInitMain     *)
(* derives the reachable networks and their proxies.                       *)
(***************************************************************************)

CONSTANT OMost    \* how many options a user sets at once

Flags == {"bind", "connect", "listen", "upnp", "natpmp", "discover", "listenonion", "i2paccept",
          "externalip", "blocksonly", "whitelistrelay", "whitelistforcerelay", "dnsseed",
          "forcednsseed", "cjdnsreachable", "i2psam"}
\* -proxy and -onion take an address, "0" or nothing; -onlynet a set of networks.
OAddrs == {"proxy", "onion"}
ONets == {"ipv4", "ipv6", "onion", "i2p", "cjdns"}
Unset == {"unset"}

VARIABLES
    ogiven,    \* what the user set: option -> value, as sets of strings
    oset,      \* the settings, with what the program set itself
    ostep, oreach, oproxy

optionVars == <<ogiven, oset, ostep, oreach, oproxy>>

OptionChoices(n) == IF n = "onlynet" THEN {{"ipv4"}, {"onion"}, {"i2p"}, {"cjdns"}, {"ipv6", "onion"}}
              ELSE IF n \in OAddrs THEN {{"addr"}, {"0"}}
              ELSE IF n \in {"bind", "externalip", "i2psam"} THEN {{"1"}}
              ELSE {{"0"}, {"1"}}
AllOptions == Flags \cup OAddrs \cup {"onlynet"}

OptionsInit ==
    /\ \E k \in 0 .. OMost : \E on \in {S \in SUBSET AllOptions : Cardinality(S) = k} :
        \E f \in [on -> UNION {OptionChoices(n) : n \in AllOptions}] :
            /\ \A n \in on : f[n] \in OptionChoices(n)
            /\ ogiven = [n \in AllOptions |-> IF n \in on THEN f[n] ELSE Unset]
    /\ oset = ogiven /\ ostep = "interact"
    /\ oreach = ONets /\ oproxy = {}

IsArgSet(o, n) == o[n] # Unset
\* GetBoolArg: the value, or the default.
GetBoolArg(o, n, default) == IF o[n] = Unset THEN default ELSE o[n] # {"0"}
DefaultOn == {"listen", "discover", "listenonion", "i2paccept", "dnsseed", "whitelistrelay"}
On(o, n) == GetBoolArg(o, n, n \in DefaultOn)

SoftSetBoolArg(o, n, v) == IF IsArgSet(o, n) THEN o ELSE [o EXCEPT ![n] = {v}]
SoftOff(o, names) ==
    [n \in DOMAIN o |-> IF n \in names THEN SoftSetBoolArg(o, n, "0")[n] ELSE o[n]]

\* The rules, in the order of the code.
BindListens(o) == IF IsArgSet(o, "bind") THEN SoftSetBoolArg(o, "listen", "1") ELSE o
ConnectOnly(o) == IF IsArgSet(o, "connect") THEN SoftOff(o, {"dnsseed", "listen"}) ELSE o
ProxyHides(o) == IF o["proxy"] = {"addr"} THEN SoftOff(o, {"listen", "upnp", "natpmp", "discover"}) ELSE o
NotListening(o) ==
    IF ~On(o, "listen") THEN SoftOff(o, {"upnp", "natpmp", "discover", "listenonion", "i2paccept"}) ELSE o
ExternalIp(o) == IF IsArgSet(o, "externalip") THEN SoftOff(o, {"discover"}) ELSE o
BlocksOnly(o) == IF On(o, "blocksonly") THEN SoftOff(o, {"whitelistrelay"}) ELSE o
ForceRelay(o) == IF On(o, "whitelistforcerelay") THEN SoftSetBoolArg(o, "whitelistrelay", "1") ELSE o
NoClearnet(o) ==
    IF IsArgSet(o, "onlynet") /\ o["onlynet"] \cap {"ipv4", "ipv6"} = {} THEN SoftOff(o, {"dnsseed"}) ELSE o

InitParameterInteraction ==
    /\ ostep = "interact" /\ ostep' = "check"
    /\ \E a \in {ProxyHides(ConnectOnly(BindListens(oset)))} : \E b \in {ExternalIp(NotListening(a))} :
           oset' = NoClearnet(ForceRelay(BlocksOnly(b)))
    /\ UNCHANGED <<ogiven, oreach, oproxy>>

\* AppInitParameterInteraction: contradictions end the start.
Contradiction ==
    \/ On(oset, "forcednsseed") /\ ~On(oset, "dnsseed")
    \/ IsArgSet(oset, "bind") /\ ~On(oset, "listen")
    \/ ~On(oset, "listen") /\ On(oset, "listenonion")

CheckOptions ==
    /\ ostep = "check"
    /\ ostep' = IF Contradiction THEN "refused" ELSE "reach"
    /\ UNCHANGED <<ogiven, oset, oreach, oproxy>>

\* -onlynet and -cjdnsreachable.
SetReachable ==
    /\ ostep = "reach"
    /\ LET only == IF IsArgSet(oset, "onlynet") THEN oset["onlynet"] ELSE ONets
           cj == IF IsArgSet(oset, "cjdnsreachable") THEN only ELSE only \ {"cjdns"}
       IN  /\ oreach' = cj
           /\ ostep' = IF \/ /\ IsArgSet(oset, "onlynet") /\ ~IsArgSet(oset, "cjdnsreachable")
                             /\ "cjdns" \in only
                          \/ oset["dnsseed"] = {"1"} /\ cj \cap {"ipv4", "ipv6"} = {}
                       THEN "refused" ELSE "proxy"
    /\ UNCHANGED <<ogiven, oset, oproxy>>

\* -proxy serves all but I2P; -onion replaces it for Tor or forbids Tor.
OnionProxy == \/ oset["onion"] = {"addr"}
              \/ oset["proxy"] = {"addr"} /\ oset["onion"] # {"0"}
OnlyOnion == IsArgSet(oset, "onlynet") /\ "onion" \in oreach

SetProxies ==
    /\ ostep = "proxy"
    /\ oproxy' = (IF oset["proxy"] = {"addr"} THEN {"ipv4", "ipv6", "cjdns"} ELSE {})
                 \cup (IF OnionProxy THEN {"onion"} ELSE {})
    /\ oreach' = IF OnionProxy THEN oreach ELSE oreach \ {"onion"}
    /\ ostep' = IF OnlyOnion /\ ~OnionProxy /\ (oset["onion"] = {"0"} \/ ~On(oset, "listenonion"))
                THEN "refused" ELSE "i2p"
    /\ UNCHANGED <<ogiven, oset>>

SetI2P ==
    /\ ostep = "i2p"
    /\ IF On(oset, "i2psam")
       THEN oproxy' = oproxy \cup {"i2p"} /\ ostep' = "started" /\ UNCHANGED oreach
       ELSE /\ oreach' = oreach \ {"i2p"} /\ UNCHANGED oproxy
            /\ ostep' = IF IsArgSet(oset, "onlynet") /\ "i2p" \in oreach THEN "refused" ELSE "started"
    /\ UNCHANGED <<ogiven, oset>>

OptionsNext == InitParameterInteraction \/ CheckOptions \/ SetReachable \/ SetProxies \/ SetI2P

----------------------------------------------------------------------------
\* A value the user gave is never replaced, and a node that was given a proxy and
\* not told to listen neither listens nor looks for its own address nor maps
\* ports, and has no reachable network without a proxy.
OptionsHonoured ==
    ostep = "started" =>
        /\ \A n \in AllOptions : IsArgSet(ogiven, n) => oset[n] = ogiven[n]
        /\ (ogiven["proxy"] = {"addr"} /\ ~IsArgSet(ogiven, "listen") /\ ~IsArgSet(ogiven, "bind"))
               => /\ ~On(oset, "listen") /\ ~On(oset, "listenonion")
                  /\ \A n \in {"upnp", "natpmp", "discover"} : ~IsArgSet(ogiven, n) => ~On(oset, n)
        /\ ogiven["proxy"] = {"addr"} => oreach \subseteq oproxy

\* The start is not refused over options that the program set itself: where the
\* user named none of -listen, -listenonion, -dnsseed and -onlynet, nothing is
\* refused unless they forced DNS seeds against -connect.  A node restricted with -onlynet
\* reaches no other network, and reaches each network it was restricted to,
\* Tor at the latest through its control port.
RestrictionKept ==
    /\ ostep = "started" /\ IsArgSet(ogiven, "onlynet") =>
          /\ oreach \subseteq ogiven["onlynet"]
          /\ \A n \in ogiven["onlynet"] \ oreach : n = "onion" /\ On(oset, "listenonion")
    /\ ostep = "refused" =>
          \/ \E n \in {"listen", "listenonion", "dnsseed", "onlynet"} : IsArgSet(ogiven, n)
          \/ IsArgSet(ogiven, "connect") /\ On(ogiven, "forcednsseed")
============================================================================
