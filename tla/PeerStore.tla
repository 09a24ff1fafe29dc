----------------------------- MODULE PeerStore -----------------------------
(***************************************************************************)
(* What the node remembers of its peers, in memory and on disk: the        *)
(* addresses it may connect to, and the ones it does not talk to.          *)
(***************************************************************************)
EXTENDS Integers, Sequences, SequencesExt, FiniteSets, FiniteSetsExt, Functions

----------------------------------------------------------------------------
(***************************************************************************)
(* The address manager (addrman.cpp): entries by id, the table of new      *)
(* addresses, in which an entry may occur several times, the table of      *)
(* tried ones, the collisions that wait for a test, and the way through    *)
(* the peers file.  The hashes that give a bucket and a position are       *)
(* constants; a slot is <<bucket, position>> and holds an id or 0.  All    *)
(* operations run under the lock cs, so each is one step.  Time has a      *)
(* coarse unit: a minute is 0 units.                                       *)
(***************************************************************************)

CONSTANTS
    Addrs,        \* addresses
    Sources,      \* peers that announce them
    NetOf,        \* NetOf[a]: the network of an address
    NewBucket,    \* NewBucket[m][a][s]: bucket of a announced by s under address map m = 1, 2
    NewPos,       \* NewPos[a][b]: position of a in new bucket b
    TriedSlot,    \* TriedSlot[m][a]: slot of a among the tried
    NewBuckets, Positions,
    MAX_REFS,     \* ADDRMAN_NEW_BUCKETS_PER_ADDRESS
    RETRIES, MAX_FAILURES, HORIZON, MIN_FAIL, REPLACEMENT, TEST_WINDOW,
    COLLISIONS,   \* ADDRMAN_SET_TRIED_COLLISION_SIZE
    Penalty,      \* time_penalty for addresses of others
    AmMaxTime, MaxId, MaxOps,   \* bounds on the clock, the ids and the number of calls
    Starts        \* what has happened before

VARIABLES am, anow, aops

amVars == <<am, anow, aops>>
Maps == DOMAIN NewBucket
Nets == {NetOf[a] : a \in Addrs}
NewSlots == NewBuckets \X Positions
TriedSlots == UNION {Range(TriedSlot[m]) : m \in Maps}
Ids == DOMAIN am.info

Empty ==
    [map |-> 1, info |-> <<>>, addr |-> <<>>, random |-> <<>>, vNew |-> [s \in NewSlots |-> 0], vTried |-> [s \in TriedSlots |-> 0],
     nNew |-> 0, nTried |-> 0, counts |-> [n \in Nets |-> [new |-> 0, tried |-> 0]], lastGood |-> 1, coll |-> {}, idCount |-> 0]

Slot(a, b) == <<b, NewPos[a][b]>>
NewSlot(s, a, src) == Slot(a, NewBucket[s.map][a][src])

\* AddrInfo::IsTerrible
IsTerrible(i) ==
    /\ anow > i.lastTry
    /\ \/ i.time > anow
       \/ anow - i.time > HORIZON
       \/ i.lastSuccess = 0 /\ i.attempts >= RETRIES
       \/ anow - i.lastSuccess > MIN_FAIL /\ i.attempts >= MAX_FAILURES

(***************************************************************************)
(* The operations on a state s of the tables.                              *)
(***************************************************************************)
Without(f, x) == Restrict(f, DOMAIN f \ {x})
With(f, x, v) == [y \in DOMAIN f \cup {x} |-> IF y = x THEN v ELSE f[y]]
Count(s, n, table, d) == [s.counts EXCEPT ![n][table] = @ + d]

\* Create
Create(s, a, src, t) ==
    LET id == s.idCount + 1 IN
    [s EXCEPT !.idCount = id, !.nNew = @ + 1, !.counts = Count(s, NetOf[a], "new", 1), !.addr = With(@, a, id),
              !.random = Append(@, id),
              !.info = With(@, id, [addr |-> a, src |-> src, time |-> t, lastTry |-> 0, lastCount |-> 0, lastSuccess |-> 0,
                                    attempts |-> 0, refs |-> 0, tried |-> FALSE, pos |-> Len(s.random) + 1])]
\* SwapRandom
SwapRandom(s, p, q) ==
    IF p = q THEN s
    ELSE [s EXCEPT !.random[p] = s.random[q], !.random[q] = s.random[p],
                   !.info[s.random[p]].pos = q, !.info[s.random[q]].pos = p]
\* Delete: the entry is swapped with the last of vRandom.
Delete(s, id) ==
    LET w == SwapRandom(s, s.info[id].pos, Len(s.random))
        a == s.info[id].addr
    IN  [w EXCEPT !.random = SubSeq(@, 1, Len(@) - 1), !.counts = Count(s, NetOf[a], "new", -1), !.nNew = @ - 1,
                  !.addr = Without(@, a), !.info = Without(@, id)]
\* ClearNew: an entry that was only here disappears.
ClearNew(s, slot) ==
    LET id == s.vNew[slot] IN
    IF id = 0 THEN s
    ELSE LET c == [s EXCEPT !.vNew[slot] = 0, !.info[id].refs = @ - 1]
         IN  IF c.info[id].refs = 0 THEN Delete(c, id) ELSE c
\* MakeTried: out of every new bucket; whatever has the tried slot goes back to the new bucket of its first source.
OutOfNew(s, id) ==
    [s EXCEPT !.vNew = [x \in NewSlots |-> IF @[x] = id THEN 0 ELSE @[x]], !.nNew = @ - 1,
              !.info[id].refs = @ - Cardinality({x \in NewSlots : s.vNew[x] = id}),
              !.counts = Count(s, NetOf[s.info[id].addr], "new", -1)]
BackToNew(s, old, slot) ==
    LET i == s.info[old]
        u == NewSlot(s, i.addr, i.src)
        c == ClearNew([s EXCEPT !.vTried[slot] = 0, !.info[old].tried = FALSE, !.nTried = @ - 1,
                                !.counts = Count(s, NetOf[i.addr], "tried", -1)], u)
    IN  [c EXCEPT !.vNew[u] = old, !.info[old].refs = 1, !.nNew = @ + 1, !.counts = Count(c, NetOf[i.addr], "new", 1)]
MakeTried(s, id) ==
    LET slot == TriedSlot[s.map][s.info[id].addr]
        n == NetOf[s.info[id].addr]
        o == OutOfNew(s, id)
        b == IF o.vTried[slot] = 0 THEN o ELSE BackToNew(o, o.vTried[slot], slot)
    IN  [b EXCEPT !.vTried[slot] = id, !.info[id].tried = TRUE, !.nTried = @ + 1, !.counts = Count(b, n, "tried", 1)]
\* Good_: without a test before, or with a free slot, the entry becomes tried; otherwise a collision is noted.
Good_(s, id, test, t) ==
    LET g == [s EXCEPT !.lastGood = t, !.info[id].lastSuccess = t, !.info[id].lastTry = t, !.info[id].attempts = 0] IN
    CASE s.info[id].tried \/ s.info[id].refs = 0 -> g
      [] ~s.info[id].tried /\ s.info[id].refs > 0 /\ test /\ s.vTried[TriedSlot[s.map][s.info[id].addr]] # 0 ->
            [g EXCEPT !.coll = IF Cardinality(@) < COLLISIONS THEN @ \cup {id} ELSE @]
      [] OTHER -> MakeTried(g, id)

(***************************************************************************)
(* Calls                                                                   *)
(***************************************************************************)
Sorted(S) == SetToSortSeq(S, <)
Call == aops < MaxOps /\ aops' = aops + 1

\* AddSingle for an address that is known: its time may be refreshed, and by chance it gets another place.
Refreshed(i, a, src, t) ==
    LET pen == IF a = src THEN 0 ELSE Penalty
        gap == IF anow - t < 2 THEN 0 ELSE 1
    IN  IF i.time < t - gap - pen THEN [i EXCEPT !.time = Max({0, t - pen})] ELSE i
\* The rest of AddSingle: the place it hashes to is free, or its holder is terrible or has other places.
Place(s, id, src) ==
    LET u   == NewSlot(s, s.info[id].addr, src)
        cur == s.vNew[u]
        insert == cur = 0 \/ IsTerrible(s.info[cur]) \/ (s.info[cur].refs > 1 /\ s.info[id].refs = 0)
    IN  IF cur = id THEN s
        ELSE IF insert THEN [ClearNew(s, u) EXCEPT !.vNew[u] = id, !.info[id].refs = @ + 1]
        ELSE IF s.info[id].refs = 0 THEN Delete(s, id) ELSE s
AddKnown(s, id, src, t, lucky) ==
    LET r == [s EXCEPT !.info[id] = Refreshed(@, s.info[id].addr, src, t)] IN
    IF t <= r.info[id].time \/ r.info[id].tried \/ r.info[id].refs = MAX_REFS \/ ~lucky THEN r ELSE Place(r, id, src)
AddNew(s, a, src, t) == Place(Create(s, a, src, Max({0, t - IF a = src THEN 0 ELSE Penalty})), s.idCount + 1, src)
AddSingle(s, a, src, t, lucky) ==
    IF a \in DOMAIN s.addr THEN AddKnown(s, s.addr[a], src, t, lucky) ELSE AddNew(s, a, src, t)
Add(a, src, t, lucky) ==
    /\ Call /\ (a \in DOMAIN am.addr \/ (am.idCount < MaxId /\ lucky))
    /\ am' = AddSingle(am, a, src, t, lucky)
    /\ UNCHANGED anow
Good(a) ==
    /\ Call /\ am' = IF a \in DOMAIN am.addr THEN Good_(am, am.addr[a], TRUE, anow) ELSE [am EXCEPT !.lastGood = anow]
    /\ UNCHANGED anow
Attempt(a, count) ==
    /\ Call /\ a \in DOMAIN am.addr
    /\ am' = LET id == am.addr[a]
                 c  == count /\ am.info[id].lastCount < am.lastGood
             IN  [am EXCEPT !.info[id].lastTry = anow, !.info[id].attempts = IF c THEN @ + 1 ELSE @,
                            !.info[id].lastCount = IF c THEN anow ELSE @]
    /\ UNCHANGED anow
Connected(a) ==
    /\ Call /\ a \in DOMAIN am.addr /\ anow > am.info[am.addr[a]].time
    /\ am' = [am EXCEPT !.info[am.addr[a]].time = anow]
    /\ UNCHANGED anow

\* ResolveCollisions_ for one collision: dropped, resolved in favour of the new entry, or still being tested.
Resolve(s, id) ==
    LET gone == [s EXCEPT !.coll = @ \ {id}] IN
    IF id \notin DOMAIN s.info THEN gone
    ELSE LET new == s.info[id]
             cur == s.vTried[TriedSlot[s.map][new.addr]]
         IN  IF cur = 0 THEN Good_(gone, id, FALSE, anow)
             ELSE LET old == s.info[cur] IN
                  IF anow - old.lastSuccess < REPLACEMENT THEN gone
                  ELSE IF anow - old.lastTry < REPLACEMENT THEN IF anow > old.lastTry THEN Good_(gone, id, FALSE, anow) ELSE s
                  ELSE IF anow - new.lastSuccess > TEST_WINDOW THEN Good_(gone, id, FALSE, anow)
                  ELSE s
ResolveCollisions ==
    /\ Call /\ am.coll # {}
    /\ am' = FoldLeft(Resolve, am, Sorted(am.coll))
    /\ UNCHANGED anow
\* SelectTriedCollision_ forgets a collision whose entry is gone; otherwise it names the entry to test.
SelectTriedCollision ==
    /\ Call /\ \E id \in am.coll \ Ids : am' = [am EXCEPT !.coll = @ \ {id}]
    /\ UNCHANGED anow
\* GetAddr_ shuffles vRandom as it draws.
GetAddr ==
    /\ Call /\ \E p \in DOMAIN am.random : p > 1 /\ am' = SwapRandom(am, 1, p)
    /\ UNCHANGED anow

(***************************************************************************)
(* The peers file: Serialize when the node stops, Unserialize when it      *)
(* starts, with the same address map or another.                           *)
(***************************************************************************)
\* The new entries are numbered as they are written; the buckets refer to them by these numbers.
Serialize(s) ==
    LET new   == Sorted({id \in DOMAIN s.info : s.info[id].refs > 0})
        tried == Sorted({id \in DOMAIN s.info : s.info[id].tried})
    IN  [new |-> [k \in DOMAIN new |-> s.info[new[k]]], tried |-> [k \in DOMAIN tried |-> s.info[tried[k]]], map |-> s.map,
         buckets |-> [b \in NewBuckets |-> {k \in DOMAIN new : s.vNew[Slot(s.info[new[k]].addr, b)] = new[k]}]]
Fresh(i) == [i EXCEPT !.lastTry = 0, !.lastCount = 0, !.refs = 0, !.tried = FALSE]
\* The entries of the file get ids; a tried entry whose slot is taken is lost.
LoadNew(s, i) ==
    [s EXCEPT !.info = With(@, s.idCount + 1, [Fresh(i) EXCEPT !.pos = Len(s.random) + 1]), !.addr = With(@, i.addr, s.idCount + 1),
              !.random = Append(@, s.idCount + 1), !.idCount = @ + 1, !.nNew = @ + 1, !.counts = Count(s, NetOf[i.addr], "new", 1)]
LoadTried(s, i) ==
    LET slot == TriedSlot[s.map][i.addr]
        id   == s.idCount + 1
    IN  IF s.vTried[slot] # 0 THEN s
        ELSE [s EXCEPT !.info = With(@, id, [Fresh(i) EXCEPT !.pos = Len(s.random) + 1, !.tried = TRUE]), !.addr = With(@, i.addr, id),
                       !.random = Append(@, id), !.idCount = @ + 1, !.nTried = @ + 1, !.vTried[slot] = id, !.counts = Count(s, NetOf[i.addr], "tried", 1)]
\* A place is restored if the map is the same and it is free; else the place of the first source is tried.
LoadPlace(s, b, k, same) ==
    LET i == s.info[k]
        u == IF same /\ s.vNew[Slot(i.addr, b)] = 0 THEN Slot(i.addr, b) ELSE NewSlot(s, i.addr, i.src)
    IN  IF i.refs >= MAX_REFS \/ s.vNew[u] # 0 THEN s ELSE [s EXCEPT !.vNew[u] = k, !.info[k].refs = @ + 1]
Places(f) == SetToSortSeq({<<b, k>> \in NewBuckets \X DOMAIN f.new : k \in f.buckets[b]},
                          LAMBDA p, q : p[1] < q[1] \/ (p[1] = q[1] /\ p[2] < q[2]))
Unserialize(f, m) ==
    LET empty  == [Empty EXCEPT !.map = m]
        new    == FoldLeft(LoadNew, empty, f.new)
        tried  == FoldLeft(LoadTried, new, f.tried)
        placed == FoldLeft(LAMBDA s, p : LoadPlace(s, p[1], p[2], m = f.map), tried, Places(f))
        lost   == Sorted({id \in DOMAIN placed.info : ~placed.info[id].tried /\ placed.info[id].refs = 0})
    IN  FoldLeft(Delete, placed, lost)
Restart(m) ==
    /\ Call
    /\ \E f \in {Serialize(am)} : am' = Unserialize(f, m)
    /\ UNCHANGED anow

AmTick == anow < AmMaxTime /\ anow' = anow + 1 /\ UNCHANGED <<am, aops>>

\* The calls of the past happened at time st.now; of those to come there are MaxOps - st.last.
Past(s, c) == IF c[1] = "add" THEN AddSingle(s, c[2], c[3], c[4], TRUE) ELSE Good_(s, s.addr[c[2]], TRUE, c[4])
AmInit == \E st \in Starts : anow = st.now /\ aops = st.last /\ am = FoldLeft(Past, Empty, st.calls)
AmNext ==
    \/ \E a \in Addrs, src \in Sources, t \in {0, anow}, lucky \in BOOLEAN : Add(a, src, t, lucky)
    \/ \E a \in Addrs : Good(a) \/ Connected(a) \/ \E c \in BOOLEAN : Attempt(a, c)
    \/ ResolveCollisions \/ SelectTriedCollision \/ GetAddr \/ AmTick
    \/ \E m \in Maps : Restart(m)
AmSpec == AmInit /\ [][AmNext]_amVars

(***************************************************************************)
(* What is read from the tables.                                           *)
(***************************************************************************)
\* Size_
Size_(net, table) == IF net = "any" THEN (IF table = "new" THEN am.nNew ELSE am.nTried) ELSE am.counts[net][table]
\* The tables Select_ may decide to search, over and over, until it finds an entry of the network.
Searched(newOnly, net) ==
    LET new == Size_(net, "new")
        tried == Size_(net, "tried")
    IN  IF am.random = <<>> \/ (newOnly /\ new = 0) \/ new + tried = 0 THEN {}
        ELSE IF newOnly \/ tried = 0 THEN {"new"}
        ELSE IF new = 0 THEN {"tried"} ELSE {"new", "tried"}
\* CheckAddrman: every entry is tried or has as many places in the new table as it counts, every place holds an entry that
\* hashes there, and the maps, the random order and the counts per network agree with the tables.
CheckAddrman ==
    /\ Len(am.random) = am.nTried + am.nNew
    /\ \A id \in Ids : LET i == am.info[id] IN
        /\ IF i.tried THEN i.lastSuccess > 0 /\ i.refs = 0 ELSE i.refs \in 1..MAX_REFS
        /\ i.addr \in DOMAIN am.addr /\ am.addr[i.addr] = id
        /\ i.pos \in DOMAIN am.random /\ am.random[i.pos] = id
        /\ Cardinality({u \in NewSlots : am.vNew[u] = id}) = i.refs
        /\ Cardinality({u \in TriedSlots : am.vTried[u] = id}) = IF i.tried THEN 1 ELSE 0
    /\ \A u \in TriedSlots : am.vTried[u] # 0 => am.vTried[u] \in Ids /\ TriedSlot[am.map][am.info[am.vTried[u]].addr] = u
    /\ \A u \in NewSlots : am.vNew[u] # 0 => am.vNew[u] \in Ids /\ Slot(am.info[am.vNew[u]].addr, u[1]) = u
    /\ \A n \in Nets :
        /\ am.counts[n].new = Cardinality({id \in Ids : ~am.info[id].tried /\ NetOf[am.info[id].addr] = n})
        /\ am.counts[n].tried = Cardinality({id \in Ids : am.info[id].tried /\ NetOf[am.info[id].addr] = n})
    /\ am.nNew = Cardinality({id \in Ids : ~am.info[id].tried}) /\ am.nTried = Cardinality({id \in Ids : am.info[id].tried})

(***************************************************************************)
(* Properties                                                              *)
(***************************************************************************)
\* After any sequence of calls, restarts included, CheckAddrman finds nothing wrong, and the table Select decides to search
\* holds an entry of the network it looks for, so that its loop ends.
TablesConsistent ==
    /\ CheckAddrman
    /\ \A newOnly \in BOOLEAN, net \in Nets \cup {"any"} : \A t \in Searched(newOnly, net) :
        \E id \in (IF t = "new" THEN Range(am.vNew) ELSE Range(am.vTried)) \ {0} : net \in {"any", NetOf[am.info[id].addr]}

\* A collision that is remembered refers to an entry that is gone, or to one that is still new and whose tried slot holds
\* another: SelectTriedCollision reads that slot without looking whether it is empty.
CollisionsMeet ==
    \A id \in am.coll \cap Ids :
        ~am.info[id].tried /\ am.vTried[TriedSlot[am.map][am.info[id].addr]] \notin {0, id}

\* Writing the peers file and reading it back with the same address map keeps every address in each of its places.
FileKeepsPlaces ==
    LET Held(s, v) == [u \in DOMAIN v |-> {a \in DOMAIN s.addr : s.addr[a] = v[u]}]
        b == Unserialize(Serialize(am), am.map)
    IN  Held(b, b.vNew) = Held(am, am.vNew) /\ Held(b, b.vTried) = Held(am, am.vTried)

----------------------------------------------------------------------------
(***************************************************************************)
(* The ban list (banman.cpp) with its file, and the peers file             *)
(* (addrdb.cpp).  Threads ban, unban, clear and dump at the same time; the *)
(* ban file is written in place (common/settings.cpp), the peers file is   *)
(* written beside and renamed.  The node may crash at any point; what a    *)
(* crash leaves of data that was not committed is undetermined.            *)
(***************************************************************************)

CONSTANTS
    Subnets, Untils,   \* subnets, and times until which they may be banned
    Callers,           \* threads
    BmMaxTime, MaxCalls, MaxCrashes, MaxPeers   \* bounds
VARIABLES
    ban,     \* m_banned (subnet -> until), m_is_dirty, the holder of dump_mutex, the ban file
    bcall,   \* bcall[c]: where a thread is in its call, and its copy of the list
    peersf,  \* the peers file: versions 0, 1, ... of the tables, in memory, beside and in place
    btime    \* clock and bounds

bmVars == <<ban, bcall, peersf, btime>>
NoBans == [s \in {} |-> 0]
BmIdle == [pc |-> "idle", copy |-> NoBans]
BmInit ==
    /\ ban = [list |-> NoBans, dirty |-> FALSE, mutex |-> "none", file |-> [ok |-> TRUE, list |-> NoBans, synced |-> TRUE]]
    /\ bcall = [c \in Callers |-> BmIdle]
    /\ peersf = [now |-> 0, tmp |-> "none", tmpv |-> 0, file |-> 0, whole |-> TRUE, pc |-> "idle"]
    /\ btime = [now |-> 1, calls |-> 0, crashes |-> 0, up |-> TRUE]

At(c, pc) == btime.up /\ bcall[c].pc = pc
Goto(c, pc) == bcall' = [bcall EXCEPT ![c].pc = pc]
\* SweepBanned
Swept(list) == Restrict(list, {s \in DOMAIN list : btime.now <= list[s]})
Expired(list) == Swept(list) # list

(***************************************************************************)
(* The calls: the list changes under m_banned_mutex, then DumpBanlist.     *)
(***************************************************************************)
Begin(c) == At(c, "idle") /\ btime.calls < MaxCalls /\ btime' = [btime EXCEPT !.calls = @ + 1] /\ UNCHANGED peersf
\* A ban that ends no later than the one there is changes nothing.
Ban(c, s, until) ==
    /\ Begin(c)
    /\ s \in DOMAIN ban.list => ban.list[s] < until
    /\ ban' = [ban EXCEPT !.list = [x \in DOMAIN @ \cup {s} |-> IF x = s THEN until ELSE @[x]], !.dirty = TRUE]
    /\ Goto(c, "dump")
Unban(c, s) ==
    /\ Begin(c) /\ s \in DOMAIN ban.list
    /\ ban' = [ban EXCEPT !.list = Restrict(@, DOMAIN @ \ {s}), !.dirty = TRUE]
    /\ Goto(c, "dump")
ClearBanned(c) ==
    /\ Begin(c)
    /\ ban' = [ban EXCEPT !.list = NoBans, !.dirty = TRUE]
    /\ Goto(c, "dump")
GetBanned(c) ==
    /\ Begin(c) /\ Expired(ban.list)
    /\ ban' = [ban EXCEPT !.list = Swept(@), !.dirty = TRUE]
    /\ UNCHANGED bcall
\* The scheduler's dump.
DumpBanlist(c) == Begin(c) /\ Goto(c, "dump") /\ UNCHANGED ban

(***************************************************************************)
(* DumpBanlist                                                             *)
(***************************************************************************)
DumpCopy(c) ==
    /\ At(c, "dump") /\ ban.mutex = "none"
    /\ LET dirty == ban.dirty \/ Expired(ban.list) IN
       /\ ban' = [ban EXCEPT !.list = Swept(@), !.dirty = FALSE, !.mutex = IF dirty THEN c ELSE "none"]
       /\ bcall' = [bcall EXCEPT ![c] = IF dirty THEN [pc |-> "open", copy |-> Swept(ban.list)] ELSE BmIdle]
    /\ UNCHANGED <<peersf, btime>>
\* WriteSettings: opening the file empties it.
WriteOpen(c) ==
    /\ At(c, "open")
    /\ \/ /\ ban' = [ban EXCEPT !.file = [@ EXCEPT !.ok = FALSE]]
          /\ Goto(c, "write")
       \/ Goto(c, "failed") /\ UNCHANGED ban
    /\ UNCHANGED <<peersf, btime>>
Write(c) ==
    /\ At(c, "write")
    /\ ban' = [ban EXCEPT !.mutex = "none", !.file = [ok |-> TRUE, list |-> bcall[c].copy, synced |-> FALSE]]
    /\ bcall' = [bcall EXCEPT ![c] = BmIdle]
    /\ UNCHANGED <<peersf, btime>>
WriteFailed(c) ==
    /\ At(c, "failed")
    /\ ban' = [ban EXCEPT !.mutex = "none", !.dirty = TRUE]
    /\ bcall' = [bcall EXCEPT ![c] = BmIdle]
    /\ UNCHANGED <<peersf, btime>>

(***************************************************************************)
(* DumpPeerAddresses: SerializeFileDB writes a temporary file, commits it  *)
(* and renames it over the old one; any step may fail.                     *)
(***************************************************************************)
PeersChange == btime.up /\ peersf.now < MaxPeers /\ peersf' = [peersf EXCEPT !.now = @ + 1] /\ UNCHANGED <<ban, bcall, btime>>
SerializeFileDB(pc, next, tmp) ==
    /\ btime.up /\ peersf.pc = pc
    /\ \/ peersf' = [peersf EXCEPT !.pc = next, !.tmp = tmp, !.tmpv = IF pc = "idle" THEN peersf.now ELSE @]
       \/ pc # "idle" /\ peersf' = [peersf EXCEPT !.pc = "idle", !.tmp = "none"]
    /\ UNCHANGED <<ban, bcall, btime>>
PeersOpen == peersf.now # peersf.file /\ SerializeFileDB("idle", "serialize", "empty")
PeersSerialize == SerializeFileDB("serialize", "commit", "written")
PeersCommit == SerializeFileDB("commit", "rename", "synced")
PeersRename ==
    /\ btime.up /\ peersf.pc = "rename"
    /\ peersf' = [peersf EXCEPT !.pc = "idle", !.tmp = "none", !.file = peersf.tmpv, !.whole = (peersf.tmp = "synced")]
    /\ UNCHANGED <<ban, bcall, btime>>

(***************************************************************************)
(* Crash and start.                                                        *)
(***************************************************************************)
\* What was written and not committed may be lost in part.
Crash ==
    /\ btime.up /\ btime.crashes < MaxCrashes
    /\ btime' = [btime EXCEPT !.up = FALSE, !.crashes = @ + 1]
    /\ \E torn \in {FALSE, ~ban.file.synced} :
        ban' = [ban EXCEPT !.mutex = "none", !.file.ok = @ /\ ~torn, !.file.synced = TRUE]
    /\ bcall' = [c \in Callers |-> BmIdle]
    /\ peersf' = [peersf EXCEPT !.pc = "idle", !.tmp = "none"]
\* LoadBanlist and LoadAddrman: a ban file that cannot be read is made anew; then the constructor dumps.
Start(c) ==
    /\ ~btime.up /\ btime' = [btime EXCEPT !.up = TRUE]
    /\ ban' = IF ban.file.ok THEN [ban EXCEPT !.list = Swept(ban.file.list), !.dirty = Expired(ban.file.list)]
              ELSE [ban EXCEPT !.list = NoBans, !.dirty = TRUE]
    /\ bcall' = [bcall EXCEPT ![c].pc = "dump"]
    /\ UNCHANGED peersf
BmTick == btime.now < BmMaxTime /\ btime' = [btime EXCEPT !.now = @ + 1] /\ UNCHANGED <<ban, bcall, peersf>>

BmNext ==
    \/ \E c \in Callers :
        \/ \E s \in Subnets : Unban(c, s) \/ \E u \in Untils : Ban(c, s, u)
        \/ ClearBanned(c) \/ GetBanned(c) \/ DumpBanlist(c)
        \/ DumpCopy(c) \/ WriteOpen(c) \/ Write(c) \/ WriteFailed(c) \/ Start(c)
    \/ PeersChange \/ PeersOpen \/ PeersSerialize \/ PeersCommit \/ PeersRename \/ Crash \/ BmTick
BmSpec == BmInit /\ [][BmNext]_bmVars

(***************************************************************************)
(* Properties                                                              *)
(***************************************************************************)
\* When no thread is dumping and the list is not dirty, the file holds the list: a ban made while another thread writes, or
\* whose write failed, is not taken for saved.
CleanIsSaved ==
    (btime.up /\ ban.mutex = "none" /\ ~ban.dirty) => ban.file.ok /\ ban.file.list = ban.list

\* Whenever the node crashes, the peers file it finds is a whole one.
PeersFileWhole == peersf.whole
============================================================================
