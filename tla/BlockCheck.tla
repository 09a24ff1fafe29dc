----------------------------- MODULE BlockCheck -----------------------------
(***************************************************************************)
(* The checks of a block's body against its header (validation.cpp,        *)
(* consensus/merkle.cpp, consensus/tx_check.cpp) and what becomes of the   *)
(* header when a body fails them.  A header commits to its transactions by *)
(* a merkle root that some other bodies reproduce, and not at all to the   *)
(* witness of the coinbase: the same header can arrive with many bodies.   *)
(*                                                                         *)
(*   bctx     the header under test and its place: [root, pow, signed,     *)
(*            height, time, mtp, segwit, csv, bip34]                       *)
(*   bhonest  the body that the miner of the header built                  *)
(*   bstat    what the block index says: "header", "failed" or "have"      *)
(*   bstored  the body on disk                                             *)
(*                                                                         *)
(* A transaction in a body is [tx, wit, commit, inner]: a name of TxInfo,  *)
(* its witness, the witness commitment in its outputs and, for a 64-byte   *)
(* transaction that reads as two hashes, those hashes.                     *)
(***************************************************************************)
EXTENDS Integers, SequencesExt

CONSTANTS
    TxInfo,          \* name -> [cb, vin, vout, size, sigops, script, height, lock]
    Contexts,        \* the headers and templates tried
    MaxBlockWeight, MaxSigOpsCost, MaxMoney, WitnessScaleFactor, SignetBlocks

VARIABLES bctx, bhonest, bstat, bstored
blockVars == <<bctx, bhonest, bstat, bstored>>

----------------------------------------------------------------------------
\* Hashes are free constructors.  The hash of a pair of hashes is their
\* concatenation: an inner node is the list of the leaves under it, which is
\* also what makes a 64-byte transaction pass for an inner node.
Txid(t) == IF t.inner # << >> THEN t.inner ELSE << [tx |-> t.tx, commit |-> t.commit] >>
Wtxid(t) == << [tx |-> t.tx, wit |-> t.wit] >>
NullHash == << [tx |-> "null", wit |-> "none"] >>

\* ComputeMerkleRoot: levels of pairs, the last hash of an odd level paired
\* with itself; mutated when a pair holds the same hash twice.
ComputeMerkleRoot(leaves) ==
    LET Level(h) == LET padded == IF Len(h) % 2 = 1 THEN Append(h, h[Len(h)]) ELSE h
                    IN  [i \in 1 .. Len(padded) \div 2 |-> padded[2 * i - 1] \o padded[2 * i]]
        Step(s, i) ==
            IF Len(s.hashes) <= 1 THEN s
            ELSE [hashes |-> Level(s.hashes),
                  mutated |-> \/ s.mutated
                              \/ \E p \in 1 .. Len(s.hashes) \div 2 :
                                     s.hashes[2 * p - 1] = s.hashes[2 * p]]
        done == FoldLeft(Step, [hashes |-> leaves, mutated |-> FALSE],
                         [i \in 1 .. Len(leaves) |-> i])
    IN  [root |-> IF leaves = << >> THEN << >> ELSE done.hashes[1],
         mutated |-> done.mutated]

BlockMerkleRoot(vtx) == ComputeMerkleRoot([i \in DOMAIN vtx |-> Txid(vtx[i])])

\* The witness hash of the coinbase counts as null.
BlockWitnessMerkleRoot(vtx) ==
    ComputeMerkleRoot([i \in DOMAIN vtx |-> IF i = 1 THEN NullHash ELSE Wtxid(vtx[i])]).root

\* The commitment of an output: the hash of the witness root and the reserved
\* value in the coinbase's witness.
Commitment(vtx, nonce) ==
    Append(BlockWitnessMerkleRoot(vtx), [tx |-> "nonce", wit |-> nonce])

----------------------------------------------------------------------------
IsCoinBase(t) == TxInfo[t.tx].cb
HasWitness(t) == t.wit # "none"
Sum(f, vtx) == FoldLeft(LAMBDA s, t : s + f[t.tx], 0, vtx)
Sizes == [n \in DOMAIN TxInfo |-> TxInfo[n].size]
SigOps == [n \in DOMAIN TxInfo |-> TxInfo[n].sigops]
WitnessSize(t) == CASE t.wit = "none" -> 0 [] t.wit = "big" -> MaxBlockWeight [] OTHER -> 1
GetBlockWeight(vtx) == FoldLeft(LAMBDA s, t : s + TxInfo[t.tx].size * WitnessScaleFactor
                                                + WitnessSize(t), 0, vtx)

\* CheckTransaction: the reject reason, "" when valid.
CheckTransaction(n) ==
    LET tx == TxInfo[n]
        Total(i) == FoldLeft(LAMBDA s, v : s + v, 0, SubSeq(tx.vout, 1, i))
        BadOut(i) == CASE tx.vout[i] < 0 -> "bad-txns-vout-negative"
                       [] tx.vout[i] > MaxMoney -> "bad-txns-vout-toolarge"
                       [] Total(i) > MaxMoney -> "bad-txns-txouttotal-toolarge"
                       [] OTHER -> ""
        bad == {i \in DOMAIN tx.vout : BadOut(i) # ""}
    IN  CASE tx.vin = << >> -> "bad-txns-vin-empty"
          [] tx.vout = << >> -> "bad-txns-vout-empty"
          [] tx.size * WitnessScaleFactor > MaxBlockWeight -> "bad-txns-oversize"
          [] bad # {} -> BadOut(CHOOSE i \in bad : \A j \in bad : i <= j)
          [] \E i, j \in DOMAIN tx.vin : i # j /\ tx.vin[i].prevout = tx.vin[j].prevout
                -> "bad-txns-inputs-duplicate"
          [] tx.cb /\ tx.script \notin 2 .. 100 -> "bad-cb-length"
          [] ~tx.cb /\ (\E i \in DOMAIN tx.vin : tx.vin[i].prevout = "null")
                -> "bad-txns-prevout-null"
          [] OTHER -> ""

\* IsFinalTx at a height and a time.
IsFinalTx(n, height, time) ==
    LET tx == TxInfo[n]
    IN  \/ tx.lock.at = 0
        \/ tx.lock.at < (IF tx.lock.kind = "height" THEN height ELSE time)
        \/ \A i \in DOMAIN tx.vin : tx.vin[i].final

----------------------------------------------------------------------------
\* A verdict is the BlockValidationResult and the reject reason.
Valid == [result |-> "VALID", reason |-> ""]
Consensus(reason) == [result |-> "BLOCK_CONSENSUS", reason |-> reason]
Mutated(reason) == [result |-> "BLOCK_MUTATED", reason |-> reason]
IsValid(v) == v.result = "VALID"

CheckBlockHeader(ctx) ==
    IF ctx.pow THEN Valid ELSE [result |-> "BLOCK_INVALID_HEADER", reason |-> "high-hash"]

CheckMerkleRoot(ctx, vtx) ==
    LET m == BlockMerkleRoot(vtx)
    IN  CASE m.root # ctx.root -> Mutated("bad-txnmrklroot")
          [] m.mutated -> Mutated("bad-txns-duplicate")
          [] OTHER -> Valid

\* CheckWitnessMalleation, with GetWitnessCommitmentIndex for the commitment.
CheckWitnessMalleation(vtx, expect) ==
    IF expect /\ vtx # << >> /\ vtx[1].commit # << >>
    THEN CASE vtx[1].wit \in {"none", "short", "big"} -> Mutated("bad-witness-nonce-size")
           [] vtx[1].commit # Commitment(vtx, vtx[1].wit) -> Mutated("bad-witness-merkle-match")
           [] OTHER -> Valid
    ELSE IF \E i \in DOMAIN vtx : HasWitness(vtx[i]) THEN Mutated("unexpected-witness")
    ELSE Valid

\* CheckBlock with its header and merkle root checks on.  fChecked only skips
\* the same checks of the same object, so it does not show.
CheckBlock(ctx, vtx) ==
    LET bad == {i \in DOMAIN vtx : CheckTransaction(vtx[i].tx) # ""}
    IN  CASE ~IsValid(CheckBlockHeader(ctx)) -> CheckBlockHeader(ctx)
          [] SignetBlocks /\ ~ctx.signed -> Consensus("bad-signet-blksig")
          [] ~IsValid(CheckMerkleRoot(ctx, vtx)) -> CheckMerkleRoot(ctx, vtx)
          [] \/ vtx = << >>
             \/ Len(vtx) * WitnessScaleFactor > MaxBlockWeight
             \/ Sum(Sizes, vtx) * WitnessScaleFactor > MaxBlockWeight -> Consensus("bad-blk-length")
          [] ~IsCoinBase(vtx[1]) -> Consensus("bad-cb-missing")
          [] \E i \in 2 .. Len(vtx) : IsCoinBase(vtx[i]) -> Consensus("bad-cb-multiple")
          [] bad # {} -> Consensus(CheckTransaction(vtx[CHOOSE i \in bad : \A j \in bad : i <= j].tx))
          [] Sum(SigOps, vtx) * WitnessScaleFactor > MaxSigOpsCost -> Consensus("bad-blk-sigops")
          [] OTHER -> Valid


\* ContextualCheckBlock: finality, height in the coinbase, witness, and only
\* then the weight, which counts witness data.
ContextualCheckBlock(ctx, vtx) ==
    LET cutoff == IF ctx.csv THEN ctx.mtp ELSE ctx.time
    IN  CASE \E i \in DOMAIN vtx : ~IsFinalTx(vtx[i].tx, ctx.height, cutoff)
                -> Consensus("bad-txns-nonfinal")
          [] ctx.bip34 /\ TxInfo[vtx[1].tx].height # ctx.height -> Consensus("bad-cb-height")
          [] ~IsValid(CheckWitnessMalleation(vtx, ctx.segwit)) -> CheckWitnessMalleation(vtx, ctx.segwit)
          [] GetBlockWeight(vtx) > MaxBlockWeight -> Consensus("bad-blk-weight")
          [] OTHER -> Valid

\* IsBlockMutated, before a body from a peer is taken for the header's.
IsBlockMutated(ctx, vtx) ==
    \/ ~IsValid(CheckMerkleRoot(ctx, vtx))
    \/ IF vtx = << >> \/ ~IsCoinBase(vtx[1])
       THEN \E i \in DOMAIN vtx : vtx[i].inner # << >>
       ELSE ~IsValid(CheckWitnessMalleation(vtx, ctx.segwit))

----------------------------------------------------------------------------
\* UpdateUncommittedBlockStructures: the reserved value that the coinbase of a
\* committing body lacks.
UpdateUncommittedBlockStructures(ctx, vtx) ==
    IF vtx # << >> /\ vtx[1].commit # << >> /\ ctx.segwit /\ ~HasWitness(vtx[1])
    THEN [vtx EXCEPT ![1].wit = "zero"] ELSE vtx

\* GenerateCoinbaseCommitment, for the body of a new block.
GenerateCoinbaseCommitment(ctx, vtx) ==
    UpdateUncommittedBlockStructures(ctx,
        IF vtx[1].commit # << >> THEN vtx
        ELSE [vtx EXCEPT ![1].commit = Commitment(vtx, "zero")])

\* A miner's block: TestBlockValidity has accepted the body of a valid one.
MinedBlock(c) ==
    IF c.commits THEN GenerateCoinbaseCommitment(c.ctx, c.vtx) ELSE c.vtx

BlockInit ==
    \E c \in Contexts :
        /\ bhonest = MinedBlock(c)
        /\ bctx = [c.ctx EXCEPT !.root = BlockMerkleRoot(bhonest).root]
        /\ bstat = "header" /\ bstored = << >>

\* Bodies for the header: the miner's, and the ways of changing one.
Suffix(s, k) == SubSeq(s, Len(s) - k + 1, Len(s))
Bodies ==
    LET Wit(i, w) == [bhonest EXCEPT ![i].wit = w]
    IN  {bhonest, << >>, SubSeq(bhonest, 1, Len(bhonest) - 1)}
        \cup {[i \in DOMAIN bhonest |-> [bhonest[i] EXCEPT !.wit = "none"]]}
        \cup {Wit(1, w) : w \in {"none", "zero", "other", "short", "big"}}
        \cup {Wit(i, w) : i \in 2 .. Len(bhonest), w \in {"none", "w1", "w2"}}
        \cup {bhonest \o Suffix(bhonest, k) : k \in 1 .. Len(bhonest)}
        \cup {<< [tx |-> "pair", wit |-> "none", commit |-> << >>, inner |-> bctx.root] >>}
        \cup {[bhonest EXCEPT ![1].commit = << >>]}

\* AcceptBlock for a requested body: a body that fails for another reason than
\* mutation condemns the header.
AcceptBlock(vtx) ==
    \E verdict \in {IF IsValid(CheckBlock(bctx, vtx)) THEN ContextualCheckBlock(bctx, vtx)
                    ELSE CheckBlock(bctx, vtx)} :
        /\ bstat = "header"
        /\ IF IsValid(verdict) THEN bstat' = "have" /\ bstored' = vtx
           ELSE /\ bstat' = IF verdict.result = "BLOCK_MUTATED" THEN bstat ELSE "failed"
                /\ UNCHANGED bstored
        /\ UNCHANGED <<bctx, bhonest>>

\* ProcessNewBlock: nothing is held against a header whose body fails CheckBlock.
ProcessNewBlock(vtx) == IsValid(CheckBlock(bctx, vtx)) /\ AcceptBlock(vtx)

\* A block message of a peer.
BlockMessage == \E vtx \in Bodies : ~IsBlockMutated(bctx, vtx) /\ ProcessNewBlock(vtx)

\* FillBlock of a compact block: a body whose merkle root differs is asked for
\* in full, any other goes on.
CompactBlock ==
    \E vtx \in Bodies :
        CheckBlock(bctx, vtx).result # "BLOCK_MUTATED" /\ ProcessNewBlock(vtx)

\* The submitblock command: no test for mutation.
SubmitBlock ==
    \E vtx \in Bodies : ProcessNewBlock(UpdateUncommittedBlockStructures(bctx, vtx))

BlockNext == BlockMessage \/ CompactBlock \/ SubmitBlock
BlockSpec == BlockInit /\ [][BlockNext]_blockVars

\* The verdict of the rules on the body that the header was mined for.
HonestVerdict ==
    IF IsValid(CheckBlock(bctx, bhonest)) THEN ContextualCheckBlock(bctx, bhonest)
    ELSE CheckBlock(bctx, bhonest)

\* No body that anybody can put under a valid block's header (repeated
\* transactions with the same merkle root, a 64-byte transaction in the place of
\* an inner node, stripped, changed or inflated witnesses) gets the header marked
\* BLOCK_FAILED_VALID, on any of the ways by which a body arrives; and the only
\* body ever stored under a header is the miner's, its witnesses included.
MutationNeverSticks ==
    /\ bstat = "failed" => ~IsValid(HonestVerdict)
    /\ bstat = "have" => /\ BlockMerkleRoot(bstored).root = bctx.root
                         /\ Len(bstored) = Len(bhonest)
                         /\ \A i \in DOMAIN bstored : Txid(bstored[i]) = Txid(bhonest[i])
                         /\ IsValid(HonestVerdict) => bstored = bhonest
=============================================================================
