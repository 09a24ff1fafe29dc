--------------------------- MODULE RandomXWrapper ---------------------------
(***************************************************************************)
(* The singleton that owns the RandomX cache, dataset and virtual machine  *)
(* (crypto/randomx_wrapper.cpp).  Every public operation holds m_mutex     *)
(* from its first to its last line, so one operation is one step.  What    *)
(* makes the class delicate is that an operation is several allocations,   *)
(* each of which may fail and throw, leaving the steps before it done.     *)
(*                                                                         *)
(* A cache and a dataset are represented by the key they were filled from. *)
(* A VM remembers the cache it was created on, whether that cache is still *)
(* allocated, and the flags it was created with.                           *)
(***************************************************************************)
EXTENDS FiniteSets

CONSTANTS Keys,        \* RandomX keys callers may ask for
          NoKey,       \* a null cache or dataset, the empty m_currentKey
          NoVM,        \* a null m_vm
          FailPoints   \* the allocations that may fail

Allocations == {"cache", "dataset", "vm"}

ASSUME RandomXAssumption ==
    /\ NoKey \notin Keys
    /\ FailPoints \subseteq Allocations

(* RANDOMX_FLAG_DEFAULT is the empty set of flags. *)
Flags == {"HARD_AES", "LARGE_PAGES", "FULL_MEM"}

VMs == [cache : Keys \cup {NoKey}, allocated : BOOLEAN, flags : SUBSET Flags]

ASSUME NoVMAssumption == NoVM \notin VMs

Released == "released"   \* the outcome of reading a released cache
Thrown   == "thrown"     \* the call ended in a std::runtime_error

ASSUME ThrownIsNoKey == Keys \cap {Released, Thrown} = {}

VARIABLES
    rx,     \* the members: cache, dataset, vm, currentKey, isMiningMode
    out     \* what the last call did: operation, key asked for, key used

rxVars == <<rx, out>>


MaybeKey == Keys \cup {NoKey}

Members == [cache : MaybeKey, dataset : MaybeKey, vm : VMs \cup {NoVM},
            currentKey : MaybeKey, isMiningMode : BOOLEAN]

NewWrapper == [cache |-> NoKey, dataset |-> NoKey, vm |-> NoVM,
               currentKey |-> NoKey, isMiningMode |-> FALSE]

-----------------------------------------------------------------------------
(* The private helpers, as functions from members to members.              *)

(* randomx_release_cache frees memory that an existing VM still points to. *)
ReleaseCache(w) ==
    [w EXCEPT !.cache = NoKey,
              !.vm = IF w.cache # NoKey /\ w.vm # NoVM
                     THEN [w.vm EXCEPT !.allocated = FALSE] ELSE w.vm]

InitCache(w, key) == [ReleaseCache(w) EXCEPT !.cache = key, !.currentKey = key]

InitCacheFails(w) == ReleaseCache(w)

InitDataset(w) == [w EXCEPT !.dataset = w.cache]

InitDatasetFails(w) == [w EXCEPT !.dataset = NoKey]

DestroyVM(w) == [w EXCEPT !.vm = NoVM]

(* Without a dataset the verifying branch is taken even if fullMem is set. *)
(* Each branch retries once with fewer flags.                              *)
VMFlags(w, fullMem) ==
    IF fullMem /\ w.dataset # NoKey
    THEN {{"HARD_AES", "LARGE_PAGES"}, {"HARD_AES"}}
    ELSE {{"HARD_AES", "LARGE_PAGES"}, {}}

InitVM(w, flags) ==
    [DestroyVM(w) EXCEPT
        !.vm = [cache |-> w.cache, allocated |-> TRUE, flags |-> flags]]

InitVMFails(w) == DestroyVM(w)

(* The key under which randomx_calculate_hash computes on the current VM.  *)
CalculateHash(w) == IF w.vm.allocated THEN w.vm.cache ELSE Released

-----------------------------------------------------------------------------
(* Everything the sequence InitCache; InitDataset (when mining); InitVM    *)
(* can leave behind: the members, and whether it threw.                    *)
Reinit(w, key, mining) ==
    LET c == InitCache(w, key)
        d == IF mining THEN InitDataset(c) ELSE c
    IN  {[w |-> InitVM(d, f), threw |-> FALSE] : f \in VMFlags(d, mining)}
        \cup (IF "cache" \in FailPoints
              THEN {[w |-> InitCacheFails(w), threw |-> TRUE]} ELSE {})
        \cup (IF mining /\ "dataset" \in FailPoints
              THEN {[w |-> InitDatasetFails(c), threw |-> TRUE]} ELSE {})
        \cup (IF "vm" \in FailPoints
              THEN {[w |-> InitVMFails(d), threw |-> TRUE]} ELSE {})

(* Mutant: the rebuild is decided without comparing the keys. *)
NeedsReinit_NoKeyCheck(w, key) == w.vm = NoVM

NeedsReinit(w, key) == w.vm = NoVM \/ w.currentKey # key

RxInit ==
    /\ rx = NewWrapper
    /\ out = [op |-> "none", key |-> NoKey, used |-> NoKey]

(* InitMiningMode and InitVerifyMode set the mode only if nothing threw.   *)
InitMode(op, key, mining) ==
    \E r \in Reinit(rx, key, mining) :
        /\ rx' = IF r.threw THEN r.w ELSE [r.w EXCEPT !.isMiningMode = mining]
        /\ out' = [op |-> op, key |-> key,
                   used |-> IF r.threw THEN Thrown ELSE NoKey]

InitMiningMode(key) == InitMode("InitMiningMode", key, TRUE)

InitVerifyMode(key) == InitMode("InitVerifyMode", key, FALSE)

HashWith(op, key, mining) ==
    IF NeedsReinit(rx, key)
    THEN \E r \in Reinit(rx, key, mining) :
            /\ rx' = r.w
            /\ out' = [op |-> op, key |-> key,
                       used |-> IF r.threw THEN Thrown ELSE CalculateHash(r.w)]
    ELSE /\ UNCHANGED rx
         /\ out' = [op |-> op, key |-> key, used |-> CalculateHash(rx)]

Hash(key) == HashWith("Hash", key, rx.isMiningMode)

(* LightHash rebuilds the cache and the VM but never the dataset, and does *)
(* not leave mining mode.                                                  *)
LightHash(key) == HashWith("LightHash", key, FALSE)

Cleanup ==
    /\ rx' = NewWrapper
    /\ out' = [op |-> "Cleanup", key |-> NoKey, used |-> NoKey]

RxNext ==
    \/ \E key \in Keys : InitMiningMode(key)
    \/ \E key \in Keys : InitVerifyMode(key)
    \/ \E key \in Keys : Hash(key)
    \/ \E key \in Keys : LightHash(key)
    \/ Cleanup

RxSpec == RxInit /\ [][RxNext]_rxVars

-----------------------------------------------------------------------------
(* The members and the last outcome have the types of their declarations.  *)
RxTypeOK ==
    /\ rx \in Members
    /\ out \in [op : {"none", "InitMiningMode", "InitVerifyMode", "Hash",
                      "LightHash", "Cleanup"},
                key : MaybeKey, used : MaybeKey \cup {Released, Thrown}]

(* A hash returned by Hash or LightHash was computed by a VM that sits on  *)
(* an allocated cache filled from the key the caller passed, whatever      *)
(* calls, key changes and failures came before.                            *)
HashUsesRequestedKey ==
    out.op \in {"Hash", "LightHash"} /\ out.used # Thrown => out.used = out.key

(* The key remembered to decide on a rebuild is the key of the cache in    *)
(* place, whichever allocation failed: a stale m_currentKey would make the *)
(* next Hash skip the rebuild it needs.                                    *)
CurrentKeyDescribesCache == rx.cache # NoKey => rx.currentKey = rx.cache

(* Whatever failed before, a hash is never computed under another key that *)
(* is still loaded: the worst a failure leaves behind is a released cache. *)
NeverAnotherKey ==
    out.op \in {"Hash", "LightHash"} /\ out.used \in Keys => out.used = out.key
=============================================================================
