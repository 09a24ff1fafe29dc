----------------------- MODULE RandomXWrapper_proofs ------------------------
(* Proofs about RandomXWrapper for every set of keys.                      *)
EXTENDS RandomXWrapper, TLAPS

(* The inductive invariant.  With only the VM allocation failing, a VM     *)
(* never survives its cache, because InitVM destroys it before it can      *)
(* throw: so an existing VM sits on the current cache, which was filled    *)
(* from m_currentKey.                                                      *)
VMBacked ==
    rx.vm # NoVM => /\ rx.vm.allocated
                    /\ rx.vm.cache = rx.cache
                    /\ rx.cache = rx.currentKey
                    /\ rx.cache # NoKey

IInv == RxTypeOK /\ VMBacked /\ HashUsesRequestedKey

USE RandomXAssumption, NoVMAssumption

LEMMA InitIInv == RxInit => IInv
  BY DEF RxInit, IInv, RxTypeOK, VMBacked, HashUsesRequestedKey, NewWrapper,
         Members, MaybeKey

(* What Reinit returns when only the VM allocation may fail.               *)
LEMMA ReinitResult ==
  ASSUME FailPoints \subseteq {"vm"},
         NEW w \in Members, NEW key \in Keys, NEW mining \in BOOLEAN,
         NEW r \in Reinit(w, key, mining)
  PROVE  /\ r.w \in Members
         /\ r.threw \in BOOLEAN
         /\ r.threw => r.w.vm = NoVM
         /\ ~r.threw => /\ r.w.vm # NoVM
                        /\ r.w.vm.allocated
                        /\ r.w.vm.cache = key
         /\ r.w.cache = key /\ r.w.currentKey = key
  <1> DEFINE c == InitCache(w, key)
             d == IF mining THEN InitDataset(c) ELSE c
  <1>1. /\ ReleaseCache(w) \in Members
        /\ c \in Members /\ c.cache = key /\ c.currentKey = key
    BY DEF InitCache, ReleaseCache, Members, MaybeKey, VMs
  <1>2. d \in Members /\ d.cache = key /\ d.currentKey = key
    BY <1>1 DEF InitDataset, Members
  <1>3. \A f \in SUBSET Flags :
          LET v == InitVM(d, f) IN
          /\ v \in Members /\ v.cache = key /\ v.currentKey = key
          /\ v.vm = [cache |-> key, allocated |-> TRUE, flags |-> f]
          /\ v.vm \in VMs
    BY <1>2 DEF InitVM, DestroyVM, Members, MaybeKey, VMs
  <1>4. LET v == InitVMFails(d) IN
        v \in Members /\ v.cache = key /\ v.currentKey = key /\ v.vm = NoVM
    BY <1>2 DEF InitVMFails, DestroyVM, Members
  <1>5. VMFlags(d, mining) \subseteq SUBSET Flags
    BY DEF VMFlags, Flags
  <1>6. \/ \E f \in SUBSET Flags : r = [w |-> InitVM(d, f), threw |-> FALSE]
        \/ r = [w |-> InitVMFails(d), threw |-> TRUE]
    BY <1>5 DEF Reinit
  <1>7. CASE \E f \in SUBSET Flags : r = [w |-> InitVM(d, f), threw |-> FALSE]
    <2> HIDE DEF d
    <2>1. PICK f \in SUBSET Flags : r = [w |-> InitVM(d, f), threw |-> FALSE]
      BY <1>7
    <2>2. r.w = InitVM(d, f) /\ r.threw = FALSE
      BY <2>1
    <2>3. /\ r.w \in Members /\ r.w.cache = key /\ r.w.currentKey = key
          /\ r.w.vm = [cache |-> key, allocated |-> TRUE, flags |-> f]
          /\ r.w.vm \in VMs
      BY <2>2, <1>3
    <2>4. r.w.vm.allocated = TRUE /\ r.w.vm.cache = key
      BY <2>3
    <2>5. r.w.vm # NoVM
      BY <2>3
    <2>6. QED
      BY <2>2, <2>3, <2>4, <2>5
  <1>8. CASE r = [w |-> InitVMFails(d), threw |-> TRUE]
    <2> HIDE DEF d
    <2>1. r.w = InitVMFails(d) /\ r.threw = TRUE
      BY <1>8
    <2>2. QED
      BY <2>1, <1>4
  <1>9. QED
    BY <1>6, <1>7, <1>8

LEMMA NextIInv ==
  ASSUME FailPoints \subseteq {"vm"}
  PROVE  IInv /\ [RxNext]_rxVars => IInv'
  <1> SUFFICES ASSUME IInv, [RxNext]_rxVars
               PROVE  IInv'
    OBVIOUS
  <1> USE DEF IInv
  <1>0. rx \in Members /\ rx.isMiningMode \in BOOLEAN
    BY DEF RxTypeOK, Members
  <1>1. ASSUME NEW key \in Keys, NEW mining \in BOOLEAN,
               NEW op \in {"InitMiningMode", "InitVerifyMode"},
               InitMode(op, key, mining)
        PROVE  IInv'
    <2>1. PICK r \in Reinit(rx, key, mining) :
             /\ rx' = IF r.threw THEN r.w ELSE [r.w EXCEPT !.isMiningMode = mining]
             /\ out' = [op |-> op, key |-> key,
                        used |-> IF r.threw THEN Thrown ELSE NoKey]
      BY <1>1 DEF InitMode
    <2>2. /\ r.w \in Members /\ r.threw \in BOOLEAN
          /\ r.threw => r.w.vm = NoVM
          /\ ~r.threw => r.w.vm # NoVM /\ r.w.vm.allocated /\ r.w.vm.cache = key
          /\ r.w.cache = key /\ r.w.currentKey = key
      BY <1>0, ReinitResult
    <2>3. /\ rx' \in Members /\ rx'.vm = r.w.vm
          /\ rx'.cache = key /\ rx'.currentKey = key
      BY <2>1, <2>2 DEF Members
    <2>4. RxTypeOK'
      BY <2>1, <2>2, <2>3 DEF RxTypeOK, MaybeKey
    <2>5. VMBacked'
      BY <2>2, <2>3 DEF VMBacked
    <2>6. HashUsesRequestedKey'
      BY <2>1 DEF HashUsesRequestedKey
    <2>7. QED
      BY <2>4, <2>5, <2>6
  <1>2. ASSUME NEW key \in Keys, NEW mining \in BOOLEAN,
               NEW op \in {"Hash", "LightHash"},
               HashWith(op, key, mining)
        PROVE  IInv'
    <2>1. CASE NeedsReinit(rx, key)
      <3>1. PICK r \in Reinit(rx, key, mining) :
              /\ rx' = r.w
              /\ out' = [op |-> op, key |-> key,
                         used |-> IF r.threw THEN Thrown ELSE CalculateHash(r.w)]
        BY <1>2, <2>1 DEF HashWith
      <3>2. /\ r.w \in Members /\ r.threw \in BOOLEAN
            /\ r.threw => r.w.vm = NoVM
            /\ ~r.threw => r.w.vm # NoVM /\ r.w.vm.allocated /\ r.w.vm.cache = key
            /\ r.w.cache = key /\ r.w.currentKey = key
        BY <1>0, ReinitResult
      <3>3. ~r.threw => CalculateHash(r.w) = key
        BY <3>2 DEF CalculateHash
      <3>4. RxTypeOK'
        BY <3>1, <3>2, <3>3 DEF RxTypeOK, MaybeKey
      <3>5. VMBacked'
        BY <3>1, <3>2 DEF VMBacked
      <3>6. HashUsesRequestedKey'
        BY <3>1, <3>2, <3>3 DEF HashUsesRequestedKey
      <3>7. QED
        BY <3>4, <3>5, <3>6
    <2>2. CASE ~NeedsReinit(rx, key)
      <3>1. /\ rx' = rx
            /\ out' = [op |-> op, key |-> key, used |-> CalculateHash(rx)]
        BY <1>2, <2>2 DEF HashWith
      <3>2. CalculateHash(rx) = key
        BY <2>2 DEF NeedsReinit, VMBacked, CalculateHash
      <3>3. RxTypeOK'
        BY <3>1, <3>2 DEF RxTypeOK, MaybeKey
      <3>4. VMBacked' /\ HashUsesRequestedKey'
        BY <3>1, <3>2 DEF VMBacked, HashUsesRequestedKey
      <3>5. QED
        BY <3>3, <3>4
    <2>3. QED
      BY <2>1, <2>2
  <1>3. CASE Cleanup
    BY <1>3 DEF Cleanup, RxTypeOK, VMBacked, HashUsesRequestedKey, NewWrapper,
                Members, MaybeKey
  <1>4. CASE UNCHANGED rxVars
    BY <1>4 DEF rxVars, RxTypeOK, VMBacked, HashUsesRequestedKey
  <1>5. QED
    BY <1>0, <1>1, <1>2, <1>3, <1>4
       DEF RxNext, InitMiningMode, InitVerifyMode, Hash, LightHash

(* If creating a VM is the only allocation that fails, every hash the      *)
(* wrapper returns was computed on an allocated cache filled from the key  *)
(* the caller passed, for any number of keys and any order of calls.       *)
THEOREM HashUsesRequestedKeyHolds ==
  ASSUME FailPoints \subseteq {"vm"}
  PROVE  RxSpec => []HashUsesRequestedKey
  <1>1. RxInit => IInv
    BY InitIInv
  <1>2. IInv /\ [RxNext]_rxVars => IInv'
    BY NextIInv
  <1>3. IInv => HashUsesRequestedKey
    BY DEF IInv
  <1>4. QED
    BY <1>1, <1>2, <1>3, PTL DEF RxSpec

-----------------------------------------------------------------------------
(* Any allocation may fail.  A VM whose cache was released stays, so the   *)
(* invariant speaks of the VMs on an allocated cache only.                 *)
LiveVMCurrent ==
    rx.vm # NoVM /\ rx.vm.allocated => rx.vm.cache = rx.cache /\ rx.cache # NoKey

JInv == RxTypeOK /\ CurrentKeyDescribesCache /\ LiveVMCurrent /\ NeverAnotherKey

(* What a released cache leaves behind.                                    *)
LEMMA ReleaseCacheResult ==
  ASSUME NEW w \in Members,
         w.vm # NoVM /\ w.vm.allocated => w.vm.cache = w.cache /\ w.cache # NoKey
  PROVE  LET v == ReleaseCache(w) IN
         /\ v \in Members /\ v.cache = NoKey
         /\ v.vm # NoVM => ~v.vm.allocated
  <1>1. CASE w.cache # NoKey /\ w.vm # NoVM
    <2>1. w.vm \in VMs
      BY <1>1 DEF Members
    <2> DEFINE u == [w.vm EXCEPT !.allocated = FALSE]
    <2>2. u \in VMs /\ u.allocated = FALSE
      BY <2>1 DEF VMs
    <2>3. ReleaseCache(w) = [w EXCEPT !.cache = NoKey, !.vm = u]
      BY <1>1 DEF ReleaseCache
    <2> HIDE DEF u
    <2>4. QED
      BY <2>2, <2>3 DEF Members, MaybeKey
  <1>2. CASE ~(w.cache # NoKey /\ w.vm # NoVM)
    <2>1. ReleaseCache(w) = [w EXCEPT !.cache = NoKey, !.vm = w.vm]
      BY <1>2 DEF ReleaseCache
    <2>2. QED
      BY <2>1, <1>2 DEF Members, MaybeKey
  <1>3. QED
    BY <1>1, <1>2

(* What Reinit returns whichever allocation fails.                         *)
LEMMA ReinitAnyFailure ==
  ASSUME NEW w \in Members, NEW key \in Keys, NEW mining \in BOOLEAN,
         w.vm # NoVM /\ w.vm.allocated => w.vm.cache = w.cache /\ w.cache # NoKey,
         NEW r \in Reinit(w, key, mining)
  PROVE  /\ r.w \in Members
         /\ r.threw \in BOOLEAN
         /\ r.w.cache # NoKey => r.w.currentKey = r.w.cache
         /\ r.w.vm # NoVM /\ r.w.vm.allocated =>
                r.w.vm.cache = r.w.cache /\ r.w.cache # NoKey
         /\ ~r.threw => CalculateHash(r.w) = key
  <1> DEFINE z == ReleaseCache(w)
             c == InitCache(w, key)
             d == IF mining THEN InitDataset(c) ELSE c
  <1>1. z \in Members /\ z.cache = NoKey /\ (z.vm # NoVM => ~z.vm.allocated)
    BY ReleaseCacheResult
  <1>2. c = [z EXCEPT !.cache = key, !.currentKey = key]
    BY DEF InitCache
  <1> HIDE DEF z, c
  <1>3. /\ c \in Members /\ c.cache = key /\ c.currentKey = key
        /\ c.vm # NoVM => ~c.vm.allocated
    BY <1>1, <1>2 DEF Members, MaybeKey
  <1>4. d \in Members /\ d.cache = key /\ d.currentKey = key
    BY <1>3 DEF InitDataset, Members
  <1> HIDE DEF d
  <1>5. \A f \in SUBSET Flags :
          LET v == InitVM(d, f) IN
          /\ v \in Members /\ v.cache = key /\ v.currentKey = key
          /\ v.vm = [cache |-> key, allocated |-> TRUE, flags |-> f]
    BY <1>4 DEF InitVM, DestroyVM, Members, MaybeKey, VMs
  <1>6. VMFlags(d, mining) \subseteq SUBSET Flags
    BY DEF VMFlags, Flags
  <1>7. \/ \E f \in SUBSET Flags : r = [w |-> InitVM(d, f), threw |-> FALSE]
        \/ r = [w |-> InitCacheFails(w), threw |-> TRUE]
        \/ r = [w |-> InitDatasetFails(c), threw |-> TRUE]
        \/ r = [w |-> InitVMFails(d), threw |-> TRUE]
    BY <1>6 DEF Reinit, c, d
  <1>8. CASE \E f \in SUBSET Flags : r = [w |-> InitVM(d, f), threw |-> FALSE]
    <2>1. PICK f \in SUBSET Flags : r = [w |-> InitVM(d, f), threw |-> FALSE]
      BY <1>8
    <2>2. r.w = InitVM(d, f) /\ r.threw = FALSE
      BY <2>1
    <2>3. /\ r.w \in Members /\ r.w.cache = key /\ r.w.currentKey = key
          /\ r.w.vm = [cache |-> key, allocated |-> TRUE, flags |-> f]
      BY <2>2, <1>5
    <2>4. r.w.vm.allocated = TRUE /\ r.w.vm.cache = key
      BY <2>3
    <2>5. QED
      BY <2>2, <2>3, <2>4 DEF CalculateHash
  <1>9. CASE r = [w |-> InitCacheFails(w), threw |-> TRUE]
    <2>1. r.w = z /\ r.threw = TRUE
      BY <1>9 DEF InitCacheFails, z
    <2>2. QED
      BY <2>1, <1>1
  <1>10. CASE r = [w |-> InitDatasetFails(c), threw |-> TRUE]
    <2>1. r.w = [c EXCEPT !.dataset = NoKey] /\ r.threw = TRUE
      BY <1>10 DEF InitDatasetFails
    <2>2. QED
      BY <2>1, <1>3 DEF Members, MaybeKey
  <1>11. CASE r = [w |-> InitVMFails(d), threw |-> TRUE]
    <2>1. r.w = [d EXCEPT !.vm = NoVM] /\ r.threw = TRUE
      BY <1>11 DEF InitVMFails, DestroyVM
    <2>2. QED
      BY <2>1, <1>4 DEF Members
  <1>12. QED
    BY <1>7, <1>8, <1>9, <1>10, <1>11

LEMMA NextJInv == JInv /\ [RxNext]_rxVars => JInv'
  <1> SUFFICES ASSUME JInv, [RxNext]_rxVars
               PROVE  JInv'
    OBVIOUS
  <1> USE DEF JInv
  <1>0. rx \in Members /\ rx.isMiningMode \in BOOLEAN
    BY DEF RxTypeOK, Members
  <1>1. ASSUME NEW key \in Keys, NEW mining \in BOOLEAN,
               NEW op \in {"InitMiningMode", "InitVerifyMode"},
               InitMode(op, key, mining)
        PROVE  JInv'
    <2>1. PICK r \in Reinit(rx, key, mining) :
             /\ rx' = IF r.threw THEN r.w ELSE [r.w EXCEPT !.isMiningMode = mining]
             /\ out' = [op |-> op, key |-> key,
                        used |-> IF r.threw THEN Thrown ELSE NoKey]
      BY <1>1 DEF InitMode
    <2>2. /\ r.w \in Members /\ r.threw \in BOOLEAN
          /\ r.w.cache # NoKey => r.w.currentKey = r.w.cache
          /\ r.w.vm # NoVM /\ r.w.vm.allocated =>
                r.w.vm.cache = r.w.cache /\ r.w.cache # NoKey
      BY <1>0, ReinitAnyFailure DEF LiveVMCurrent
    <2>3. /\ rx' \in Members /\ rx'.vm = r.w.vm
          /\ rx'.cache = r.w.cache /\ rx'.currentKey = r.w.currentKey
      BY <2>1, <2>2 DEF Members
    <2>4. RxTypeOK'
      BY <2>1, <2>2, <2>3 DEF RxTypeOK, MaybeKey
    <2>5. CurrentKeyDescribesCache' /\ LiveVMCurrent'
      BY <2>2, <2>3 DEF CurrentKeyDescribesCache, LiveVMCurrent
    <2>6. NeverAnotherKey'
      BY <2>1 DEF NeverAnotherKey
    <2>7. QED
      BY <2>4, <2>5, <2>6
  <1>2. ASSUME NEW key \in Keys, NEW mining \in BOOLEAN,
               NEW op \in {"Hash", "LightHash"},
               HashWith(op, key, mining)
        PROVE  JInv'
    <2>1. CASE NeedsReinit(rx, key)
      <3>1. PICK r \in Reinit(rx, key, mining) :
              /\ rx' = r.w
              /\ out' = [op |-> op, key |-> key,
                         used |-> IF r.threw THEN Thrown ELSE CalculateHash(r.w)]
        BY <1>2, <2>1 DEF HashWith
      <3>2. /\ r.w \in Members /\ r.threw \in BOOLEAN
            /\ r.w.cache # NoKey => r.w.currentKey = r.w.cache
            /\ r.w.vm # NoVM /\ r.w.vm.allocated =>
                  r.w.vm.cache = r.w.cache /\ r.w.cache # NoKey
            /\ ~r.threw => CalculateHash(r.w) = key
        BY <1>0, ReinitAnyFailure DEF LiveVMCurrent
      <3>3. RxTypeOK'
        BY <3>1, <3>2 DEF RxTypeOK, MaybeKey
      <3>4. CurrentKeyDescribesCache' /\ LiveVMCurrent'
        BY <3>1, <3>2 DEF CurrentKeyDescribesCache, LiveVMCurrent
      <3>5. NeverAnotherKey'
        BY <3>1, <3>2, ThrownIsNoKey DEF NeverAnotherKey
      <3>6. QED
        BY <3>3, <3>4, <3>5
    <2>2. CASE ~NeedsReinit(rx, key)
      <3>1. /\ rx' = rx
            /\ out' = [op |-> op, key |-> key, used |-> CalculateHash(rx)]
        BY <1>2, <2>2 DEF HashWith
      <3>2. rx.vm # NoVM /\ rx.vm \in VMs /\ rx.currentKey = key
        BY <1>0, <2>2 DEF NeedsReinit, Members
      <3>3. CalculateHash(rx) \in {key, Released}
        BY <3>2 DEF CalculateHash, LiveVMCurrent, CurrentKeyDescribesCache
      <3>4. RxTypeOK'
        BY <3>1, <3>3 DEF RxTypeOK, MaybeKey
      <3>5. CurrentKeyDescribesCache' /\ LiveVMCurrent'
        BY <3>1 DEF CurrentKeyDescribesCache, LiveVMCurrent
      <3>6. NeverAnotherKey'
        BY <3>1, <3>3, ThrownIsNoKey DEF NeverAnotherKey
      <3>7. QED
        BY <3>4, <3>5, <3>6
    <2>3. QED
      BY <2>1, <2>2
  <1>3. CASE Cleanup
    BY <1>3 DEF Cleanup, RxTypeOK, CurrentKeyDescribesCache, LiveVMCurrent,
                NeverAnotherKey, NewWrapper, Members, MaybeKey
  <1>4. CASE UNCHANGED rxVars
    BY <1>4 DEF rxVars, RxTypeOK, CurrentKeyDescribesCache, LiveVMCurrent,
                NeverAnotherKey
  <1>5. QED
    BY <1>0, <1>1, <1>2, <1>3, <1>4
       DEF RxNext, InitMiningMode, InitVerifyMode, Hash, LightHash

(* Whichever allocations fail, in whatever order the operations are        *)
(* called, m_currentKey is the key of the cache in place, and a hash read  *)
(* from an allocated cache is a hash under the key the caller passed.      *)
THEOREM NeverAnotherKeyHolds ==
  RxSpec => [](CurrentKeyDescribesCache /\ NeverAnotherKey)
  <1>1. RxInit => JInv
    BY DEF RxInit, JInv, RxTypeOK, CurrentKeyDescribesCache, LiveVMCurrent,
           NeverAnotherKey, NewWrapper, Members, MaybeKey
  <1>2. JInv /\ [RxNext]_rxVars => JInv'
    BY NextJInv
  <1>3. JInv => CurrentKeyDescribesCache /\ NeverAnotherKey
    BY DEF JInv
  <1>4. QED
    BY <1>1, <1>2, <1>3, PTL DEF RxSpec
=============================================================================
