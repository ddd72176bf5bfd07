--------------------------- MODULE SpinlockProofs ---------------------------
(***************************************************************************)
(* Proofs about Spinlock, for any number of processors and of locks: the   *)
(* invariant IInv is inductive, so mutual exclusion, the accuracy of       *)
(* lk->cpu and the absence of panics hold of every execution, and the      *)
(* spinlock implements the abstract lock.                                  *)
(***************************************************************************)
EXTENDS Spinlock, FiniteSetTheorems, TLAPS

\* Facts about the size of a set of locks, for cpu_cli[c].count.
LEMMA LockSets ==
  ASSUME NEW S \in SUBSET Lock
  PROVE  /\ Cardinality(S) \in Nat
         /\ Cardinality(S) = 0 <=> S = {}
         /\ \A l \in Lock \ S : Cardinality(S \cup {l}) = Cardinality(S) + 1
         /\ \A l \in S : Cardinality(S \ {l}) = Cardinality(S) - 1
<1>1. IsFiniteSet(Lock)
  BY FS_Interval, NumLockAssumption DEF Lock
<1>2. IsFiniteSet(S)
  BY <1>1, FS_Subset
<1> QED
  BY <1>2, FS_CardinalityType, FS_EmptySet, FS_AddElement, FS_RemoveElement

\* The initial state: nothing is held and every flag is as boot leaves it.
LEMMA InitIInv == Init => IInv
<1> SUFFICES ASSUME Init PROVE IInv
  OBVIOUS
<1>1. TypeOK
  BY NumLockAssumption DEF Init, TypeOK, Lock, Level, PCs, NoCPU
<1>2. MutualExclusion /\ OwnerAccurate /\ NoPanic /\ LocksOK
  BY DEF Init, MutualExclusion, OwnerAccurate, NoPanic, LocksOK, Level
<1>3. FlagsOK
  BY LockSets DEF Init, FlagsOK, FlagsOf, Level
<1> QED
  BY <1>1, <1>2, <1>3 DEF IInv

\* What the flags invariant says of the count, with the size of the set of
\* locks named, and that it carries over to the CPUs a step leaves alone.
LEMMA FlagsFrame ==
  ASSUME IInv, NEW c \in CPU,
         \A d \in CPU \ {c} : /\ level'[d] = level[d] /\ pc'[d] = pc[d]
                               /\ held'[d] = held[d] /\ oldIF'[d] = oldIF[d]
                               /\ count'[d] = count[d] /\ intr'[d] = intr[d]
                               /\ hasIF'[d] = hasIF[d],
         FlagsOf(c)'
  PROVE  FlagsOK'
<1> SUFFICES ASSUME NEW d \in CPU PROVE FlagsOf(d)'
  BY DEF FlagsOK
<1>1. CASE d = c
  BY <1>1
<1>2. CASE d # c
  <2>1. FlagsOf(d)
    BY DEF IInv, FlagsOK
  <2> QED
    BY <1>2, <2>1 DEF FlagsOf
<1> QED
  BY <1>1, <1>2

LEMMA LockCallIInv ==
  ASSUME IInv, NEW c \in CPU, NEW l \in Lock, Lock_Call(c, l)
  PROVE  IInv'
<1> DEFINE v == level[c]
<1> USE DEF Level
<1>0. v = level[c] /\ v \in Level /\ FlagsOf(c)
  BY DEF IInv, TypeOK, FlagsOK
<1>s. /\ Cardinality(held[c][v]) \in Nat
      /\ Cardinality(held[c][v]) = 0 <=> held[c][v] = {}
      /\ \A m \in Lock \ held[c][v] : Cardinality(held[c][v] \cup {m}) = Cardinality(held[c][v]) + 1
      /\ \A m \in held[c][v] : Cardinality(held[c][v] \ {m}) = Cardinality(held[c][v]) - 1
  <2>1. held[c][v] \in SUBSET Lock
    BY <1>0 DEF IInv, TypeOK
  <2> QED
    BY <2>1, LockSets
<1>e. /\ pc[c][v] = "run" /\ pc' = [pc EXCEPT ![c][v] = "cli"]
      /\ l \notin held[c][v] /\ arg' = [arg EXCEPT ![c][v] = l]
      /\ oldIF' = [oldIF EXCEPT ![c][v] = intr[c]]
      /\ UNCHANGED <<intr, count, hasIF, locked, owner, level, held>>
  BY <1>0 DEF Lock_Call, At, Goto, Cur, cpuVars, lockVars, Lock
<1> HIDE DEF v
<1>1. TypeOK'
  BY <1>0, <1>e DEF IInv, TypeOK, PCs
<1>2. MutualExclusion'
  BY <1>0, <1>e DEF IInv, TypeOK, MutualExclusion, LocksOK
<1>3. OwnerAccurate'
  BY <1>0, <1>e, NoCPUAssumption DEF IInv, TypeOK, OwnerAccurate, MutualExclusion, LocksOK, HeldBy
<1>4. NoPanic'
  BY <1>0, <1>e DEF IInv, TypeOK, NoPanic
<1>5. LocksOK'
  BY <1>0, <1>e, NoCPUAssumption DEF IInv, TypeOK, LocksOK, MutualExclusion, OwnerAccurate
<1>6. FlagsOf(c)'
  <2>1. (level[c] = "task" => pc[c]["irq"] = "run" /\ held[c]["irq"] = {})'
    BY <1>0, <1>e DEF IInv, TypeOK, FlagsOf
  <2>2. (level[c] = "irq"  => /\ pc[c]["task"] \in {"run", "cli"}
                             /\ held[c]["task"] = {}
                             /\ (pc[c]["task"] = "cli" => oldIF[c]["task"]))'
    BY <1>0, <1>e DEF IInv, TypeOK, FlagsOf
  <2>3. (count[c] = Cardinality(held[c][level[c]])
                + IF pc[c][level[c]] \in {"pushed", "spin", "pop"} THEN 1 ELSE 0)'
    BY <1>0, <1>s, <1>e DEF IInv, TypeOK, FlagsOf, LocksOK
  <2>4. (intr[c]  <=> (level[c] = "task" /\ count[c] = 0 /\ pc[c][level[c]] # "sti"))'
    BY <1>0, <1>s, <1>e DEF IInv, TypeOK, FlagsOf
  <2>5. (hasIF[c] <=> (level[c] = "task" /\ count[c] > 0))'
    BY <1>0, <1>s, <1>e DEF IInv, TypeOK, FlagsOf
  <2>6. (pc[c][level[c]] = "cli" /\ count[c] = 0 => (oldIF[c][level[c]] <=> level[c] = "task"))'
    BY <1>0, <1>s, <1>e DEF IInv, TypeOK, FlagsOf
  <2>7. (pc[c][level[c]] = "sti" => level[c] = "task" /\ count[c] = 0)'
    BY <1>0, <1>s, <1>e DEF IInv, TypeOK, FlagsOf
  <2> QED
    BY <2>1, <2>2, <2>3, <2>4, <2>5, <2>6, <2>7 DEF FlagsOf
<1>7. FlagsOK'
  BY <1>e, <1>6, FlagsFrame DEF IInv, TypeOK
<1> QED
  BY <1>1, <1>2, <1>3, <1>4, <1>5, <1>7 DEF IInv

LEMMA PushCliIInv ==
  ASSUME IInv, NEW c \in CPU, PushCli(c)
  PROVE  IInv'
<1> DEFINE v == level[c]
<1> USE DEF Level
<1>0. v = level[c] /\ v \in Level /\ FlagsOf(c)
  BY DEF IInv, TypeOK, FlagsOK
<1>s. /\ Cardinality(held[c][v]) \in Nat
      /\ Cardinality(held[c][v]) = 0 <=> held[c][v] = {}
      /\ \A m \in Lock \ held[c][v] : Cardinality(held[c][v] \cup {m}) = Cardinality(held[c][v]) + 1
      /\ \A m \in held[c][v] : Cardinality(held[c][v] \ {m}) = Cardinality(held[c][v]) - 1
  <2>1. held[c][v] \in SUBSET Lock
    BY <1>0 DEF IInv, TypeOK
  <2> QED
    BY <2>1, LockSets
<1>p. pc[c][v] = "cli" /\ ~(count[c] = 0 /\ hasIF[c])
  BY <1>0 DEF PushCli, At, FlagsOf
<1>e. /\ pc[c][v] = "cli" /\ pc' = [pc EXCEPT ![c][v] = "pushed"]
      /\ intr' = [intr EXCEPT ![c] = FALSE]
      /\ count' = [count EXCEPT ![c] = @ + 1]
      /\ hasIF' = [hasIF EXCEPT ![c] = IF count[c] = 0 THEN oldIF[c][v] ELSE @]
      /\ UNCHANGED <<locked, owner, level, arg, oldIF, held>>
  BY <1>p DEF PushCli, At, Goto, Cur, cpuVars, lockVars
<1> HIDE DEF v
<1>1. TypeOK'
  BY <1>0, <1>e DEF IInv, TypeOK, PCs
<1>2. MutualExclusion'
  BY <1>0, <1>e DEF IInv, TypeOK, MutualExclusion, LocksOK
<1>3. OwnerAccurate'
  BY <1>0, <1>e, NoCPUAssumption DEF IInv, TypeOK, OwnerAccurate, MutualExclusion, LocksOK, HeldBy
<1>4. NoPanic'
  BY <1>0, <1>e DEF IInv, TypeOK, NoPanic
<1>5. LocksOK'
  BY <1>0, <1>e, NoCPUAssumption DEF IInv, TypeOK, LocksOK, MutualExclusion, OwnerAccurate
<1>6. FlagsOf(c)'
  <2>1. (level[c] = "task" => pc[c]["irq"] = "run" /\ held[c]["irq"] = {})'
    BY <1>0, <1>e DEF IInv, TypeOK, FlagsOf
  <2>2. (level[c] = "irq"  => /\ pc[c]["task"] \in {"run", "cli"}
                             /\ held[c]["task"] = {}
                             /\ (pc[c]["task"] = "cli" => oldIF[c]["task"]))'
    BY <1>0, <1>e DEF IInv, TypeOK, FlagsOf
  <2>3. (count[c] = Cardinality(held[c][level[c]])
                + IF pc[c][level[c]] \in {"pushed", "spin", "pop"} THEN 1 ELSE 0)'
    BY <1>0, <1>s, <1>e DEF IInv, TypeOK, FlagsOf, LocksOK
  <2>4. (intr[c]  <=> (level[c] = "task" /\ count[c] = 0 /\ pc[c][level[c]] # "sti"))'
    BY <1>0, <1>s, <1>e DEF IInv, TypeOK, FlagsOf
  <2>5. (hasIF[c] <=> (level[c] = "task" /\ count[c] > 0))'
    BY <1>0, <1>s, <1>e DEF IInv, TypeOK, FlagsOf
  <2>6. (pc[c][level[c]] = "cli" /\ count[c] = 0 => (oldIF[c][level[c]] <=> level[c] = "task"))'
    BY <1>0, <1>s, <1>e DEF IInv, TypeOK, FlagsOf
  <2>7. (pc[c][level[c]] = "sti" => level[c] = "task" /\ count[c] = 0)'
    BY <1>0, <1>s, <1>e DEF IInv, TypeOK, FlagsOf
  <2> QED
    BY <2>1, <2>2, <2>3, <2>4, <2>5, <2>6, <2>7 DEF FlagsOf
<1>7. FlagsOK'
  BY <1>e, <1>6, FlagsFrame DEF IInv, TypeOK
<1> QED
  BY <1>1, <1>2, <1>3, <1>4, <1>5, <1>7 DEF IInv

LEMMA LockCheckIInv ==
  ASSUME IInv, NEW c \in CPU, Lock_Check(c)
  PROVE  IInv'
<1> DEFINE v == level[c]
<1> USE DEF Level
<1>0. v = level[c] /\ v \in Level /\ FlagsOf(c)
  BY DEF IInv, TypeOK, FlagsOK
<1>s. /\ Cardinality(held[c][v]) \in Nat
      /\ Cardinality(held[c][v]) = 0 <=> held[c][v] = {}
      /\ \A m \in Lock \ held[c][v] : Cardinality(held[c][v] \cup {m}) = Cardinality(held[c][v]) + 1
      /\ \A m \in held[c][v] : Cardinality(held[c][v] \ {m}) = Cardinality(held[c][v]) - 1
  <2>1. held[c][v] \in SUBSET Lock
    BY <1>0 DEF IInv, TypeOK
  <2> QED
    BY <2>1, LockSets
<1>p. pc[c][v] = "pushed" /\ ~IsHolding(c, arg[c][v])
  <2>1. pc[c][v] = "pushed"
    BY DEF Lock_Check, At
  <2>2. arg[c][v] \in Lock /\ arg[c][v] \notin held[c][v]
    BY <1>0, <2>1 DEF IInv, TypeOK, LocksOK
  <2>3. arg[c][v] \notin HeldBy(c)
    BY <1>0, <2>2 DEF FlagsOf, HeldBy
  <2> QED
    BY <2>1, <2>2, <2>3, NoCPUAssumption DEF IInv, OwnerAccurate, IsHolding
<1>e. /\ pc[c][v] = "pushed" /\ pc' = [pc EXCEPT ![c][v] = "spin"]
      /\ UNCHANGED <<intr, count, hasIF, locked, owner, level, arg, oldIF, held>>
  BY <1>p DEF Lock_Check, At, Goto, Cur, cpuVars, lockVars
<1> HIDE DEF v
<1>1. TypeOK'
  BY <1>0, <1>e DEF IInv, TypeOK, PCs
<1>2. MutualExclusion'
  BY <1>0, <1>e DEF IInv, TypeOK, MutualExclusion, LocksOK
<1>3. OwnerAccurate'
  BY <1>0, <1>e, NoCPUAssumption DEF IInv, TypeOK, OwnerAccurate, MutualExclusion, LocksOK, HeldBy
<1>4. NoPanic'
  BY <1>0, <1>e DEF IInv, TypeOK, NoPanic
<1>5. LocksOK'
  BY <1>0, <1>e, NoCPUAssumption DEF IInv, TypeOK, LocksOK, MutualExclusion, OwnerAccurate
<1>6. FlagsOf(c)'
  <2>1. (level[c] = "task" => pc[c]["irq"] = "run" /\ held[c]["irq"] = {})'
    BY <1>0, <1>e DEF IInv, TypeOK, FlagsOf
  <2>2. (level[c] = "irq"  => /\ pc[c]["task"] \in {"run", "cli"}
                             /\ held[c]["task"] = {}
                             /\ (pc[c]["task"] = "cli" => oldIF[c]["task"]))'
    BY <1>0, <1>e DEF IInv, TypeOK, FlagsOf
  <2>3. (count[c] = Cardinality(held[c][level[c]])
                + IF pc[c][level[c]] \in {"pushed", "spin", "pop"} THEN 1 ELSE 0)'
    BY <1>0, <1>s, <1>e DEF IInv, TypeOK, FlagsOf, LocksOK
  <2>4. (intr[c]  <=> (level[c] = "task" /\ count[c] = 0 /\ pc[c][level[c]] # "sti"))'
    BY <1>0, <1>s, <1>e DEF IInv, TypeOK, FlagsOf
  <2>5. (hasIF[c] <=> (level[c] = "task" /\ count[c] > 0))'
    BY <1>0, <1>s, <1>e DEF IInv, TypeOK, FlagsOf
  <2>6. (pc[c][level[c]] = "cli" /\ count[c] = 0 => (oldIF[c][level[c]] <=> level[c] = "task"))'
    BY <1>0, <1>s, <1>e DEF IInv, TypeOK, FlagsOf
  <2>7. (pc[c][level[c]] = "sti" => level[c] = "task" /\ count[c] = 0)'
    BY <1>0, <1>s, <1>e DEF IInv, TypeOK, FlagsOf
  <2> QED
    BY <2>1, <2>2, <2>3, <2>4, <2>5, <2>6, <2>7 DEF FlagsOf
<1>7. FlagsOK'
  BY <1>e, <1>6, FlagsFrame DEF IInv, TypeOK
<1> QED
  BY <1>1, <1>2, <1>3, <1>4, <1>5, <1>7 DEF IInv

LEMMA LockXchgIInv ==
  ASSUME IInv, NEW c \in CPU, Lock_Xchg(c)
  PROVE  IInv'
<1> DEFINE v == level[c]
<1> USE DEF Level
<1>0. v = level[c] /\ v \in Level /\ FlagsOf(c)
  BY DEF IInv, TypeOK, FlagsOK
<1>s. /\ Cardinality(held[c][v]) \in Nat
      /\ Cardinality(held[c][v]) = 0 <=> held[c][v] = {}
      /\ \A m \in Lock \ held[c][v] : Cardinality(held[c][v] \cup {m}) = Cardinality(held[c][v]) + 1
      /\ \A m \in held[c][v] : Cardinality(held[c][v] \ {m}) = Cardinality(held[c][v]) - 1
  <2>1. held[c][v] \in SUBSET Lock
    BY <1>0 DEF IInv, TypeOK
  <2> QED
    BY <2>1, LockSets
<1>e. /\ pc[c][v] = "spin" /\ pc' = [pc EXCEPT ![c][v] = "own"]
      /\ ~locked[arg[c][v]]
      /\ locked' = [locked EXCEPT ![arg[c][v]] = TRUE]
      /\ held' = [held EXCEPT ![c][v] = @ \cup {arg[c][v]}]
      /\ UNCHANGED <<intr, count, hasIF, owner, level, arg, oldIF>>
  BY <1>0 DEF Lock_Xchg, At, Goto, Cur, cpuVars, lockVars
<1> HIDE DEF v
<1>1. TypeOK'
  BY <1>0, <1>e DEF IInv, TypeOK, PCs
<1>2. MutualExclusion'
  BY <1>0, <1>e DEF IInv, TypeOK, MutualExclusion, LocksOK
<1>3. OwnerAccurate'
  BY <1>0, <1>e, NoCPUAssumption DEF IInv, TypeOK, OwnerAccurate, MutualExclusion, LocksOK, HeldBy
<1>4. NoPanic'
  BY <1>0, <1>e DEF IInv, TypeOK, NoPanic
<1>5. LocksOK'
  BY <1>0, <1>e, NoCPUAssumption DEF IInv, TypeOK, LocksOK, MutualExclusion, OwnerAccurate
<1>6. FlagsOf(c)'
  <2>1. (level[c] = "task" => pc[c]["irq"] = "run" /\ held[c]["irq"] = {})'
    BY <1>0, <1>e DEF IInv, TypeOK, FlagsOf
  <2>2. (level[c] = "irq"  => /\ pc[c]["task"] \in {"run", "cli"}
                             /\ held[c]["task"] = {}
                             /\ (pc[c]["task"] = "cli" => oldIF[c]["task"]))'
    BY <1>0, <1>e DEF IInv, TypeOK, FlagsOf
  <2>3. (count[c] = Cardinality(held[c][level[c]])
                + IF pc[c][level[c]] \in {"pushed", "spin", "pop"} THEN 1 ELSE 0)'
    <3>1. arg[c][v] \in Lock \ held[c][v]
      BY <1>0, <1>e DEF IInv, TypeOK, LocksOK
    <3>2. held'[c][v] = held[c][v] \cup {arg[c][v]} /\ level'[c] = v /\ pc'[c][v] = "own"
      BY <1>0, <1>e DEF IInv, TypeOK
    <3> QED
      BY <1>0, <1>s, <1>e, <3>1, <3>2 DEF FlagsOf
  <2>4. (intr[c]  <=> (level[c] = "task" /\ count[c] = 0 /\ pc[c][level[c]] # "sti"))'
    BY <1>0, <1>s, <1>e DEF IInv, TypeOK, FlagsOf
  <2>5. (hasIF[c] <=> (level[c] = "task" /\ count[c] > 0))'
    BY <1>0, <1>s, <1>e DEF IInv, TypeOK, FlagsOf
  <2>6. (pc[c][level[c]] = "cli" /\ count[c] = 0 => (oldIF[c][level[c]] <=> level[c] = "task"))'
    BY <1>0, <1>s, <1>e DEF IInv, TypeOK, FlagsOf
  <2>7. (pc[c][level[c]] = "sti" => level[c] = "task" /\ count[c] = 0)'
    BY <1>0, <1>s, <1>e DEF IInv, TypeOK, FlagsOf
  <2> QED
    BY <2>1, <2>2, <2>3, <2>4, <2>5, <2>6, <2>7 DEF FlagsOf
<1>7. FlagsOK'
  BY <1>e, <1>6, FlagsFrame DEF IInv, TypeOK
<1> QED
  BY <1>1, <1>2, <1>3, <1>4, <1>5, <1>7 DEF IInv

LEMMA LockOwnIInv ==
  ASSUME IInv, NEW c \in CPU, Lock_Own(c)
  PROVE  IInv'
<1> DEFINE v == level[c]
<1> USE DEF Level
<1>0. v = level[c] /\ v \in Level /\ FlagsOf(c)
  BY DEF IInv, TypeOK, FlagsOK
<1>s. /\ Cardinality(held[c][v]) \in Nat
      /\ Cardinality(held[c][v]) = 0 <=> held[c][v] = {}
      /\ \A m \in Lock \ held[c][v] : Cardinality(held[c][v] \cup {m}) = Cardinality(held[c][v]) + 1
      /\ \A m \in held[c][v] : Cardinality(held[c][v] \ {m}) = Cardinality(held[c][v]) - 1
  <2>1. held[c][v] \in SUBSET Lock
    BY <1>0 DEF IInv, TypeOK
  <2> QED
    BY <2>1, LockSets
<1>e. /\ pc[c][v] = "own" /\ pc' = [pc EXCEPT ![c][v] = "run"]
      /\ owner' = [owner EXCEPT ![arg[c][v]] = c]
      /\ UNCHANGED <<intr, count, hasIF, locked, level, arg, oldIF, held>>
  BY <1>0 DEF Lock_Own, At, Goto, Cur, cpuVars, lockVars
<1> HIDE DEF v
<1>1. TypeOK'
  BY <1>0, <1>e DEF IInv, TypeOK, PCs
<1>2. MutualExclusion'
  BY <1>0, <1>e DEF IInv, TypeOK, MutualExclusion, LocksOK
<1>3. OwnerAccurate'
  BY <1>0, <1>e, NoCPUAssumption DEF IInv, TypeOK, OwnerAccurate, MutualExclusion, LocksOK, HeldBy
<1>4. NoPanic'
  BY <1>0, <1>e DEF IInv, TypeOK, NoPanic
<1>5. LocksOK'
  BY <1>0, <1>e, NoCPUAssumption DEF IInv, TypeOK, LocksOK, MutualExclusion, OwnerAccurate
<1>6. FlagsOf(c)'
  <2>1. (level[c] = "task" => pc[c]["irq"] = "run" /\ held[c]["irq"] = {})'
    BY <1>0, <1>e DEF IInv, TypeOK, FlagsOf
  <2>2. (level[c] = "irq"  => /\ pc[c]["task"] \in {"run", "cli"}
                             /\ held[c]["task"] = {}
                             /\ (pc[c]["task"] = "cli" => oldIF[c]["task"]))'
    BY <1>0, <1>e DEF IInv, TypeOK, FlagsOf
  <2>3. (count[c] = Cardinality(held[c][level[c]])
                + IF pc[c][level[c]] \in {"pushed", "spin", "pop"} THEN 1 ELSE 0)'
    BY <1>0, <1>s, <1>e DEF IInv, TypeOK, FlagsOf, LocksOK
  <2>4. (intr[c]  <=> (level[c] = "task" /\ count[c] = 0 /\ pc[c][level[c]] # "sti"))'
    BY <1>0, <1>s, <1>e DEF IInv, TypeOK, FlagsOf
  <2>5. (hasIF[c] <=> (level[c] = "task" /\ count[c] > 0))'
    BY <1>0, <1>s, <1>e DEF IInv, TypeOK, FlagsOf
  <2>6. (pc[c][level[c]] = "cli" /\ count[c] = 0 => (oldIF[c][level[c]] <=> level[c] = "task"))'
    BY <1>0, <1>s, <1>e DEF IInv, TypeOK, FlagsOf
  <2>7. (pc[c][level[c]] = "sti" => level[c] = "task" /\ count[c] = 0)'
    BY <1>0, <1>s, <1>e DEF IInv, TypeOK, FlagsOf
  <2> QED
    BY <2>1, <2>2, <2>3, <2>4, <2>5, <2>6, <2>7 DEF FlagsOf
<1>7. FlagsOK'
  BY <1>e, <1>6, FlagsFrame DEF IInv, TypeOK
<1> QED
  BY <1>1, <1>2, <1>3, <1>4, <1>5, <1>7 DEF IInv

LEMMA UnlockCallIInv ==
  ASSUME IInv, NEW c \in CPU, NEW l \in Lock, Unlock_Call(c, l)
  PROVE  IInv'
<1> DEFINE v == level[c]
<1> USE DEF Level
<1>0. v = level[c] /\ v \in Level /\ FlagsOf(c)
  BY DEF IInv, TypeOK, FlagsOK
<1>s. /\ Cardinality(held[c][v]) \in Nat
      /\ Cardinality(held[c][v]) = 0 <=> held[c][v] = {}
      /\ \A m \in Lock \ held[c][v] : Cardinality(held[c][v] \cup {m}) = Cardinality(held[c][v]) + 1
      /\ \A m \in held[c][v] : Cardinality(held[c][v] \ {m}) = Cardinality(held[c][v]) - 1
  <2>1. held[c][v] \in SUBSET Lock
    BY <1>0 DEF IInv, TypeOK
  <2> QED
    BY <2>1, LockSets
<1>p. pc[c][v] = "run" /\ l \in held[c][v] /\ IsHolding(c, l)
  BY <1>0 DEF Unlock_Call, At, IsHolding, IInv, LocksOK
<1>e. /\ pc[c][v] = "run" /\ pc' = [pc EXCEPT ![c][v] = "rel"]
      /\ l \in held[c][v] /\ arg' = [arg EXCEPT ![c][v] = l]
      /\ owner' = [owner EXCEPT ![l] = NoCPU]
      /\ UNCHANGED <<intr, count, hasIF, locked, level, oldIF, held>>
  BY <1>p DEF Unlock_Call, At, Goto, Cur, cpuVars, lockVars
<1> HIDE DEF v
<1>1. TypeOK'
  BY <1>0, <1>e DEF IInv, TypeOK, PCs
<1>2. MutualExclusion'
  BY <1>0, <1>e DEF IInv, TypeOK, MutualExclusion, LocksOK
<1>3. OwnerAccurate'
  BY <1>0, <1>e, NoCPUAssumption DEF IInv, TypeOK, OwnerAccurate, MutualExclusion, LocksOK, HeldBy
<1>4. NoPanic'
  BY <1>0, <1>e DEF IInv, TypeOK, NoPanic
<1>5. LocksOK'
  BY <1>0, <1>e, NoCPUAssumption DEF IInv, TypeOK, LocksOK, MutualExclusion, OwnerAccurate
<1>6. FlagsOf(c)'
  <2>1. (level[c] = "task" => pc[c]["irq"] = "run" /\ held[c]["irq"] = {})'
    BY <1>0, <1>e DEF IInv, TypeOK, FlagsOf
  <2>2. (level[c] = "irq"  => /\ pc[c]["task"] \in {"run", "cli"}
                             /\ held[c]["task"] = {}
                             /\ (pc[c]["task"] = "cli" => oldIF[c]["task"]))'
    BY <1>0, <1>e DEF IInv, TypeOK, FlagsOf
  <2>3. (count[c] = Cardinality(held[c][level[c]])
                + IF pc[c][level[c]] \in {"pushed", "spin", "pop"} THEN 1 ELSE 0)'
    BY <1>0, <1>s, <1>e DEF IInv, TypeOK, FlagsOf, LocksOK
  <2>4. (intr[c]  <=> (level[c] = "task" /\ count[c] = 0 /\ pc[c][level[c]] # "sti"))'
    BY <1>0, <1>s, <1>e DEF IInv, TypeOK, FlagsOf
  <2>5. (hasIF[c] <=> (level[c] = "task" /\ count[c] > 0))'
    BY <1>0, <1>s, <1>e DEF IInv, TypeOK, FlagsOf
  <2>6. (pc[c][level[c]] = "cli" /\ count[c] = 0 => (oldIF[c][level[c]] <=> level[c] = "task"))'
    BY <1>0, <1>s, <1>e DEF IInv, TypeOK, FlagsOf
  <2>7. (pc[c][level[c]] = "sti" => level[c] = "task" /\ count[c] = 0)'
    BY <1>0, <1>s, <1>e DEF IInv, TypeOK, FlagsOf
  <2> QED
    BY <2>1, <2>2, <2>3, <2>4, <2>5, <2>6, <2>7 DEF FlagsOf
<1>7. FlagsOK'
  BY <1>e, <1>6, FlagsFrame DEF IInv, TypeOK
<1> QED
  BY <1>1, <1>2, <1>3, <1>4, <1>5, <1>7 DEF IInv

LEMMA UnlockXchgIInv ==
  ASSUME IInv, NEW c \in CPU, Unlock_Xchg(c)
  PROVE  IInv'
<1> DEFINE v == level[c]
<1> USE DEF Level
<1>0. v = level[c] /\ v \in Level /\ FlagsOf(c)
  BY DEF IInv, TypeOK, FlagsOK
<1>s. /\ Cardinality(held[c][v]) \in Nat
      /\ Cardinality(held[c][v]) = 0 <=> held[c][v] = {}
      /\ \A m \in Lock \ held[c][v] : Cardinality(held[c][v] \cup {m}) = Cardinality(held[c][v]) + 1
      /\ \A m \in held[c][v] : Cardinality(held[c][v] \ {m}) = Cardinality(held[c][v]) - 1
  <2>1. held[c][v] \in SUBSET Lock
    BY <1>0 DEF IInv, TypeOK
  <2> QED
    BY <2>1, LockSets
<1>e. /\ pc[c][v] = "rel" /\ pc' = [pc EXCEPT ![c][v] = "pop"]
      /\ locked' = [locked EXCEPT ![arg[c][v]] = FALSE]
      /\ held' = [held EXCEPT ![c][v] = @ \ {arg[c][v]}]
      /\ UNCHANGED <<intr, count, hasIF, owner, level, arg, oldIF>>
  BY <1>0 DEF Unlock_Xchg, At, Goto, Cur, cpuVars, lockVars
<1> HIDE DEF v
<1>1. TypeOK'
  BY <1>0, <1>e DEF IInv, TypeOK, PCs
<1>2. MutualExclusion'
  BY <1>0, <1>e DEF IInv, TypeOK, MutualExclusion, LocksOK
<1>3. OwnerAccurate'
  BY <1>0, <1>e, NoCPUAssumption DEF IInv, TypeOK, OwnerAccurate, MutualExclusion, LocksOK, HeldBy
<1>4. NoPanic'
  BY <1>0, <1>e DEF IInv, TypeOK, NoPanic
<1>5. LocksOK'
  BY <1>0, <1>e, NoCPUAssumption DEF IInv, TypeOK, LocksOK, MutualExclusion, OwnerAccurate
<1>6. FlagsOf(c)'
  <2>1. (level[c] = "task" => pc[c]["irq"] = "run" /\ held[c]["irq"] = {})'
    BY <1>0, <1>e DEF IInv, TypeOK, FlagsOf
  <2>2. (level[c] = "irq"  => /\ pc[c]["task"] \in {"run", "cli"}
                             /\ held[c]["task"] = {}
                             /\ (pc[c]["task"] = "cli" => oldIF[c]["task"]))'
    BY <1>0, <1>e DEF IInv, TypeOK, FlagsOf
  <2>3. (count[c] = Cardinality(held[c][level[c]])
                + IF pc[c][level[c]] \in {"pushed", "spin", "pop"} THEN 1 ELSE 0)'
    <3>1. arg[c][v] \in held[c][v]
      BY <1>0, <1>e DEF IInv, TypeOK, LocksOK
    <3>2. held'[c][v] = held[c][v] \ {arg[c][v]} /\ level'[c] = v /\ pc'[c][v] = "pop"
      BY <1>0, <1>e DEF IInv, TypeOK
    <3>3. Cardinality(held'[c][v]) = Cardinality(held[c][v]) - 1
      BY <1>s, <3>1, <3>2
    <3>4. count[c] = Cardinality(held[c][v]) /\ count'[c] = count[c]
      BY <1>0, <1>s, <1>e DEF FlagsOf
    <3>5. count'[c] = Cardinality(held'[c][v]) + 1
      BY <1>s, <3>3, <3>4
    <3> QED
      BY <3>2, <3>5
  <2>4. (intr[c]  <=> (level[c] = "task" /\ count[c] = 0 /\ pc[c][level[c]] # "sti"))'
    BY <1>0, <1>s, <1>e DEF IInv, TypeOK, FlagsOf
  <2>5. (hasIF[c] <=> (level[c] = "task" /\ count[c] > 0))'
    BY <1>0, <1>s, <1>e DEF IInv, TypeOK, FlagsOf
  <2>6. (pc[c][level[c]] = "cli" /\ count[c] = 0 => (oldIF[c][level[c]] <=> level[c] = "task"))'
    BY <1>0, <1>s, <1>e DEF IInv, TypeOK, FlagsOf
  <2>7. (pc[c][level[c]] = "sti" => level[c] = "task" /\ count[c] = 0)'
    BY <1>0, <1>s, <1>e DEF IInv, TypeOK, FlagsOf
  <2> QED
    BY <2>1, <2>2, <2>3, <2>4, <2>5, <2>6, <2>7 DEF FlagsOf
<1>7. FlagsOK'
  BY <1>e, <1>6, FlagsFrame DEF IInv, TypeOK
<1> QED
  BY <1>1, <1>2, <1>3, <1>4, <1>5, <1>7 DEF IInv

LEMMA PopCliIInv ==
  ASSUME IInv, NEW c \in CPU, PopCli(c)
  PROVE  IInv'
<1> DEFINE v == level[c]
<1> USE DEF Level
<1>0. v = level[c] /\ v \in Level /\ FlagsOf(c)
  BY DEF IInv, TypeOK, FlagsOK
<1>s. /\ Cardinality(held[c][v]) \in Nat
      /\ Cardinality(held[c][v]) = 0 <=> held[c][v] = {}
      /\ \A m \in Lock \ held[c][v] : Cardinality(held[c][v] \cup {m}) = Cardinality(held[c][v]) + 1
      /\ \A m \in held[c][v] : Cardinality(held[c][v] \ {m}) = Cardinality(held[c][v]) - 1
  <2>1. held[c][v] \in SUBSET Lock
    BY <1>0 DEF IInv, TypeOK
  <2> QED
    BY <2>1, LockSets
<1>p. pc[c][v] = "pop" /\ ~intr[c] /\ count[c] # 0
  BY <1>0, <1>s DEF PopCli, At, FlagsOf
<1>e. /\ pc[c][v] = "pop"
      /\ pc' = [pc EXCEPT ![c][v] = IF count[c] = 1 /\ hasIF[c] THEN "sti" ELSE "run"]
      /\ count' = [count EXCEPT ![c] = @ - 1]
      /\ hasIF' = [hasIF EXCEPT ![c] = IF count[c] = 1 THEN FALSE ELSE @]
      /\ count[c] # 0
      /\ UNCHANGED <<intr, locked, owner, level, arg, oldIF, held>>
  <2>1. hasIF \in [CPU -> BOOLEAN]
    BY DEF IInv, TypeOK
  <2> USE <1>0, <1>p DEF PopCli, At, Goto, Cur, cpuVars, lockVars
  <2>2. CASE count[c] = 1 /\ hasIF[c]
    BY <2>2
  <2>3. CASE ~(count[c] = 1 /\ hasIF[c])
    BY <2>1, <2>3
  <2> QED
    BY <2>2, <2>3
<1> HIDE DEF v
<1>1. TypeOK'
  <2>1. count \in [CPU -> Nat] /\ count[c] - 1 \in Nat
    BY <1>p DEF IInv, TypeOK
  <2>2. pc' \in [CPU -> [Level -> PCs]]
    BY <1>0, <1>e DEF IInv, TypeOK, PCs
  <2> QED
    BY <1>0, <1>e, <2>1, <2>2 DEF IInv, TypeOK
<1>2. MutualExclusion'
  BY <1>0, <1>e DEF IInv, TypeOK, MutualExclusion, LocksOK
<1>3. OwnerAccurate'
  BY <1>0, <1>e, NoCPUAssumption DEF IInv, TypeOK, OwnerAccurate, MutualExclusion, LocksOK, HeldBy
<1>4. NoPanic'
  BY <1>0, <1>e DEF IInv, TypeOK, NoPanic
<1>5. LocksOK'
  BY <1>0, <1>e, NoCPUAssumption DEF IInv, TypeOK, LocksOK, MutualExclusion, OwnerAccurate
<1>6. FlagsOf(c)'
  <2>1. (level[c] = "task" => pc[c]["irq"] = "run" /\ held[c]["irq"] = {})'
    BY <1>0, <1>e DEF IInv, TypeOK, FlagsOf
  <2>2. (level[c] = "irq"  => /\ pc[c]["task"] \in {"run", "cli"}
                             /\ held[c]["task"] = {}
                             /\ (pc[c]["task"] = "cli" => oldIF[c]["task"]))'
    BY <1>0, <1>e DEF IInv, TypeOK, FlagsOf
  <2>3. (count[c] = Cardinality(held[c][level[c]])
                + IF pc[c][level[c]] \in {"pushed", "spin", "pop"} THEN 1 ELSE 0)'
    BY <1>0, <1>s, <1>e DEF IInv, TypeOK, FlagsOf, LocksOK
  <2>4. (intr[c]  <=> (level[c] = "task" /\ count[c] = 0 /\ pc[c][level[c]] # "sti"))'
    BY <1>0, <1>s, <1>e DEF IInv, TypeOK, FlagsOf
  <2>5. (hasIF[c] <=> (level[c] = "task" /\ count[c] > 0))'
    BY <1>0, <1>s, <1>e DEF IInv, TypeOK, FlagsOf
  <2>6. (pc[c][level[c]] = "cli" /\ count[c] = 0 => (oldIF[c][level[c]] <=> level[c] = "task"))'
    BY <1>0, <1>s, <1>e DEF IInv, TypeOK, FlagsOf
  <2>7. (pc[c][level[c]] = "sti" => level[c] = "task" /\ count[c] = 0)'
    BY <1>0, <1>s, <1>e DEF IInv, TypeOK, FlagsOf
  <2> QED
    BY <2>1, <2>2, <2>3, <2>4, <2>5, <2>6, <2>7 DEF FlagsOf
<1>7. FlagsOK'
  BY <1>e, <1>6, FlagsFrame DEF IInv, TypeOK
<1> QED
  BY <1>1, <1>2, <1>3, <1>4, <1>5, <1>7 DEF IInv

LEMMA StiIInv ==
  ASSUME IInv, NEW c \in CPU, Sti(c)
  PROVE  IInv'
<1> DEFINE v == level[c]
<1> USE DEF Level
<1>0. v = level[c] /\ v \in Level /\ FlagsOf(c)
  BY DEF IInv, TypeOK, FlagsOK
<1>s. /\ Cardinality(held[c][v]) \in Nat
      /\ Cardinality(held[c][v]) = 0 <=> held[c][v] = {}
      /\ \A m \in Lock \ held[c][v] : Cardinality(held[c][v] \cup {m}) = Cardinality(held[c][v]) + 1
      /\ \A m \in held[c][v] : Cardinality(held[c][v] \ {m}) = Cardinality(held[c][v]) - 1
  <2>1. held[c][v] \in SUBSET Lock
    BY <1>0 DEF IInv, TypeOK
  <2> QED
    BY <2>1, LockSets
<1>e. /\ pc[c][v] = "sti" /\ pc' = [pc EXCEPT ![c][v] = "run"]
      /\ intr' = [intr EXCEPT ![c] = TRUE]
      /\ UNCHANGED <<count, hasIF, locked, owner, level, arg, oldIF, held>>
  BY <1>0 DEF Sti, At, Goto, Cur, cpuVars, lockVars
<1> HIDE DEF v
<1>1. TypeOK'
  BY <1>0, <1>e DEF IInv, TypeOK, PCs
<1>2. MutualExclusion'
  BY <1>0, <1>e DEF IInv, TypeOK, MutualExclusion, LocksOK
<1>3. OwnerAccurate'
  BY <1>0, <1>e, NoCPUAssumption DEF IInv, TypeOK, OwnerAccurate, MutualExclusion, LocksOK, HeldBy
<1>4. NoPanic'
  BY <1>0, <1>e DEF IInv, TypeOK, NoPanic
<1>5. LocksOK'
  BY <1>0, <1>e, NoCPUAssumption DEF IInv, TypeOK, LocksOK, MutualExclusion, OwnerAccurate
<1>6. FlagsOf(c)'
  <2>1. (level[c] = "task" => pc[c]["irq"] = "run" /\ held[c]["irq"] = {})'
    BY <1>0, <1>e DEF IInv, TypeOK, FlagsOf
  <2>2. (level[c] = "irq"  => /\ pc[c]["task"] \in {"run", "cli"}
                             /\ held[c]["task"] = {}
                             /\ (pc[c]["task"] = "cli" => oldIF[c]["task"]))'
    BY <1>0, <1>e DEF IInv, TypeOK, FlagsOf
  <2>3. (count[c] = Cardinality(held[c][level[c]])
                + IF pc[c][level[c]] \in {"pushed", "spin", "pop"} THEN 1 ELSE 0)'
    BY <1>0, <1>s, <1>e DEF IInv, TypeOK, FlagsOf, LocksOK
  <2>4. (intr[c]  <=> (level[c] = "task" /\ count[c] = 0 /\ pc[c][level[c]] # "sti"))'
    BY <1>0, <1>s, <1>e DEF IInv, TypeOK, FlagsOf
  <2>5. (hasIF[c] <=> (level[c] = "task" /\ count[c] > 0))'
    BY <1>0, <1>s, <1>e DEF IInv, TypeOK, FlagsOf
  <2>6. (pc[c][level[c]] = "cli" /\ count[c] = 0 => (oldIF[c][level[c]] <=> level[c] = "task"))'
    BY <1>0, <1>s, <1>e DEF IInv, TypeOK, FlagsOf
  <2>7. (pc[c][level[c]] = "sti" => level[c] = "task" /\ count[c] = 0)'
    BY <1>0, <1>s, <1>e DEF IInv, TypeOK, FlagsOf
  <2> QED
    BY <2>1, <2>2, <2>3, <2>4, <2>5, <2>6, <2>7 DEF FlagsOf
<1>7. FlagsOK'
  BY <1>e, <1>6, FlagsFrame DEF IInv, TypeOK
<1> QED
  BY <1>1, <1>2, <1>3, <1>4, <1>5, <1>7 DEF IInv

LEMMA InterruptIInv ==
  ASSUME IInv, NEW c \in CPU, Interrupt(c)
  PROVE  IInv'
<1> DEFINE v == level[c]
<1> USE DEF Level
<1>0. v = level[c] /\ v \in Level /\ FlagsOf(c)
  BY DEF IInv, TypeOK, FlagsOK
<1>s. /\ Cardinality(held[c][v]) \in Nat
      /\ Cardinality(held[c][v]) = 0 <=> held[c][v] = {}
      /\ \A m \in Lock \ held[c][v] : Cardinality(held[c][v] \cup {m}) = Cardinality(held[c][v]) + 1
      /\ \A m \in held[c][v] : Cardinality(held[c][v] \ {m}) = Cardinality(held[c][v]) - 1
  <2>1. held[c][v] \in SUBSET Lock
    BY <1>0 DEF IInv, TypeOK
  <2> QED
    BY <2>1, LockSets
<1>p. /\ v = "task" /\ count[c] = 0 /\ ~hasIF[c] /\ held[c]["task"] = {}
      /\ pc[c]["task"] \in {"run", "cli"} /\ (pc[c]["task"] = "cli" => oldIF[c]["task"])
      /\ pc[c]["irq"] = "run" /\ held[c]["irq"] = {}
  <2>1. v = "task" /\ intr[c]
    BY <1>0 DEF Interrupt
  <2>2. count[c] = 0 /\ pc[c][v] # "sti" /\ ~hasIF[c]
    BY <1>0, <2>1 DEF FlagsOf
  <2>3. held[c][v] = {} /\ pc[c][v] \notin {"pushed", "spin", "pop"}
    BY <1>0, <1>s, <2>2 DEF FlagsOf
  <2>4. pc[c][v] \in {"run", "cli"}
    BY <1>0, <2>1, <2>2, <2>3 DEF IInv, TypeOK, PCs, LocksOK, NoPanic, Interrupt, At
  <2> QED
    BY <1>0, <2>1, <2>2, <2>3, <2>4 DEF FlagsOf
<1>z. Cardinality({}) = 0
  BY FS_EmptySet
<1>e. /\ v = "task" /\ intr[c]
      /\ level' = [level EXCEPT ![c] = "irq"] /\ intr' = [intr EXCEPT ![c] = FALSE]
      /\ UNCHANGED <<count, hasIF, locked, owner, pc, arg, oldIF, held>>
  BY <1>0 DEF Interrupt, At, Goto, Cur, cpuVars, lockVars
<1> HIDE DEF v
<1>1. TypeOK'
  BY <1>0, <1>e DEF IInv, TypeOK, PCs
<1>2. MutualExclusion'
  BY <1>0, <1>e DEF IInv, TypeOK, MutualExclusion, LocksOK
<1>3. OwnerAccurate'
  BY <1>0, <1>e, NoCPUAssumption DEF IInv, TypeOK, OwnerAccurate, MutualExclusion, LocksOK, HeldBy
<1>4. NoPanic'
  BY <1>0, <1>e DEF IInv, TypeOK, NoPanic
<1>5. LocksOK'
  BY <1>0, <1>e, NoCPUAssumption DEF IInv, TypeOK, LocksOK, MutualExclusion, OwnerAccurate
<1>6. FlagsOf(c)'
  <2>1. (level[c] = "task" => pc[c]["irq"] = "run" /\ held[c]["irq"] = {})'
    BY <1>0, <1>p, <1>e DEF IInv, TypeOK, FlagsOf
  <2>2. (level[c] = "irq"  => /\ pc[c]["task"] \in {"run", "cli"}
                             /\ held[c]["task"] = {}
                             /\ (pc[c]["task"] = "cli" => oldIF[c]["task"]))'
    BY <1>0, <1>p, <1>e DEF IInv, TypeOK, FlagsOf
  <2>3. (count[c] = Cardinality(held[c][level[c]])
                + IF pc[c][level[c]] \in {"pushed", "spin", "pop"} THEN 1 ELSE 0)'
    <3>1. level'[c] = "irq" /\ held'[c]["irq"] = {} /\ count'[c] = 0
      BY <1>0, <1>p, <1>e DEF IInv, TypeOK
    <3>2. pc'[c]["irq"] \in {"run", "cli"}
      BY <1>p, <1>e
    <3> QED
      BY <1>z, <3>1, <3>2
  <2>4. (intr[c]  <=> (level[c] = "task" /\ count[c] = 0 /\ pc[c][level[c]] # "sti"))'
    BY <1>0, <1>p, <1>z, <1>e DEF IInv, TypeOK, FlagsOf
  <2>5. (hasIF[c] <=> (level[c] = "task" /\ count[c] > 0))'
    BY <1>0, <1>p, <1>z, <1>e DEF IInv, TypeOK, FlagsOf
  <2>6. (pc[c][level[c]] = "cli" /\ count[c] = 0 => (oldIF[c][level[c]] <=> level[c] = "task"))'
    BY <1>0, <1>p, <1>z, <1>e DEF IInv, TypeOK, FlagsOf
  <2>7. (pc[c][level[c]] = "sti" => level[c] = "task" /\ count[c] = 0)'
    BY <1>0, <1>p, <1>z, <1>e DEF IInv, TypeOK, FlagsOf
  <2> QED
    BY <2>1, <2>2, <2>3, <2>4, <2>5, <2>6, <2>7 DEF FlagsOf
<1>7. FlagsOK'
  BY <1>e, <1>6, FlagsFrame DEF IInv, TypeOK
<1> QED
  BY <1>1, <1>2, <1>3, <1>4, <1>5, <1>7 DEF IInv

LEMMA IretIInv ==
  ASSUME IInv, NEW c \in CPU, Iret(c)
  PROVE  IInv'
<1> DEFINE v == level[c]
<1> USE DEF Level
<1>0. v = level[c] /\ v \in Level /\ FlagsOf(c)
  BY DEF IInv, TypeOK, FlagsOK
<1>s. /\ Cardinality(held[c][v]) \in Nat
      /\ Cardinality(held[c][v]) = 0 <=> held[c][v] = {}
      /\ \A m \in Lock \ held[c][v] : Cardinality(held[c][v] \cup {m}) = Cardinality(held[c][v]) + 1
      /\ \A m \in held[c][v] : Cardinality(held[c][v] \ {m}) = Cardinality(held[c][v]) - 1
  <2>1. held[c][v] \in SUBSET Lock
    BY <1>0 DEF IInv, TypeOK
  <2> QED
    BY <2>1, LockSets
<1>p. /\ v = "irq" /\ count[c] = 0 /\ ~hasIF[c] /\ held[c]["task"] = {} /\ held[c]["irq"] = {}
      /\ pc[c]["task"] \in {"run", "cli"} /\ (pc[c]["task"] = "cli" => oldIF[c]["task"])
      /\ pc[c]["irq"] = "run"
  <2>1. v = "irq" /\ pc[c]["irq"] = "run" /\ held[c]["irq"] = {}
    BY <1>0 DEF Iret, At
  <2> QED
    BY <1>0, <1>s, <2>1 DEF FlagsOf
<1>z. Cardinality({}) = 0
  BY FS_EmptySet
<1>e. /\ v = "irq" /\ pc[c][v] = "run" /\ held[c][v] = {}
      /\ level' = [level EXCEPT ![c] = "task"] /\ intr' = [intr EXCEPT ![c] = TRUE]
      /\ UNCHANGED <<count, hasIF, locked, owner, pc, arg, oldIF, held>>
  BY <1>0 DEF Iret, At, Goto, Cur, cpuVars, lockVars
<1> HIDE DEF v
<1>1. TypeOK'
  BY <1>0, <1>e DEF IInv, TypeOK, PCs
<1>2. MutualExclusion'
  BY <1>0, <1>e DEF IInv, TypeOK, MutualExclusion, LocksOK
<1>3. OwnerAccurate'
  BY <1>0, <1>e, NoCPUAssumption DEF IInv, TypeOK, OwnerAccurate, MutualExclusion, LocksOK, HeldBy
<1>4. NoPanic'
  BY <1>0, <1>e DEF IInv, TypeOK, NoPanic
<1>5. LocksOK'
  BY <1>0, <1>e, NoCPUAssumption DEF IInv, TypeOK, LocksOK, MutualExclusion, OwnerAccurate
<1>6. FlagsOf(c)'
  <2>1. (level[c] = "task" => pc[c]["irq"] = "run" /\ held[c]["irq"] = {})'
    BY <1>0, <1>p, <1>e DEF IInv, TypeOK, FlagsOf
  <2>2. (level[c] = "irq"  => /\ pc[c]["task"] \in {"run", "cli"}
                             /\ held[c]["task"] = {}
                             /\ (pc[c]["task"] = "cli" => oldIF[c]["task"]))'
    BY <1>0, <1>p, <1>e DEF IInv, TypeOK, FlagsOf
  <2>3. (count[c] = Cardinality(held[c][level[c]])
                + IF pc[c][level[c]] \in {"pushed", "spin", "pop"} THEN 1 ELSE 0)'
    <3>1. level'[c] = "task" /\ held'[c]["task"] = {} /\ count'[c] = 0
      BY <1>0, <1>p, <1>e DEF IInv, TypeOK
    <3>2. pc'[c]["task"] \in {"run", "cli"}
      BY <1>p, <1>e
    <3> QED
      BY <1>z, <3>1, <3>2
  <2>4. (intr[c]  <=> (level[c] = "task" /\ count[c] = 0 /\ pc[c][level[c]] # "sti"))'
    BY <1>0, <1>p, <1>z, <1>e DEF IInv, TypeOK, FlagsOf
  <2>5. (hasIF[c] <=> (level[c] = "task" /\ count[c] > 0))'
    BY <1>0, <1>p, <1>z, <1>e DEF IInv, TypeOK, FlagsOf
  <2>6. (pc[c][level[c]] = "cli" /\ count[c] = 0 => (oldIF[c][level[c]] <=> level[c] = "task"))'
    BY <1>0, <1>p, <1>z, <1>e DEF IInv, TypeOK, FlagsOf
  <2>7. (pc[c][level[c]] = "sti" => level[c] = "task" /\ count[c] = 0)'
    BY <1>0, <1>p, <1>z, <1>e DEF IInv, TypeOK, FlagsOf
  <2> QED
    BY <2>1, <2>2, <2>3, <2>4, <2>5, <2>6, <2>7 DEF FlagsOf
<1>7. FlagsOK'
  BY <1>e, <1>6, FlagsFrame DEF IInv, TypeOK
<1> QED
  BY <1>1, <1>2, <1>3, <1>4, <1>5, <1>7 DEF IInv

\* Every step preserves the invariant.
LEMMA StepIInv == IInv /\ [Next]_vars => IInv'
<1> SUFFICES ASSUME IInv, [Next]_vars PROVE IInv'
  OBVIOUS
<1>1. CASE Next
  <2> PICK c \in CPU : Step(c)
    BY <1>1 DEF Next
  <2>1. CASE \E l \in Lock : Lock_Call(c, l)
    BY <2>1, LockCallIInv
  <2>2. CASE Acquire(c)
    BY <2>2, PushCliIInv, LockCheckIInv, LockXchgIInv, LockOwnIInv DEF Acquire
  <2>3. CASE Unlock(c)
    BY <2>3, UnlockCallIInv, UnlockXchgIInv, PopCliIInv, StiIInv DEF Unlock
  <2>4. CASE Interrupt(c) \/ Iret(c)
    BY <2>4, InterruptIInv, IretIInv
  <2> QED
    BY <2>1, <2>2, <2>3, <2>4 DEF Step
<1>2. CASE UNCHANGED vars
  BY <1>2 DEF vars, IInv, TypeOK, MutualExclusion, OwnerAccurate, NoPanic,
              LocksOK, FlagsOK, FlagsOf, HeldBy
<1> QED
  BY <1>1, <1>2

\* The invariant holds in every execution.
THEOREM Inductive == Spec => []IInv
BY InitIInv, StepIInv, PTL DEF Spec

\* The variables of pushcli, popcli and the locks keep their types: the
\* count of nested locks is never negative.
THEOREM TypeCorrect == Spec => []TypeOK
<1>1. IInv => TypeOK
  BY DEF IInv
<1> QED
  BY Inductive, <1>1, PTL

\* Two CPUs, or a task and the trap that interrupted it, are never inside
\* the critical section of the same lock.
THEOREM Exclusion == Spec => []MutualExclusion
<1>1. IInv => MutualExclusion
  BY DEF IInv
<1> QED
  BY Inductive, <1>1, PTL

\* lk->cpu, the only thing is_holding_spin looks at, names the true holder.
THEOREM OwnerIsHolder == Spec => []OwnerAccurate
<1>1. IInv => OwnerAccurate
  BY DEF IInv
<1> QED
  BY Inductive, <1>1, PTL

\* No assertion of pushcli or popcli and no panic of spin_lock or spin_unlock
\* can be reached.
THEOREM PanicFree == Spec => []NoPanic
<1>1. IInv => NoPanic
  BY DEF IInv
<1> QED
  BY Inductive, <1>1, PTL

\* Interrupts are off in every critical section and come back as they were.
THEOREM InterruptsBalance == Spec => []InterruptsRestored
<1>1. IInv => InterruptsRestored
  <2> SUFFICES ASSUME IInv, NEW c \in CPU
               PROVE  /\ HeldBy(c) # {} => ~intr[c]
                      /\ At(c, "run") /\ held[c][level[c]] = {} => (intr[c] <=> level[c] = "task")
    BY DEF InterruptsRestored
  <2>1. FlagsOf(c) /\ level[c] \in Level /\ held[c][level[c]] \in SUBSET Lock
    BY DEF IInv, FlagsOK, TypeOK, Level
  <2>2. /\ Cardinality(held[c][level[c]]) \in Nat
        /\ Cardinality(held[c][level[c]]) = 0 <=> held[c][level[c]] = {}
    BY <2>1, LockSets
  <2>3. HeldBy(c) # {} => held[c][level[c]] # {}
    BY <2>1 DEF FlagsOf, HeldBy, Level
  <2>4. held[c][level[c]] # {} => ~intr[c]
    BY <2>1, <2>2 DEF FlagsOf
  <2>5. At(c, "run") /\ held[c][level[c]] = {} => (intr[c] <=> level[c] = "task")
    BY <2>1, <2>2 DEF FlagsOf, At
  <2> QED
    BY <2>3, <2>4, <2>5
<1> QED
  BY Inductive, <1>1, PTL

----------------------------------------------------------------------------
(* Refinement *)

HolderFacts ==
  /\ \A l \in Lock, c \in CPU, v \in Level : l \in held[c][v] => Holder[l] = <<c, v>>
  /\ \A l \in Lock : (\A c \in CPU, v \in Level : l \notin held[c][v]) => Holder[l] = Nobody

\* Who is inside the section of a lock: at most one, by mutual exclusion.
LEMMA HolderIs == MutualExclusion => HolderFacts
<1>0. \A l \in Lock : (\A c \in CPU, v \in Level : l \notin held[c][v]) => Holder[l] = Nobody
  BY DEF Holder, Only, InSection, Process
<1> SUFFICES ASSUME MutualExclusion, NEW l \in Lock, NEW c \in CPU, NEW v \in Level,
                    l \in held[c][v]
             PROVE  Holder[l] = <<c, v>>
  BY <1>0 DEF HolderFacts
<1>1. <<c, v>> \in InSection(l)
  BY DEF InSection, Process
<1>2. \A p \in InSection(l) : p = <<c, v>>
  BY DEF InSection, Process, MutualExclusion
<1> QED
  BY <1>1, <1>2 DEF Holder, Only

\* A step that leaves every critical section as it was is a stutter.
LEMMA HolderSame == UNCHANGED held => UNCHANGED Holder
BY DEF Holder, InSection, Process

\* The spinlock implements the abstract lock, whatever interrupts arrive.
THEOREM Refinement == Spec => ImplementsLock
<1>1. Init => Abs!Init
  BY DEF Init, Abs!Init, Holder, Only, InSection, Process, Level
<1>2. IInv /\ IInv' /\ [Next]_vars => [Abs!Next]_Holder
  <2> SUFFICES ASSUME IInv, IInv', [Next]_vars PROVE [Abs!Next]_Holder
    OBVIOUS
  <2> USE DEF IInv
  <2>h. HolderFacts /\ HolderFacts'
    <3>1. (MutualExclusion => HolderFacts)'
      BY HolderIs, PTL
    <3> QED
      BY <3>1, HolderIs
  <2>1. ASSUME NEW c \in CPU, Lock_Xchg(c) PROVE Abs!Next
    <3> DEFINE v == level[c]
               l == arg[c][v]
    <3>1. /\ v \in Level /\ l \in Lock /\ <<c, v>> \in Process
          /\ held' = [held EXCEPT ![c][v] = @ \cup {l}] /\ ~locked[l]
      BY <2>1 DEF TypeOK, Level, Process, Lock_Xchg, Cur
    <3> HIDE DEF v, l
    <3>2. \A d \in CPU, u \in Level : l \notin held[d][u]
      BY <3>1 DEF LocksOK
    <3>3. Holder[l] = Nobody
      BY <3>1, <3>2, <2>h DEF HolderFacts
    <3>4. l \in held'[c][v]
      BY <3>1 DEF TypeOK
    <3>5. Holder'[l] = <<c, v>>
      BY <3>1, <3>4, <2>h DEF HolderFacts
    <3>6. \A m \in Lock \ {l} : InSection(m)' = InSection(m)
      BY <3>1 DEF InSection, Process, TypeOK
    <3>7. Holder' = [Holder EXCEPT ![l] = <<c, v>>]
      BY <3>5, <3>6, <3>1 DEF Holder
    <3> QED
      BY <3>1, <3>3, <3>7 DEF Abs!Next, Abs!Take
  <2>2. ASSUME NEW c \in CPU, Unlock_Xchg(c) PROVE Abs!Next
    <3> DEFINE v == level[c]
               l == arg[c][v]
    <3>1. /\ v \in Level /\ l \in Lock /\ <<c, v>> \in Process
          /\ held' = [held EXCEPT ![c][v] = @ \ {l}] /\ l \in held[c][v]
      BY <2>2 DEF TypeOK, LocksOK, Level, Process, Unlock_Xchg, Cur, At
    <3> HIDE DEF v, l
    <3>2. Holder[l] = <<c, v>>
      BY <3>1, <2>h DEF HolderFacts
    <3>3. \A d \in CPU, u \in Level : l \notin held'[d][u]
      BY <3>1 DEF TypeOK, MutualExclusion
    <3>4. Holder'[l] = Nobody
      BY <3>1, <3>3, <2>h DEF HolderFacts
    <3>5. \A m \in Lock \ {l} : InSection(m)' = InSection(m)
      BY <3>1 DEF InSection, Process, TypeOK
    <3>6. Holder' = [Holder EXCEPT ![l] = Nobody]
      BY <3>4, <3>5, <3>1 DEF Holder
    <3> QED
      BY <3>1, <3>2, <3>6 DEF Abs!Next, Abs!Give
  <2>3. CASE UNCHANGED held
    BY <2>3, HolderSame
  <2>4. CASE Next
    <3> PICK c \in CPU : Step(c)
      BY <2>4 DEF Next
    <3>1. \/ Lock_Xchg(c) \/ Unlock_Xchg(c) \/ UNCHANGED held
      BY DEF Step, Acquire, Unlock, Lock_Call, PushCli, Lock_Check, Lock_Own,
             Unlock_Call, PopCli, Sti, Interrupt, Iret
    <3> QED
      BY <3>1, <2>1, <2>2, <2>3
  <2>5. CASE UNCHANGED vars
    BY <2>5, <2>3 DEF vars
  <2> QED
    BY <2>4, <2>5
<1> QED
  BY Inductive, <1>1, <1>2, PTL DEF Spec, ImplementsLock, Abs!Spec
=============================================================================
