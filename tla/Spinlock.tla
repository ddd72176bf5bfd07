------------------------------ MODULE Spinlock ------------------------------
(***************************************************************************)
(* The spinlocks of kernel/src/kmt.c: pushcli/popcli, which count on each  *)
(* CPU how many locks it holds and keep its interrupts off meanwhile, and  *)
(* spin_lock/spin_unlock over an atomic exchange.  Every CPU runs a task,  *)
(* and whenever its interrupt flag is set a trap may interrupt the task at *)
(* any instruction and take locks of its own before it returns.            *)
(*                                                                         *)
(* Clients are the kernel's: they take locks in a fixed order, release     *)
(* only what they hold, and a trap returns with every lock it took given   *)
(* back (os.c, trap).  is_holding_spin, called with interrupts off, pushes *)
(* and pops one level with no net effect and is part of its caller's step. *)
(***************************************************************************)
EXTENDS Naturals, FiniteSets

CONSTANTS CPU,       \* the processors, MAX_CPU at most
          NumLock    \* the locks are 1 .. NumLock, in the order of acquisition

ASSUME NumLockAssumption == NumLock \in Nat \ {0}
ASSUME CPUAssumption     == IsFiniteSet(CPU)

Lock  == 1 .. NumLock
Level == {"task", "irq"}
NoCPU == "none"          \* lk->cpu = -1

ASSUME NoCPUAssumption   == NoCPU \notin CPU

VARIABLES
  intr,     \* intr[c]: the interrupt flag of CPU c
  count,    \* cpu_cli[c].count
  hasIF,    \* cpu_cli[c].hasIF
  locked,   \* lk->locked
  owner,    \* lk->cpu
  level,    \* level[c]: what CPU c runs now, its task or a trap
  pc,       \* pc[c][v]: where the code of level v of CPU c stands
  arg,      \* arg[c][v]: the lk of the call in progress
  oldIF,    \* oldIF[c][v]: pushcli's local variable
  held      \* held[c][v]: the locks whose critical sections that code is in

vars == <<intr, count, hasIF, locked, owner, level, pc, arg, oldIF, held>>
cpuVars  == <<intr, count, hasIF>>
lockVars == <<locked, owner>>

PCs == {"run", "cli", "pushed", "spin", "own", "rel", "pop", "sti", "panic"}

At(c, p)    == pc[c][level[c]] = p
Cur(c)      == arg[c][level[c]]
Goto(c, p)  == pc' = [pc EXCEPT ![c][level[c]] = p]
HeldBy(c)   == held[c]["task"] \cup held[c]["irq"]

Init == /\ intr   = [c \in CPU |-> TRUE]
        /\ count  = [c \in CPU |-> 0]
        /\ hasIF  = [c \in CPU |-> FALSE]
        /\ locked = [l \in Lock |-> FALSE]
        /\ owner  = [l \in Lock |-> NoCPU]
        /\ level  = [c \in CPU |-> "task"]
        /\ pc     = [c \in CPU |-> [v \in Level |-> "run"]]
        /\ arg    = [c \in CPU |-> [v \in Level |-> 1]]
        /\ oldIF  = [c \in CPU |-> [v \in Level |-> FALSE]]
        /\ held   = [c \in CPU |-> [v \in Level |-> {}]]

----------------------------------------------------------------------------
(* spin_lock *)

\* A client calls spin_lock(l); pushcli reads the interrupt flag.
Lock_Call(c, l) ==
  /\ At(c, "run")
  /\ \A m \in held[c][level[c]] : m < l
  /\ arg'   = [arg EXCEPT ![c][level[c]] = l]
  /\ oldIF' = [oldIF EXCEPT ![c][level[c]] = intr[c]]
  /\ Goto(c, "cli")
  /\ UNCHANGED <<cpuVars, lockVars, level, held>>

\* Mutant: every push remembers the flag, not only the outermost.
PushCli_Always(c) ==
  /\ At(c, "cli")
  /\ intr' = [intr EXCEPT ![c] = FALSE]
  /\ hasIF' = [hasIF EXCEPT ![c] = oldIF[c][level[c]]]
  /\ count' = [count EXCEPT ![c] = @ + 1]
  /\ Goto(c, "pushed")
  /\ UNCHANGED <<lockVars, level, arg, oldIF, held>>

\* pushcli: interrupts off; the outermost push remembers the flag.
PushCli(c) ==
  /\ At(c, "cli")
  /\ intr' = [intr EXCEPT ![c] = FALSE]
  /\ IF count[c] = 0 /\ hasIF[c]
       THEN Goto(c, "panic") /\ UNCHANGED <<count, hasIF>>
       ELSE /\ Goto(c, "pushed")
            /\ hasIF' = [hasIF EXCEPT ![c] = IF count[c] = 0
                                               THEN oldIF[c][level[c]] ELSE @]
            /\ count' = [count EXCEPT ![c] = @ + 1]
  /\ UNCHANGED <<lockVars, level, arg, oldIF, held>>

\* is_holding_spin: the only test of who holds a lock is the CPU's number.
IsHolding(c, l) == locked[l] /\ owner[l] = c

Lock_Check(c) ==
  /\ At(c, "pushed")
  /\ IF IsHolding(c, Cur(c)) THEN Goto(c, "panic") ELSE Goto(c, "spin")
  /\ UNCHANGED <<cpuVars, lockVars, level, arg, oldIF, held>>

\* Mutant: the exchange is tried once and its result ignored.
Lock_Once(c) ==
  /\ At(c, "spin")
  /\ locked' = [locked EXCEPT ![Cur(c)] = TRUE]
  /\ held'   = [held EXCEPT ![c][level[c]] = @ \cup {Cur(c)}]
  /\ Goto(c, "own")
  /\ UNCHANGED <<cpuVars, owner, level, arg, oldIF>>

\* The exchange that returns 0; one that returns 1 changes nothing.
Lock_Xchg(c) ==
  /\ At(c, "spin")
  /\ ~locked[Cur(c)]
  /\ locked' = [locked EXCEPT ![Cur(c)] = TRUE]
  /\ held'   = [held EXCEPT ![c][level[c]] = @ \cup {Cur(c)}]
  /\ Goto(c, "own")
  /\ UNCHANGED <<cpuVars, owner, level, arg, oldIF>>

Lock_Own(c) ==
  /\ At(c, "own")
  /\ owner' = [owner EXCEPT ![Cur(c)] = c]
  /\ Goto(c, "run")
  /\ UNCHANGED <<cpuVars, locked, level, arg, oldIF, held>>

----------------------------------------------------------------------------
(* spin_unlock *)

\* The check, and lk->cpu = -1 while the lock is still taken.
Unlock_Call(c, l) ==
  /\ At(c, "run")
  /\ l \in held[c][level[c]]
  /\ arg' = [arg EXCEPT ![c][level[c]] = l]
  /\ IF IsHolding(c, l)
       THEN owner' = [owner EXCEPT ![l] = NoCPU] /\ Goto(c, "rel")
       ELSE Goto(c, "panic") /\ UNCHANGED owner
  /\ UNCHANGED <<cpuVars, locked, level, oldIF, held>>

\* Mutant: lk->locked is never cleared.
Unlock_NoXchg(c) ==
  /\ At(c, "rel")
  /\ held' = [held EXCEPT ![c][level[c]] = @ \ {Cur(c)}]
  /\ Goto(c, "pop")
  /\ UNCHANGED <<cpuVars, lockVars, level, arg, oldIF>>

Unlock_Xchg(c) ==
  /\ At(c, "rel")
  /\ locked' = [locked EXCEPT ![Cur(c)] = FALSE]
  /\ held'   = [held EXCEPT ![c][level[c]] = @ \ {Cur(c)}]
  /\ Goto(c, "pop")
  /\ UNCHANGED <<cpuVars, owner, level, arg, oldIF>>

\* Mutant: hasIF keeps its value when interrupts come back.
PopCli_Stale(c) ==
  /\ At(c, "pop")
  /\ count' = [count EXCEPT ![c] = @ - 1]
  /\ Goto(c, IF count[c] = 1 /\ hasIF[c] THEN "sti" ELSE "run")
  /\ UNCHANGED <<intr, hasIF, lockVars, level, arg, oldIF, held>>

\* popcli: the last pop of a CPU whose flag was set forgets that flag
\* before it sets it, for an interrupt may arrive at once.
PopCli(c) ==
  /\ At(c, "pop")
  /\ IF intr[c] \/ count[c] = 0
       THEN Goto(c, "panic") /\ UNCHANGED <<count, hasIF>>
       ELSE /\ count' = [count EXCEPT ![c] = @ - 1]
            /\ IF count[c] = 1 /\ hasIF[c]
                 THEN hasIF' = [hasIF EXCEPT ![c] = FALSE] /\ Goto(c, "sti")
                 ELSE Goto(c, "run") /\ UNCHANGED hasIF
  /\ UNCHANGED <<intr, lockVars, level, arg, oldIF, held>>

Sti(c) ==
  /\ At(c, "sti")
  /\ intr' = [intr EXCEPT ![c] = TRUE]
  /\ Goto(c, "run")
  /\ UNCHANGED <<count, hasIF, lockVars, level, arg, oldIF, held>>

----------------------------------------------------------------------------
(* Traps *)

\* The gate leaves the flag alone and the stub clears it (cte_trap.S); the
\* interrupted flags are on the stack.
Interrupt(c) ==
  /\ level[c] = "task"
  /\ intr[c]
  /\ ~At(c, "panic")
  /\ level' = [level EXCEPT ![c] = "irq"]
  /\ intr'    = [intr EXCEPT ![c] = FALSE]
  /\ UNCHANGED <<count, hasIF, lockVars, pc, arg, oldIF, held>>

\* iret restores the flags of the interrupted code, which were set.
Iret(c) ==
  /\ level[c] = "irq"
  /\ At(c, "run")
  /\ held[c]["irq"] = {}
  /\ level' = [level EXCEPT ![c] = "task"]
  /\ intr'    = [intr EXCEPT ![c] = TRUE]
  /\ UNCHANGED <<count, hasIF, lockVars, pc, arg, oldIF, held>>

----------------------------------------------------------------------------
\* Mutant: the lock is given up before lk->cpu is cleared.
Unlock_Swapped(c) ==
  \/ \E l \in Lock : /\ At(c, "run")
                     /\ l \in held[c][level[c]]
                     /\ IsHolding(c, l)
                     /\ locked' = [locked EXCEPT ![l] = FALSE]
                     /\ held'   = [held EXCEPT ![c][level[c]] = @ \ {l}]
                     /\ arg'    = [arg EXCEPT ![c][level[c]] = l]
                     /\ Goto(c, "rel")
                     /\ UNCHANGED <<cpuVars, owner, level, oldIF>>
  \/ /\ At(c, "rel")
     /\ owner' = [owner EXCEPT ![Cur(c)] = NoCPU]
     /\ Goto(c, "pop")
     /\ UNCHANGED <<cpuVars, locked, level, arg, oldIF, held>>
  \/ PopCli(c)
  \/ Sti(c)

Unlock(c) == (\E l \in Lock : Unlock_Call(c, l)) \/ Unlock_Xchg(c)
             \/ PopCli(c) \/ Sti(c)

Acquire(c) == PushCli(c) \/ Lock_Check(c) \/ Lock_Xchg(c) \/ Lock_Own(c)

Step(c) == \/ \E l \in Lock : Lock_Call(c, l)
           \/ Acquire(c)
           \/ Unlock(c)
           \/ Interrupt(c)
           \/ Iret(c)

Next == \E c \in CPU : Step(c)

Spec == Init /\ [][Next]_vars

\* Every CPU runs: a lock taken is used and given back, a spinning CPU
\* repeats its exchange, a trap returns.
Fairness == \A c \in CPU : WF_vars(Acquire(c)) /\ WF_vars(Unlock(c)) /\ WF_vars(Iret(c))

FairSpec == Spec /\ Fairness

----------------------------------------------------------------------------
(* Properties *)

TypeOK == /\ intr   \in [CPU -> BOOLEAN]
          /\ count  \in [CPU -> Nat]
          /\ hasIF  \in [CPU -> BOOLEAN]
          /\ locked \in [Lock -> BOOLEAN]
          /\ owner  \in [Lock -> CPU \cup {NoCPU}]
          /\ level  \in [CPU -> Level]
          /\ pc     \in [CPU -> [Level -> PCs]]
          /\ arg    \in [CPU -> [Level -> Lock]]
          /\ oldIF  \in [CPU -> [Level -> BOOLEAN]]
          /\ held   \in [CPU -> [Level -> SUBSET Lock]]

\* spin_lock excludes: no two CPUs, and on one CPU no task and the trap that
\* interrupted it, are inside the critical section of the same lock.
MutualExclusion ==
  \A c, d \in CPU : \A u, v \in Level :
    held[c][u] \cap held[d][v] # {} => c = d /\ u = v

\* lk->cpu is never stale: a lock that names a CPU is held by that CPU, so
\* that is_holding_spin neither lets a CPU deadlock on itself nor release
\* another's lock.  (spin_unlock clears it before it gives the lock up.)
OwnerAccurate ==
  \A l \in Lock : owner[l] # NoCPU => locked[l] /\ l \in HeldBy(owner[l])

\* None of the assertions and panics of pushcli, popcli, spin_lock and
\* spin_unlock is reachable, whatever interrupts arrive.
NoPanic == \A c \in CPU : \A v \in Level : pc[c][v] # "panic"

\* pushcli and popcli balance: a CPU inside any critical section has its
\* interrupts off, and one whose code is outside all of them has the flag it
\* began with, on for a task and off for a trap.
InterruptsRestored ==
  \A c \in CPU :
    /\ HeldBy(c) # {} => ~intr[c]
    /\ At(c, "run") /\ held[c][level[c]] = {} => (intr[c] <=> level[c] = "task")

\* The inductive invariant behind them.  Of the locks: one that is held is
\* taken and names its holder, except between the exchange and the line that
\* writes or clears lk->cpu.
LocksOK ==
  \A c \in CPU : \A v \in Level :
    /\ \A l \in held[c][v] :
         /\ locked[l]
         /\ owner[l] = c \/ (pc[c][v] \in {"own", "rel"} /\ arg[c][v] = l)
    /\ pc[c][v] \in {"own", "rel"} =>
         arg[c][v] \in held[c][v] /\ owner[arg[c][v]] = NoCPU
    /\ pc[c][v] \in {"cli", "pushed", "spin"} => arg[c][v] \notin held[c][v]

\* Of the flags: cpu_cli[c].count counts the locks of the code that runs and
\* the push or pop in progress, and the interrupt flag and hasIF follow from
\* that count and from whether a task or a trap runs.
FlagsOf(c) ==
  /\ level[c] = "task" => pc[c]["irq"] = "run" /\ held[c]["irq"] = {}
  /\ level[c] = "irq"  => /\ pc[c]["task"] \in {"run", "cli"}
                         /\ held[c]["task"] = {}
                         /\ (pc[c]["task"] = "cli" => oldIF[c]["task"])
  /\ count[c] = Cardinality(held[c][level[c]])
                + IF pc[c][level[c]] \in {"pushed", "spin", "pop"} THEN 1 ELSE 0
  /\ intr[c]  <=> (level[c] = "task" /\ count[c] = 0 /\ pc[c][level[c]] # "sti")
  /\ hasIF[c] <=> (level[c] = "task" /\ count[c] > 0)
  /\ pc[c][level[c]] = "cli" /\ count[c] = 0 => (oldIF[c][level[c]] <=> level[c] = "task")
  /\ pc[c][level[c]] = "sti" => level[c] = "task" /\ count[c] = 0

FlagsOK == \A c \in CPU : FlagsOf(c)

IInv == TypeOK /\ MutualExclusion /\ OwnerAccurate /\ NoPanic /\ LocksOK /\ FlagsOK

\* No lock is lost: the innermost lock, when a CPU spins on it, is free again
\* at some later moment.  (An outer one is not: the CPU that holds it may spin
\* on an inner lock that others take again and again.)
EventuallyFree ==
  (\E c \in CPU : At(c, "spin") /\ Cur(c) = NumLock) ~> ~locked[NumLock]
----------------------------------------------------------------------------
(* Refinement: the abstract lock, held by a CPU's task or by its trap. *)

Process == CPU \X Level
Nobody  == <<>>

InSection(l) == {p \in Process : l \in held[p[1]][p[2]]}

Only(S) == IF S = {} THEN Nobody ELSE CHOOSE p \in S : TRUE

Holder == [l \in Lock |-> Only(InSection(l))]

Abs == INSTANCE LockAbs WITH Resource <- Lock, holder <- Holder

\* spin_lock and spin_unlock implement the abstract lock: a critical section
\* is entered at the exchange of spin_lock and left at that of spin_unlock,
\* and no step moves a lock from one holder to another.
ImplementsLock == Abs!Spec
=============================================================================
