--------------------------- MODULE SchedulerProofs ---------------------------
(***************************************************************************)
(* Safety of the scheduler for any set of processes.  The inductive        *)
(* invariant adds to the ring two facts about what the registers can hold: *)
(* the kernel process never executes user code, so exit never removes it,  *)
(* and a pending SIG_KILL was really sent to the process that holds it.    *)
(***************************************************************************)
EXTENDS Scheduler, TLAPS

\* Steps are first-order reasoning unless they name another prover.
USE ZenonT(60)

\* The kernel process's registers, saved or in the CPU, are kernel_main's.
KernelStaysInKernel ==
    /\ regs[Kernel].mode \in {"boot", "kernel"}
    /\ phase = "run" /\ current = Kernel => cpu.mode \in {"boot", "kernel"}

\* A signal is pending only on a process it was sent to.
PendingWasAsked == \A p \in live : pending[p] => asked[p]

IInv ==
    /\ TypeOK
    /\ RingIsOneCycle
    /\ LoadedSpaceIsLive
    /\ KernelStaysInKernel
    /\ PendingWasAsked

-----------------------------------------------------------------------------
(* The ring, apart from the rest of the state                              *)

\* A one-cycle ring over live, as in RingIsOneCycle.
Cycle(nodes, succ) ==
    /\ \A p \in nodes : succ[p] \in nodes
    /\ \A p, q \in nodes : succ[p] = succ[q] => p = q
    /\ \A S \in SUBSET nodes : S # {} /\ (\A p \in S : succ[p] \in S) => S = nodes

\* Inserting a node behind one of the ring (process_scheduler_add_process)
\* leaves one cycle: a closed set without the new node is closed in the old ring.
LEMMA InsertKeepsCycle ==
    ASSUME NEW nodes \in SUBSET Procs, NEW succ \in [Procs -> Procs],
           Cycle(nodes, succ),
           NEW at \in nodes, NEW new \in Procs, new \notin nodes
    PROVE  Cycle(nodes \cup {new}, [succ EXCEPT ![new] = succ[at], ![at] = new])
<1> DEFINE succ2 == [succ EXCEPT ![new] = succ[at], ![at] = new]
           nodes2 == nodes \cup {new}
<1>1. /\ succ2[new] = succ[at]
      /\ succ2[at] = new
      /\ \A p \in nodes \ {at} : succ2[p] = succ[p]
  OBVIOUS
<1>2. \A p \in nodes : succ[p] \in nodes /\ succ[p] # new
  BY SMTT(60) DEF Cycle
<1> HIDE DEF succ2
<1>3. \A p \in nodes2 : succ2[p] \in nodes2
  BY <1>1, <1>2
<1>4. \A p, q \in nodes2 : succ2[p] = succ2[q] => p = q
  BY <1>1, <1>2, SMTT(60) DEF Cycle
<1>5. ASSUME NEW S \in SUBSET nodes2, S # {}, \A p \in S : succ2[p] \in S
      PROVE  S = nodes2
  <2> DEFINE T == S \ {new}
  <2>1. \A p \in T : succ[p] \in T
    <3> SUFFICES ASSUME NEW p \in T PROVE succ[p] \in T
      OBVIOUS
    <3>1. CASE p = at
      BY <1>1, <1>2, <1>5, <3>1
    <3>2. CASE p # at
      BY <1>1, <1>2, <1>5, <3>2
    <3> QED BY <3>1, <3>2
  <2>2. T # {}
    BY <1>1, <1>2, <1>5
  <2>3. T = nodes
    BY <2>1, <2>2 DEF Cycle
  <2>4. new \in S
    BY <2>3, <1>1, <1>5
  <2> QED BY <2>3, <2>4
<1> QED BY <1>3, <1>4, <1>5 DEF Cycle, succ2

\* Unlinking a node (process_scheduler_remove_process) leaves one cycle over
\* the others: a closed set of the new ring is closed in the old one, with or
\* without the node taken out.
LEMMA UnlinkKeepsCycle ==
    ASSUME NEW nodes \in SUBSET Procs, NEW succ \in [Procs -> Procs],
           Cycle(nodes, succ),
           NEW p \in nodes, NEW prev \in nodes, succ[prev] = p,
           NEW other \in nodes, other # p
    PROVE  /\ succ[p] \in nodes \ {p}
           /\ Cycle(nodes \ {p}, [succ EXCEPT ![prev] = succ[p]])
<1> DEFINE succ2 == [succ EXCEPT ![prev] = succ[p]]
           nodes2 == nodes \ {p}
<1>1. succ[p] # p
  <2> SUFFICES ASSUME succ[p] = p PROVE FALSE
    OBVIOUS
  <2> DEFINE T == {p}
  <2>1. T \in SUBSET nodes /\ T # {} /\ \A q \in T : succ[q] \in T
    OBVIOUS
  <2> HIDE DEF T
  <2>2. T = nodes
    BY <2>1 DEF Cycle
  <2> QED BY <2>2 DEF T
<1>2. prev # p /\ succ[p] \in nodes2
  BY <1>1 DEF Cycle
<1>3. succ2[prev] = succ[p] /\ \A q \in nodes \ {prev} : succ2[q] = succ[q]
  OBVIOUS
<1> HIDE DEF succ2
<1>4. \A q \in nodes2 : succ2[q] \in nodes2
  BY <1>2, <1>3, SMTT(60) DEF Cycle
<1>5. \A q, r \in nodes2 : succ2[q] = succ2[r] => q = r
  BY <1>2, <1>3, SMTT(60) DEF Cycle
<1>6. ASSUME NEW S \in SUBSET nodes2, S # {}, \A q \in S : succ2[q] \in S
      PROVE  S = nodes2
  <2>1. CASE prev \in S
    <3> DEFINE T == S \cup {p}
    <3>1. T \in SUBSET nodes /\ T # {} /\ \A q \in T : succ[q] \in T
      BY <1>2, <1>3, <1>6, <2>1
    <3> HIDE DEF T
    <3>2. T = nodes
      BY <3>1 DEF Cycle
    <3> QED BY <3>2 DEF T
  <2>2. CASE prev \notin S
    <3>1. \A q \in S : succ[q] \in S
      BY <1>3, <1>6, <2>2
    <3>2. S = nodes
      BY <3>1, <1>6 DEF Cycle
    <3> QED BY <3>2, <2>2
  <2> QED BY <2>1, <2>2
<1> QED BY <1>2, <1>4, <1>5, <1>6 DEF Cycle, succ2

-----------------------------------------------------------------------------
(* The inductive invariant                                                 *)

\* The state process_scheduler_init leaves satisfies the invariant.
LEMMA InitIInv == Init => IInv
<1> SUFFICES ASSUME Init PROVE IInv
  OBVIOUS
<1>1. TypeOK
  BY SchedulerAssumption DEF Init, TypeOK, Context, Phase
<1>2. RingIsOneCycle
  BY SchedulerAssumption DEF Init, RingIsOneCycle
<1> QED BY <1>1, <1>2, SchedulerAssumption
        DEF Init, IInv, LoadedSpaceIsLive, KernelStaysInKernel, PendingWasAsked

\* What AddProcess does to the parts of the invariant it touches.
LEMMA AddFacts ==
    ASSUME IInv, NEW new \in Procs, AddProcess(new)
    PROVE  /\ live' \subseteq Procs /\ live \subseteq live'
           /\ next' \in [Procs -> Procs]
           /\ Cycle(live', next')
           /\ pending' \in [Procs -> BOOLEAN] /\ asked' \in [Procs -> BOOLEAN]
           /\ regs' \in [Procs -> Context] /\ regs'[Kernel] = regs[Kernel]
           /\ ret' \in [Procs -> {-1, 0, 1}]
           /\ PendingWasAsked'
<1> USE DEF IInv, TypeOK, AddProcess, Linked, NoSignals
<1>1. Cycle(live, next) /\ current \in live /\ Kernel \in live
  BY DEF RingIsOneCycle, Cycle
<1>2. Cycle(live', next')
  BY <1>1, InsertKeepsCycle
<1>3. [mode |-> "user", rax |-> 0] \in Context
  BY DEF Context
<1>4. PendingWasAsked'
  BY DEF PendingWasAsked
<1> QED BY <1>1, <1>2, <1>3, <1>4

\* What RemoveProcess does to the ring.
LEMMA RemoveFacts ==
    ASSUME IInv, NEW p \in live, p # Kernel, RemoveProcess(p)
    PROVE  /\ live' \subseteq live /\ Kernel \in live'
           /\ next' \in [Procs -> Procs]
           /\ Cycle(live', next')
           /\ current' \in live'
           /\ cr3' = Kernel
<1>1. PICK prev \in live : next[prev] = p /\ next' = [next EXCEPT ![prev] = next[p]]
  BY DEF RemoveProcess
<1>2. Cycle(live, next) /\ Kernel \in live /\ live \in SUBSET Procs
  BY DEF IInv, TypeOK, RingIsOneCycle, Cycle
<1>3. next \in [Procs -> Procs]
  BY DEF IInv, TypeOK
<1>4. next[p] \in live \ {p} /\ Cycle(live \ {p}, next')
  BY <1>1, <1>2, <1>3, UnlinkKeepsCycle
<1> QED BY <1>1, <1>2, <1>3, <1>4 DEF RemoveProcess, SpaceAfterRemoving

\* Every step keeps the invariant.
LEMMA NextIInv == IInv /\ [Next]_vars => IInv'
<1> SUFFICES ASSUME IInv, [Next]_vars PROVE IInv'
  OBVIOUS
<1> USE SchedulerAssumption DEF IInv, TypeOK
<1>0. /\ Kernel \in live /\ current \in live
      /\ \A p \in live : next[p] \in live
  BY DEF RingIsOneCycle
<1>r. ASSUME Cycle(live', next'), Kernel \in live', current' \in live'
      PROVE  RingIsOneCycle'
  BY <1>r DEF RingIsOneCycle, Cycle
<1>s. ASSUME UNCHANGED <<live, next>>, current' \in live
      PROVE  RingIsOneCycle'
  BY <1>s, <1>0 DEF RingIsOneCycle
<1>1. CASE Tick
  <2>1. TypeOK'
    BY <1>1 DEF Tick, Saved, Phase
  <2>2. RingIsOneCycle'
    BY <1>1, <1>0, <1>s DEF Tick
  <2>3. LoadedSpaceIsLive' /\ KernelStaysInKernel' /\ PendingWasAsked'
    BY <1>1, <1>0 DEF Tick, Saved, LoadedSpaceIsLive, KernelStaysInKernel,
                     PendingWasAsked
  <2> QED BY <2>1, <2>2, <2>3
<1>2. CASE Reap
  <2> DEFINE p == next[current]
  <2>1. p \in live /\ p # Kernel /\ RemoveProcess(p) /\ phase = "switch"
    BY <1>2, <1>0 DEF Reap, Candidate, Killed
  <2> HIDE DEF p
  <2>2. /\ live' \subseteq live /\ Kernel \in live' /\ next' \in [Procs -> Procs]
        /\ Cycle(live', next') /\ current' \in live' /\ cr3' = Kernel
    BY <2>1, RemoveFacts
  <2>3. /\ pending' = [pending EXCEPT ![p] = FALSE]
        /\ UNCHANGED <<regs, cpu, phase, interrupts, frames, ret, asked>>
    BY <1>2 DEF Reap, Candidate, history, p
  <2>4. TypeOK'
    BY <2>2, <2>3
  <2>5. RingIsOneCycle'
    BY <2>2, <1>r
  <2>6. LoadedSpaceIsLive' /\ KernelStaysInKernel' /\ PendingWasAsked'
    BY <2>1, <2>2, <2>3 DEF LoadedSpaceIsLive, KernelStaysInKernel, PendingWasAsked
  <2> QED BY <2>4, <2>5, <2>6
<1>3. CASE Dispatch
  <2> DEFINE p == next[current]
  <2>1. /\ p \in live
        /\ current' = p /\ cr3' = p /\ cpu' = regs[p] /\ phase' \in Phase
        /\ pending' = [pending EXCEPT ![p] = FALSE]
        /\ UNCHANGED <<live, next, regs, interrupts, frames, ret, asked>>
    BY <1>3, <1>0 DEF Dispatch, Candidate, Resume, history, Phase
  <2> HIDE DEF p
  <2>2. TypeOK'
    BY <2>1
  <2>3. RingIsOneCycle'
    BY <2>1, <1>s
  <2>4. LoadedSpaceIsLive' /\ KernelStaysInKernel' /\ PendingWasAsked'
    BY <2>1 DEF LoadedSpaceIsLive, KernelStaysInKernel, PendingWasAsked
  <2> QED BY <2>2, <2>3, <2>4
<1>4. ASSUME NEW new \in Procs, RunAdds(new) PROVE IInv'
  <2>1. /\ live' \subseteq Procs /\ live \subseteq live'
        /\ next' \in [Procs -> Procs] /\ Cycle(live', next')
        /\ pending' \in [Procs -> BOOLEAN] /\ asked' \in [Procs -> BOOLEAN]
        /\ regs' \in [Procs -> Context] /\ regs'[Kernel] = regs[Kernel]
        /\ ret' \in [Procs -> {-1, 0, 1}] /\ PendingWasAsked'
    BY <1>4, AddFacts DEF RunAdds
  <2>2. /\ cpu.mode = "user" /\ phase = "run"
        /\ cpu' = [cpu EXCEPT !.mode = "syscall"] /\ cr3' = Kernel
        /\ frames' = current /\ UNCHANGED <<current, phase, interrupts>>
    BY <1>4 DEF RunAdds, InUserMode
  <2>3. TypeOK'
    BY <2>1, <2>2 DEF Context
  <2>4. RingIsOneCycle'
    BY <2>1, <2>2, <1>0, <1>r
  <2>5. LoadedSpaceIsLive' /\ KernelStaysInKernel'
    BY <2>1, <2>2, <1>0 DEF LoadedSpaceIsLive, KernelStaysInKernel
  <2> QED BY <2>1, <2>3, <2>4, <2>5
<1>5. ASSUME NEW new \in Procs, LoadShell(new) PROVE IInv'
  <2>1. /\ live' \subseteq Procs /\ live \subseteq live'
        /\ next' \in [Procs -> Procs] /\ Cycle(live', next')
        /\ pending' \in [Procs -> BOOLEAN] /\ asked' \in [Procs -> BOOLEAN]
        /\ regs' \in [Procs -> Context] /\ regs'[Kernel] = regs[Kernel]
        /\ ret' \in [Procs -> {-1, 0, 1}] /\ PendingWasAsked'
    BY <1>5, AddFacts DEF LoadShell
  <2>2. /\ cpu' = [cpu EXCEPT !.mode = "kernel"]
        /\ UNCHANGED <<current, cr3, phase, interrupts, frames>>
    BY <1>5 DEF LoadShell
  <2>3. TypeOK'
    BY <2>1, <2>2 DEF Context
  <2>4. RingIsOneCycle'
    BY <2>1, <2>2, <1>0, <1>r
  <2>5. LoadedSpaceIsLive' /\ KernelStaysInKernel'
    BY <2>1, <2>2, <1>0 DEF LoadedSpaceIsLive, KernelStaysInKernel, Context
  <2> QED BY <2>1, <2>3, <2>4, <2>5
<1>6. CASE RunFails \/ OtherSyscall
  <2>1. PICK success \in {0, 1} :
          /\ cpu' = [cpu EXCEPT !.rax = success]
          /\ ret' = [ret EXCEPT ![current] = success]
          /\ frames' = Kernel
          /\ UNCHANGED <<live, next, current, pending, regs, cr3, phase,
                         interrupts, asked>>
    BY <1>6 DEF RunFails, OtherSyscall, Return
  <2>2. TypeOK' /\ cpu'.mode = cpu.mode
    BY <2>1 DEF Context
  <2>3. RingIsOneCycle'
    BY <2>1, <1>0, <1>s
  <2>4. LoadedSpaceIsLive' /\ KernelStaysInKernel' /\ PendingWasAsked'
    BY <2>1, <2>2 DEF LoadedSpaceIsLive, KernelStaysInKernel, PendingWasAsked
  <2> QED BY <2>2, <2>3, <2>4
<1>7. CASE RunReturns
  <2>1. TypeOK'
    BY <1>7 DEF RunReturns, Context
  <2>2. RingIsOneCycle'
    BY <1>7, <1>0, <1>s DEF RunReturns
  <2>3. LoadedSpaceIsLive' /\ KernelStaysInKernel' /\ PendingWasAsked'
    BY <1>7, <1>0 DEF RunReturns, LoadedSpaceIsLive, KernelStaysInKernel,
                      PendingWasAsked
  <2> QED BY <2>1, <2>2, <2>3
<1>8. CASE Exit
  <2>1. current \in live /\ current # Kernel /\ RemoveProcess(current)
    BY <1>8, <1>0 DEF Exit, InUserMode, KernelStaysInKernel
  <2>2. /\ live' \subseteq live /\ Kernel \in live' /\ next' \in [Procs -> Procs]
        /\ Cycle(live', next') /\ current' \in live' /\ cr3' = Kernel
    BY <2>1, RemoveFacts
  <2>3. /\ current' = next[current] /\ frames' = Kernel
        /\ cpu' = [regs[next[current]] EXCEPT !.rax = 1] /\ phase' \in Phase
        /\ UNCHANGED <<pending, regs, interrupts, ret, asked>>
    BY <1>8 DEF Exit, AfterExit, RemoveProcess, Resume, Phase, history
  <2>4. cpu' \in Context /\ cpu'.mode = regs[current'].mode
    BY <2>3, <1>0 DEF Context
  <2>5. TypeOK'
    BY <2>2, <2>3, <2>4
  <2>6. RingIsOneCycle'
    BY <2>2, <1>r
  <2>7. LoadedSpaceIsLive' /\ KernelStaysInKernel' /\ PendingWasAsked'
    BY <2>2, <2>3, <2>4 DEF LoadedSpaceIsLive, KernelStaysInKernel, PendingWasAsked
  <2> QED BY <2>5, <2>6, <2>7
<1>9. ASSUME NEW p \in Procs, Kill(p) PROVE IInv'
  <2>1. /\ pending' = [pending EXCEPT ![p] = pending[p] \/ p \in live]
        /\ asked' = [asked EXCEPT ![p] = asked[p] \/ p \in live]
        /\ cpu' = [cpu EXCEPT !.rax = 1] /\ ret' = [ret EXCEPT ![current] = 1]
        /\ frames' = Kernel
        /\ UNCHANGED <<live, next, current, regs, cr3, phase, interrupts>>
    BY <1>9 DEF Kill, Return
  <2>2. pending' \in [Procs -> BOOLEAN] /\ asked' \in [Procs -> BOOLEAN]
    BY <2>1
  <2>3. TypeOK' /\ cpu'.mode = cpu.mode
    BY <2>1, <2>2 DEF Context
  <2>4. RingIsOneCycle'
    BY <2>1, <1>0, <1>s
  <2>5. PendingWasAsked'
    BY <2>1 DEF PendingWasAsked
  <2>6. LoadedSpaceIsLive' /\ KernelStaysInKernel'
    BY <2>1, <2>3 DEF LoadedSpaceIsLive, KernelStaysInKernel
  <2> QED BY <2>3, <2>4, <2>5, <2>6
<1>10. CASE Exception
  <2>1. TypeOK'
    BY <1>10 DEF Exception, history, Phase
  <2>2. RingIsOneCycle'
    BY <1>10, <1>0, <1>s DEF Exception
  <2>3. LoadedSpaceIsLive' /\ KernelStaysInKernel' /\ PendingWasAsked'
    BY <1>10 DEF Exception, history, LoadedSpaceIsLive, KernelStaysInKernel,
                 PendingWasAsked
  <2> QED BY <2>1, <2>2, <2>3
<1>11. CASE LoadShellFails
  <2>1. TypeOK' /\ cpu'.mode = "kernel"
    BY <1>11 DEF LoadShellFails, history, Context
  <2>2. RingIsOneCycle'
    BY <1>11, <1>0, <1>s DEF LoadShellFails
  <2>3. LoadedSpaceIsLive' /\ KernelStaysInKernel' /\ PendingWasAsked'
    BY <1>11, <2>1 DEF LoadShellFails, history, LoadedSpaceIsLive,
                       KernelStaysInKernel, PendingWasAsked
  <2> QED BY <2>1, <2>2, <2>3
<1>12. CASE UNCHANGED vars
  BY <1>12, SMTT(60) DEF vars, RingIsOneCycle, LoadedSpaceIsLive, KernelStaysInKernel,
               PendingWasAsked
<1> QED BY <1>1, <1>2, <1>3, <1>4, <1>5, <1>6, <1>7, <1>8, <1>9, <1>10, <1>11,
           <1>12 DEF Next, Spawn

\* The invariant holds in every reachable state.
LEMMA SpecIInv == Spec => []IInv
BY InitIInv, NextIInv, PTL DEF Spec

-----------------------------------------------------------------------------
(* Theorems                                                                *)

\* The state is always well typed.
THEOREM TypeCorrect == Spec => []TypeOK
<1>1. IInv => TypeOK
  BY DEF IInv
<1> QED BY SpecIInv, <1>1, PTL

\* However processes are added, exit and are killed, the ring of
\* process_scheduler.c stays one cycle that holds the kernel process.
THEOREM RingStaysOneCycle == Spec => []RingIsOneCycle
<1>1. IInv => RingIsOneCycle
  BY DEF IInv
<1> QED BY SpecIInv, <1>1, PTL

\* The CPU is never left on the page tables vmm_unmap_PML4 freed.
THEOREM NeverOnFreedTables == Spec => []LoadedSpaceIsLive
<1>1. IInv => LoadedSpaceIsLive
  BY DEF IInv
<1> QED BY SpecIInv, <1>1, PTL

\* Only exit and SIG_KILL take a process out of the ring.
THEOREM RemovedOnlyWhenAsked == Spec => OnlyAskedAreReaped
<1>1. IInv /\ [Next]_vars =>
        [\A p \in live \ live' : asked[p] \/ (p = current /\ phase = "run")]_vars
  <2> SUFFICES ASSUME IInv, Next, NEW p \in live \ live'
               PROVE  asked[p] \/ (p = current /\ phase = "run")
    OBVIOUS
  <2>1. CASE Reap
    BY <2>1 DEF Reap, Killed, RemoveProcess, IInv, PendingWasAsked
  <2>2. CASE Exit
    BY <2>2 DEF Exit, RemoveProcess, InUserMode
  <2> QED BY <2>1, <2>2 DEF Next, Spawn, Tick, Dispatch, RunAdds, LoadShell, AddProcess,
             RunFails, RunReturns, OtherSyscall, Kill, Exception, LoadShellFails
<1> QED BY SpecIInv, <1>1, PTL DEF Spec, OnlyAskedAreReaped

\* A context switch, the processes it reaps included, loses nobody's registers.
THEOREM RegistersSurviveSwitch == Spec => SwitchKeepsRegisters
<1> DEFINE A == phase = "switch" \/ phase' = "switch" =>
                    \A p \in live \cap live' : Rax(p)' = Rax(p)
<1>1. IInv /\ [Next]_vars => [A]_vars
  <2> SUFFICES ASSUME IInv, Next, phase = "switch" \/ phase' = "switch",
                      NEW p \in live \cap live'
               PROVE  Rax(p)' = Rax(p)
    OBVIOUS
  <2> USE DEF IInv, TypeOK, Rax
  <2>1. CASE Tick
    BY <2>1 DEF Tick, Saved
  <2>2. CASE Reap
    BY <2>2 DEF Reap
  <2>3. CASE Dispatch
    BY <2>3 DEF Dispatch, Resume
  <2> QED BY <2>1, <2>2, <2>3 DEF Next, Spawn, RunAdds, LoadShell, RunFails, RunReturns,
             Exit, Resume, OtherSyscall, Kill, Exception, LoadShellFails, InUserMode,
             Booting
<1> QED BY SpecIInv, <1>1, PTL DEF Spec, SwitchKeepsRegisters

\* The 1 a system call left in a process's rax is there as long as the process makes
\* no other call, whoever runs, exits or is killed meanwhile.
THEOREM SuccessStays == Spec => []SuccessKept
<1>1. Init => SuccessKept
  BY SchedulerAssumption, SMTT(60) DEF Init, SuccessKept
<1>2. IInv /\ SuccessKept /\ [Next]_vars => SuccessKept'
  <2> SUFFICES ASSUME IInv, SuccessKept, [Next]_vars, NEW p \in live', ret'[p] = 1
               PROVE  Rax(p)' = 1
    BY DEF SuccessKept
  <2>0. current \in live /\ p \in Procs /\ TypeOK
    <3>1. live' \subseteq Procs
      BY NextIInv DEF IInv, TypeOK
    <3> QED BY <3>1 DEF IInv, RingIsOneCycle
  <2>a. ASSUME p \in live, ret[p] = 1 PROVE Rax(p) = 1
    BY <2>a DEF SuccessKept
  <2> USE DEF TypeOK, Rax
  <2>1. CASE Tick
    BY <2>1, <2>0, <2>a DEF Tick, Saved
  <2>2. CASE Reap
    BY <2>2, <2>0, <2>a DEF Reap, RemoveProcess, history
  <2>3. CASE Dispatch
    BY <2>3, <2>0, <2>a DEF Dispatch, Resume, history
  <2>4. ASSUME NEW new \in Procs, RunAdds(new) \/ LoadShell(new) PROVE Rax(p)' = 1
    <3>1. /\ p # new /\ p \in live /\ ret[p] = 1 /\ regs'[p] = regs[p]
      BY <2>4, <2>0, SMTT(60) DEF RunAdds, LoadShell, AddProcess
    <3>2. cpu'.rax = cpu.rax /\ UNCHANGED <<current, phase>>
      BY <2>4, <2>0 DEF RunAdds, LoadShell, Context
    <3> QED BY <3>1, <3>2, <2>a
  <2>5. CASE RunFails \/ OtherSyscall
    BY <2>5, <2>0, <2>a, SMTT(60) DEF RunFails, OtherSyscall, Return, InUserMode, Context
  <2>6. CASE RunReturns
    BY <2>6, <2>0, <2>a DEF RunReturns
  <2>7. CASE Exit
    BY <2>7, <2>0, <2>a, SMTT(60)
       DEF Exit, AfterExit, RemoveProcess, Resume, InUserMode, Context,
                            history
  <2>8. ASSUME NEW q \in Procs, Kill(q) PROVE Rax(p)' = 1
    BY <2>8, <2>0, <2>a DEF Kill, Return, InUserMode, Context
  <2>9. CASE Exception
    BY <2>9, <2>0, <2>a DEF Exception, history
  <2>10. CASE LoadShellFails
    BY <2>10, <2>0, <2>a DEF LoadShellFails, history, Context
  <2>11. CASE UNCHANGED vars
    BY <2>11, <2>a DEF vars
  <2> QED BY <2>1, <2>2, <2>3, <2>4, <2>5, <2>6, <2>7, <2>8, <2>9, <2>10, <2>11
          DEF Next, Spawn
<1> QED BY SpecIInv, <1>1, <1>2, PTL DEF Spec
=============================================================================
