------------------------------ MODULE Scheduler ------------------------------
(***************************************************************************)
(* The process scheduler of src/src/process/process_scheduler.c with the   *)
(* interrupt and syscall paths that drive it (interrupts.c, main_asm.S)    *)
(* and the part of the program loader that adds a process.                 *)
(*                                                                         *)
(* A process is named by its process_t.  The names of removed processes    *)
(* are used again, as heap blocks are, so the set of processes is bounded  *)
(* and their number over time is not.  A PML4 is named by its process.     *)
(*                                                                         *)
(* Handlers run with interrupts off (interrupt gates) and are one step,    *)
(* with two exceptions the code makes: the loop of                         *)
(* process_scheduler_next_process takes one step per iteration, during     *)
(* which nothing else can happen, and the run syscall is cut in two at the *)
(* sti of process_scheduler_add_process, where the timer can strike.       *)
(***************************************************************************)
EXTENDS Integers, FiniteSets

CONSTANTS
    Procs,      \* every process_t
    Kernel      \* kernel_process, the one with pid 0

ASSUME SchedulerAssumption == Kernel \in Procs

VARIABLES
    live,       \* the processes in the ring
    next,       \* process_t.next
    current,    \* current_process
    pending,    \* pending[p]: SIG_KILL (or SIG_ABRT) is in pending_signals
    regs,       \* process_t.regs
    cpu,        \* the registers the running code uses
    cr3,        \* the process whose PML4 is loaded
    phase,      \* what the machine is doing
    interrupts, \* the interrupt flag while the kernel process runs
    frames,     \* whose unfinished syscall is on safe_transition_stack (the
                \* kernel process, which has its own stack, for nobody's)
    ret,        \* history: what p's last syscall returned, -1 before the first
    asked       \* history: p was sent SIG_KILL since it was added

vars == <<live, next, current, pending, regs, cpu, cr3, phase, interrupts,
          frames, ret, asked>>

history == <<ret, asked>>

\* "user": user mode.  "boot", "kernel": kernel_main before and after it loads
\* the shell.  "syscall": in the run syscall, after the sti.  rax is the return
\* value register.
Context == [mode : {"user", "boot", "kernel", "syscall"}, rax : {0, 1}]

\* "run": the current process executes.  "switch": inside next_process.
\* "panic": panic() stopped the machine.  "wild": the kernel returned through a
\* stack frame that was overwritten; anything can follow.
Phase == {"run", "switch", "panic", "wild"}

Stopped == phase \in {"panic", "wild"}

\* The scheduler's state: pointers reach processes (a pointer to a process that was
\* freed included), and a saved context is one the processor can load.
TypeOK ==
    /\ live \subseteq Procs
    /\ next \in [Procs -> Procs]
    /\ current \in Procs
    /\ pending \in [Procs -> BOOLEAN]
    /\ regs \in [Procs -> Context]
    /\ cpu \in Context
    /\ cr3 \in Procs
    /\ phase \in Phase
    /\ interrupts \in BOOLEAN
    /\ frames \in Procs
    /\ ret \in [Procs -> {-1, 0, 1}]
    /\ asked \in [Procs -> BOOLEAN]

-----------------------------------------------------------------------------
\* process_scheduler_init, then interrupts_init enables interrupts.
Init ==
    /\ live = {Kernel}
    /\ next = [p \in Procs |-> Kernel]
    /\ current = Kernel
    /\ pending = [p \in Procs |-> FALSE]
    /\ regs = [p \in Procs |-> [mode |-> "boot", rax |-> 0]]
    /\ cpu = [mode |-> "boot", rax |-> 0]
    /\ cr3 = Kernel
    /\ phase = "run"
    /\ interrupts = TRUE
    /\ frames = Kernel
    /\ ret = [p \in Procs |-> -1]
    /\ asked = [p \in Procs |-> FALSE]

-----------------------------------------------------------------------------
(* The ring                                                                *)

\* Mistake: the two links are set in the other order.
LinkedInOtherOrder(new) == [next EXCEPT ![current] = new, ![new] = new]

\* The new process follows the current one.
Linked(new) == [next EXCEPT ![new] = next[current], ![current] = new]

\* Mistake: the signals of the process_t are not cleared.
SignalsLeft(new) == pending

NoSignals(new) == [pending EXCEPT ![new] = FALSE]

\* process_scheduler_add_process
AddProcess(new) ==
    /\ new \notin live
    /\ live' = live \cup {new}
    /\ next' = Linked(new)
    /\ pending' = NoSignals(new)
    /\ regs' = [regs EXCEPT ![new] = [mode |-> "user", rax |-> 0]]
    /\ ret' = [ret EXCEPT ![new] = -1]
    /\ asked' = [asked EXCEPT ![new] = FALSE]

\* Mistake: the PML4 loaded to unmap the heap stays loaded.
SpaceOfRemoved(p) == p

\* The kernel's PML4 is loaded before p's is freed.
SpaceAfterRemoving(p) == Kernel

\* process_scheduler_remove_process of a process other than the kernel: it is
\* unlinked and the process behind it becomes the current one.
RemoveProcess(p) ==
    /\ \E prev \in live :
         /\ next[prev] = p
         /\ next' = [next EXCEPT ![prev] = next[p]]
    /\ live' = live \ {p}
    /\ current' = next[p]
    /\ cr3' = SpaceAfterRemoving(p)

\* The handler returns into p's saved registers.  A process suspended inside a
\* syscall needs its frames, which any entry from user mode overwrites.
Resume(p, context) ==
    /\ cpu' = context
    /\ phase' = IF context.mode = "syscall" /\ frames' # p THEN "wild" ELSE "run"

-----------------------------------------------------------------------------
(* The timer: irq_handler_c, process_scheduler_next_process                *)

\* Mistake: the registers of the interrupted process are not saved.
NotSaved == regs

Saved == [regs EXCEPT ![current] = cpu]

\* The registers are saved and the kernel's PML4 is loaded.  From user mode the
\* CPU starts at the top of safe_transition_stack.
Tick ==
    /\ phase = "run"
    /\ cpu.mode \in {"boot", "kernel"} => interrupts
    /\ regs' = Saved
    /\ cr3' = Kernel
    /\ phase' = "switch"
    /\ frames' = IF cpu.mode = "user" THEN Kernel ELSE frames
    /\ UNCHANGED <<live, next, current, pending, cpu, interrupts, ret, asked>>

\* Mistake: the loop stays where it is.
SameProcess == current

\* The process the loop looks at: current_process = current_process->next.
Candidate == next[current]

\* Mistake: the signals are cleared and nobody is removed.
NobodyKilled(p) == FALSE

\* handle_signals removes the process (remove_process refuses pid 0).
Killed(p) == pending[p] /\ p # Kernel

\* One iteration of the loop in which handle_signals removes the process.
Reap ==
    LET p == Candidate
    IN  /\ phase = "switch"
        /\ Killed(p)
        /\ RemoveProcess(p)
        /\ pending' = [pending EXCEPT ![p] = FALSE]
        /\ UNCHANGED <<regs, cpu, phase, interrupts, frames, history>>

\* The iteration that ends the loop: the signals are cleared (the kernel
\* process survives SIG_KILL), the process's PML4 is loaded and it is resumed.
Dispatch ==
    LET p == Candidate
    IN  /\ phase = "switch"
        /\ ~ Killed(p)
        /\ current' = p
        /\ pending' = [pending EXCEPT ![p] = FALSE]
        /\ cr3' = p
        /\ UNCHANGED frames
        /\ Resume(p, regs[p])
        /\ UNCHANGED <<live, next, regs, interrupts, history>>

-----------------------------------------------------------------------------
(* Syscalls: syscall_handler_c                                             *)

\* A user process executes int 0x80; it can only do so in its own space.
InUserMode == phase = "run" /\ cpu.mode = "user" /\ cr3 = current

\* The end of a syscall: current_regs[16] = success.
Return(success) ==
    /\ cpu' = [cpu EXCEPT !.rax = success]
    /\ ret' = [ret EXCEPT ![current] = success]

\* Mistake: exit ends with a failure.
AfterExit_Failed(context) == [context EXCEPT !.rax = 0]

\* What becomes of the registers of the process that is resumed after an exit: the
\* handler writes its own result over its rax.
AfterExit(context) == [context EXCEPT !.rax = 1]

\* Case 0, process_scheduler_exit: the next process's registers are copied into
\* the frame, and the handler ends by writing success into its rax.
Exit ==
    /\ InUserMode
    /\ RemoveProcess(current)
    /\ frames' = Kernel
    /\ Resume(next[current], AfterExit(regs[next[current]]))
    /\ UNCHANGED <<pending, regs, interrupts, history>>

\* Case 1 when the program cannot be loaded.
RunFails ==
    /\ InUserMode
    /\ Return(0)
    /\ frames' = Kernel
    /\ UNCHANGED <<live, next, current, pending, regs, cr3, phase, interrupts, asked>>

\* Case 1 up to the sti in process_scheduler_add_process: the kernel's PML4 is
\* loaded and interrupts are on again.
RunAdds(new) ==
    /\ InUserMode
    /\ AddProcess(new)
    /\ cpu' = [cpu EXCEPT !.mode = "syscall"]
    /\ cr3' = Kernel
    /\ frames' = current
    /\ UNCHANGED <<current, phase, interrupts>>

\* The rest of case 1: back to the caller's PML4 and to user mode.
RunReturns ==
    /\ phase = "run" /\ cpu.mode = "syscall"
    /\ cpu' = [mode |-> "user", rax |-> 1]
    /\ ret' = [ret EXCEPT ![current] = 1]
    /\ cr3' = current
    /\ frames' = Kernel
    /\ UNCHANGED <<live, next, current, pending, regs, phase, interrupts, asked>>

\* Case 2, process_scheduler_send_signals(pid, SIG_KILL); a pid that is not in
\* the ring is ignored.
Kill(p) ==
    /\ InUserMode
    /\ pending' = [pending EXCEPT ![p] = @ \/ p \in live]
    /\ asked' = [asked EXCEPT ![p] = @ \/ p \in live]
    /\ Return(1)
    /\ frames' = Kernel
    /\ UNCHANGED <<live, next, current, regs, cr3, phase, interrupts>>

\* The other cases change nothing here but the return value.
OtherSyscall ==
    /\ InUserMode
    /\ \E success \in {0, 1} : Return(success)
    /\ frames' = Kernel
    /\ UNCHANGED <<live, next, current, pending, regs, cr3, phase, interrupts, asked>>

\* Any CPU exception ends in panic: a user process faults by its own doing, or
\* because the loaded PML4 does not map its code.
Exception ==
    /\ phase = "run" /\ cpu.mode = "user"
    /\ phase' = "panic"
    /\ UNCHANGED <<live, next, current, pending, regs, cpu, cr3, interrupts,
                   frames, history>>

-----------------------------------------------------------------------------
(* kernel_main loads the shell                                             *)

Booting == phase = "run" /\ cpu.mode = "boot" /\ interrupts

LoadShell(new) ==
    /\ Booting
    /\ AddProcess(new)
    /\ cpu' = [cpu EXCEPT !.mode = "kernel"]
    /\ UNCHANGED <<current, cr3, phase, interrupts, frames>>

\* A load that fails after the cli leaves interrupts off.
LoadShellFails ==
    /\ Booting
    /\ interrupts' \in BOOLEAN
    /\ cpu' = [cpu EXCEPT !.mode = "kernel"]
    /\ UNCHANGED <<live, next, current, pending, regs, cr3, phase, frames,
                   history>>

-----------------------------------------------------------------------------
Spawn == \E new \in Procs : RunAdds(new) \/ LoadShell(new)

Next ==
    \/ Tick \/ Reap \/ Dispatch
    \/ Spawn \/ RunFails \/ RunReturns \/ Exit \/ OtherSyscall
    \/ \E p \in Procs : Kill(p)
    \/ Exception \/ LoadShellFails

Spec == Init /\ [][Next]_vars

\* The PIT keeps interrupting, and a handler that has begun runs on.
Fairness == WF_vars(Tick) /\ WF_vars(Reap \/ Dispatch)

FairSpec == Spec /\ Fairness

-----------------------------------------------------------------------------
(* Properties                                                              *)

\* The ring is one cycle through every process and holds the kernel process:
\* no set of processes smaller than the whole is closed under next, so a walk
\* from current_process (find_process, find_previous_process, the loop of
\* next_process) meets every process and the kernel process is never lost.
\* The process find_previous_process finds is the only one in front of p.
RingIsOneCycle ==
    /\ Kernel \in live /\ current \in live
    /\ \A p \in live : next[p] \in live
    /\ \A p, q \in live : next[p] = next[q] => p = q
    /\ \A S \in SUBSET live : S # {} /\ (\A p \in S : next[p] \in S) => S = live

\* The CPU never runs on the page tables of a process that was removed, which
\* vmm_unmap_PML4 has freed: whichever way a process ends, another PML4 is
\* loaded first.
LoadedSpaceIsLive == cr3 \in live

\* A process leaves the ring only when it exits or when SIG_KILL was sent to
\* it: a signal never reaches the next user of the same process_t.
OnlyAskedAreReaped ==
    [][\A p \in live \ live' : asked[p] \/ (p = current /\ phase = "run")]_vars

\* The rax a process has, or will have when it runs again.
Rax(p) == IF p = current /\ phase # "switch" THEN cpu.rax ELSE regs[p].rax

\* Through a whole context switch, the processes reaped on the way included,
\* every process keeps its registers.
SwitchKeepsRegisters ==
    [][phase = "switch" \/ phase' = "switch" =>
         \A p \in live \cap live' : Rax(p)' = Rax(p)]_vars

\* A process whose last system call succeeded finds 1 in rax, however many switches,
\* kills and exits of others come in between.  (After one that failed it may find 1,
\* too: an exit writes its result into the registers of the process behind it.)
SuccessKept == \A p \in live : ret[p] = 1 => Rax(p) = 1

\* New processes stop being added.
SpawningStops == <>[][~ Spawn]_vars

\* Once no new processes are added, every process in the ring is scheduled
\* again and again (next_process), unless the machine stops.
EveryoneRuns ==
    SpawningStops =>
        \A p \in Procs :
            p \in live ~> (p \notin live \/ (current = p /\ phase = "run") \/ Stopped)

\* Once no new processes are added, a process that was sent SIG_KILL is removed:
\* next_process reaches it, however many others it skips.
KillTakesEffect ==
    SpawningStops =>
        \A p \in Procs \ {Kernel} :
            (p \in live /\ pending[p]) ~> (p \notin live \/ Stopped)

\* src/README.md:29, "Per-process virtual address spaces, each with its own
\* PML4": a process executes in its own address space.
OwnAddressSpace ==
    phase = "run" /\ cpu.mode = "user" => cr3 = current

\* src/src/main_asm.S:191, iretq "restores rip, cs, rflags, rsp, ss from
\* frame": the kernel never returns through frames another process overwrote.
FramesIntact == phase # "wild"
=============================================================================
