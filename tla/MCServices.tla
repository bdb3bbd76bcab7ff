------------------------------ MODULE MCServices ------------------------------
(* Instances of the services beside the scheduler.  They share no state: a      *)
(* behaviour is one of one service, named by part, and the Others stand still.  *)
EXTENDS MemPool, Heap, TimerWheel, Smp, SmpSched, Pmp, TopK, FlClient, AiRegistry, TLC

CONSTANTS c1, c2, task1, u1, u2, t1, t2

VARIABLE part

Part == {"pool", "heap", "timers", "cores", "sched", "pmp", "topk", "fl", "ai"}

\* Regions that overlap, one of them of four bytes, and one whose size is no power
\* of two.
MCRegions == { [base |-> 0, size |-> 8, perms |-> {"r"}, mode |-> "NAPOT"],
               [base |-> 0, size |-> 12, perms |-> {"r"}, mode |-> "NAPOT"],
               [base |-> 4, size |-> 4, perms |-> {}, mode |-> "NA4"] }

\* os_pmp_setup_kernel: code, whose base is what the linker made of it, and the
\* peripherals in mode TOR.
MCKernel == << [base |-> 4, size |-> 8, perms |-> {"r"}, mode |-> "NAPOT"],
               [base |-> 0, size |-> 8, perms |-> {"r"}, mode |-> "TOR"] >>

\* The scheduler: suspension with windows for interrupts and for other cores, time
\* slices among peers without windows on the same core, and the port that does not
\* switch on interrupt exit.
MCSmpBuilds ==
  { [slices |-> FALSE, exits |-> TRUE, masked |-> FALSE, ops |-> {"suspend"}],
    [slices |-> TRUE, exits |-> TRUE, masked |-> TRUE, ops |-> {"yield", "suspend"}],
    [slices |-> FALSE, exits |-> FALSE, masked |-> FALSE, ops |-> {"delay", "suspend", "resume"}] }

MCValue == {-2, -1, 0, 2}

\* The AI runtime with one of its two modules (AI_IREE_HAL_MODE).
MCHalModes == {{"static"}, {"inline"}}

Others(p) ==
  /\ p # "pool" => UNCHANGED poolvars
  /\ p # "heap" => UNCHANGED heapvars
  /\ p # "timers" => UNCHANGED timervars
  /\ p # "cores" => UNCHANGED smpvars
  /\ p # "sched" => UNCHANGED schedvars
  /\ p # "pmp" => UNCHANGED pmpvars
  /\ p # "topk" => UNCHANGED topkvars
  /\ p # "fl" => UNCHANGED flvars
  /\ p # "ai" => UNCHANGED aivars

\* A service that stands still has one initial state.  One timer is periodic, the
\* other is not.  One caller runs on the boot core, the other on any.  Two tasks are
\* pinned to one core and one to the other; the first is more urgent than its neighbour,
\* or with time slices its peer.
MCInit ==
  /\ part \in Part
  /\ PoolInit /\ HeapInit /\ PmpInit /\ FlInit
  /\ TimerInit /\ timer[t1].periodic /\ ~timer[t2].periodic
  /\ SmpInit /\ home[c1] = BootCpu /\ (part # "cores" => home[c2] = BootCpu)
  /\ SmpSchedInit /\ affinity[t1] = 0 /\ affinity[t2] = 0 /\ affinity[task1] = 1
  /\ ready = <<t1, t2, task1>> /\ priority[t2] = 1 /\ priority[task1] = 1
  /\ priority[t1] = IF build.slices THEN 1 ELSE 0
  /\ part # "sched" => build.slices
  /\ TopKInit /\ (part # "topk" => input = <<0>>)
  /\ AiInit /\ (part # "ai" => hal = {"static"} /\ backend = [m \in Model |-> "static"])

Only(p) == part = p /\ UNCHANGED part /\ Others(p)

MCNext ==
  \/ Only("pool") /\ PoolNext
  \/ Only("heap") /\ HeapNext
  \/ Only("timers") /\ TimerNext
  \/ Only("cores") /\ SmpNext
  \/ Only("sched") /\ SmpSchedNext
  \/ Only("pmp") /\ PmpNext
  \/ Only("topk") /\ TopKNext
  \/ Only("fl") /\ FlNext
  \/ Only("ai") /\ AiNext

MCVars == <<part, poolvars, heapvars, timervars, smpvars, schedvars, pmpvars, topkvars, flvars,
            aivars>>

\* TimerFairness and SmpFairness, each in the behaviours of its service.
MCFairness ==
  /\ WF_timervars(part = "timers" /\ TimerTick)
  /\ WF_timervars(part = "timers" /\ TimerTask)
  /\ WF_smpvars(part = "cores" /\ BootStep)
  /\ \A i \in Cpu : WF_smpvars(part = "cores" /\ CpuStep(i))
  /\ \A c \in Caller : SF_smpvars(part = "cores" /\ (IpiMark(c) \/ IpiRing(c)))

MCSpec == MCInit /\ [][MCNext]_MCVars /\ MCFairness
=============================================================================
