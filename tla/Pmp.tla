----------------------------------- MODULE Pmp -----------------------------------
(***************************************************************************)
(* Physical memory protection (security/src/os_pmp.c): the registers of    *)
(* the processor, and the table beside them from which os_pmp_check_access *)
(* answers.  One caller at a time: the lock bit is read before the lock is *)
(* taken, so that the code relies on it.                                   *)
(***************************************************************************)
EXTENDS Integers, Sequences, FiniteSetsExt

CONSTANTS
  NumEntries,   \* g_pmp_num_entries
  FirstUser,    \* entries below are the kernel's, 4 in the code
  AddrMod,      \* an address register counts modulo AddrMod
  Regions,      \* regions in use: base, size, perms and mode
  Kernel,       \* what os_pmp_setup_kernel asks for, in the order of entries
  Access,       \* the permissions: reading and writing
  Owner,        \* the tasks with a context of their own
  ContextMax    \* OS_PMP_MAX_ENTRIES, the regions of a context

Entry == 0 .. NumEntries - 1
ByteAddress == 0 .. 4 * AddrMod - 1
RegionType == [base : ByteAddress, size : 0 .. 4 * AddrMod, perms : SUBSET Access,
               mode : {"OFF", "TOR", "NA4", "NAPOT"}]

ASSUME PmpAssumption ==
  /\ NumEntries \in Nat \ {0} /\ FirstUser \in Nat /\ AddrMod \in Nat \ {0} /\ ContextMax \in Nat
  /\ Regions \subseteq RegionType /\ Kernel \in Seq(RegionType)

VARIABLES
  csr,          \* pmpaddr and pmpcfg of each entry
  table,        \* g_pmp_regions
  context       \* the regions of each task's os_pmp_context_t

pmpvars == <<csr, table, context>>

NoRegion == [base |-> 0, size |-> 0, perms |-> {}, mode |-> "OFF"]

\* os_pmp_init, and os_pmp_context_init for each task
PmpInit ==
  /\ csr = [i \in Entry |-> [addr |-> 0, perms |-> {}, mode |-> "OFF", locked |-> FALSE]]
  /\ table = [i \in Entry |-> [region |-> NoRegion, active |-> FALSE]]
  /\ context = [t \in Owner |-> << >>]

\* os_pmp_size_valid
SizeValid(size) == \E n \in 2 .. size : size = 2 ^ n

\* Mutation: the size is taken for the mask.
MutEncoded(r) == IF r.mode = "NAPOT" THEN (r.base \div 4 + r.size \div 8) % AddrMod ELSE r.base \div 4

\* What os_pmp_set_region writes to the address register, for any base: os_pmp_napot_addr
\* sets the bits of the mask in it, n of them for a size of 8 * n; at size 4 the mask
\* wraps to all ones.
Encoded(r) ==
  LET word == r.base \div 4
      n == r.size \div 8
  IN CASE r.mode = "TOR" -> ((r.base + r.size) \div 4) % AddrMod
       [] r.mode = "NA4" -> word
       [] r.mode = "NAPOT" -> IF n = 0 THEN AddrMod - 1 ELSE (word \div n) * n + n - 1
       [] OTHER -> 0

\* Mutation: the lock bit is not looked at.
MutAccepts(i, r) == i \in Entry /\ (r.mode = "NAPOT" => SizeValid(r.size))

\* Whether os_pmp_set_region of entry i to r succeeds.
Accepts(i, r) ==
  /\ i \in Entry /\ ~csr[i].locked
  /\ r.mode = "NAPOT" => SizeValid(r.size)

\* The processor ignores a write to a locked entry, and to the address register below a
\* locked entry of mode TOR, whose range begins there.
Fixed(i) == i + 1 \in Entry /\ csr[i + 1].locked /\ csr[i + 1].mode = "TOR"
Written(i, a, perms, mode) ==
  IF csr[i].locked THEN csr[i]
  ELSE [addr |-> IF Fixed(i) THEN csr[i].addr ELSE a, perms |-> perms, mode |-> mode, locked |-> FALSE]

\* os_pmp_set_region for a list of regions and the entries from first on; those that
\* are refused are passed over.
Asked(i, first, list) == i - first + 1 \in DOMAIN list /\ Accepts(i, list[i - first + 1])
Load(first, list) ==
  /\ csr' = [i \in Entry |->
       IF Asked(i, first, list)
       THEN LET r == list[i - first + 1] IN Written(i, Encoded(r), r.perms, r.mode)
       ELSE csr[i]]
  /\ table' = [i \in Entry |->
       IF Asked(i, first, list) THEN [region |-> list[i - first + 1], active |-> TRUE] ELSE table[i]]
  /\ UNCHANGED context

\* os_pmp_set_region and os_pmp_set_region_type
SetRegion(i, r) == Accepts(i, r) /\ Load(i, <<r>>)

\* os_pmp_setup_kernel
SetupKernel == Load(0, Kernel)

\* The entries a clear of some entries takes effect on.
Clearable(set) == { i \in set : ~csr[i].locked }

Off(set) ==
  csr' = [i \in Entry |-> IF i \in set THEN Written(i, 0, {}, "OFF") ELSE csr[i]]

\* os_pmp_clear_region and os_pmp_clear_all, which only marks the entries as inactive
ClearRegion(i) ==
  /\ i \in Clearable({i})
  /\ Off({i})
  /\ table' = [table EXCEPT ![i].active = FALSE, ![i].region.base = 0,
                            ![i].region.size = 0, ![i].region.perms = {}]
  /\ UNCHANGED context

ClearAll ==
  /\ Off(Clearable(Entry))
  /\ table' = [i \in Entry |-> IF i \in Clearable(Entry) THEN [table[i] EXCEPT !.active = FALSE] ELSE table[i]]
  /\ UNCHANGED context

\* os_pmp_lock_region
LockRegion(i) ==
  /\ csr' = [csr EXCEPT ![i].locked = TRUE]
  /\ UNCHANGED <<table, context>>

\* os_pmp_context_add_region
AddRegion(t, r) ==
  /\ Len(context[t]) < ContextMax
  /\ context' = [context EXCEPT ![t] = Append(@, [r EXCEPT !.mode = "NAPOT"])]
  /\ UNCHANGED <<csr, table>>

\* os_pmp_context_switch to a task that has a context
ContextSwitch(t) == context[t] # << >> /\ Load(FirstUser, context[t])

\* The first free entry that can be set, from a given one on.
FirstFree(from, r) ==
  { i \in Entry : /\ i >= from /\ ~table[i].active /\ Accepts(i, r)
                  /\ \A j \in from .. i - 1 : table[j].active \/ ~Accepts(j, r) }

\* os_pmp_protect_stack
ProtectStack(r) == \E i \in FirstFree(FirstUser, r) : Load(i, <<[r EXCEPT !.perms = Access]>>)

\* os_pmp_create_secure_region: without permissions, and locked on demand
CreateSecureRegion(r, lock) ==
  \E i \in FirstFree(0, r) :
    LET secure == [r EXCEPT !.perms = {}] IN
    /\ csr' = [csr EXCEPT ![i] = [Written(i, Encoded(secure), {}, r.mode) EXCEPT !.locked = lock]]
    /\ table' = [table EXCEPT ![i] = [region |-> secure, active |-> TRUE]]
    /\ UNCHANGED context

PmpNext ==
  \/ SetupKernel
  \/ ClearAll
  \/ \E i \in Entry : ClearRegion(i) \/ LockRegion(i)
  \/ \E i \in Entry, r \in Regions : SetRegion(i, r)
  \/ \E r \in { x \in Regions : x.mode = "NAPOT" } :
       \/ ProtectStack(r)
       \/ \E lock \in BOOLEAN : CreateSecureRegion(r, lock)
       \/ \E t \in Owner : AddRegion(t, r)
  \/ \E t \in Owner : ContextSwitch(t)

PmpSpec == PmpInit /\ [][PmpNext]_pmpvars
-----------------------------------------------------------------------------
(* Who may access an address.                                              *)

LowestOf(set) == CHOOSE i \in set : \A j \in set : i <= j

\* os_pmp_check_access: what the table says an entry covers, the lowest first
Tells(i, addr) ==
  /\ table[i].active
  /\ addr >= table[i].region.base /\ addr < table[i].region.base + table[i].region.size
CheckAccess(addr, perms) ==
  LET hit == { i \in Entry : Tells(i, addr) }
  IN hit # {} /\ perms \subseteq table[LowestOf(hit)].region.perms

\* What an entry covers in the processor: in mode NAPOT the ones at the end of the
\* register, n of them, say that the region has 2^(n+3) bytes.
TrailingOnes(a) ==
  IF a = AddrMod - 1 THEN { n \in 0 .. AddrMod : 2 ^ n = AddrMod }
  ELSE { n \in 0 .. AddrMod : (a + 1) % (2 ^ n) = 0 /\ (a + 1) % (2 ^ (n + 1)) # 0 }
Covers(i, addr) ==
  LET word == addr \div 4 IN
  CASE csr[i].mode = "NA4" -> word = csr[i].addr
    [] csr[i].mode = "NAPOT" ->
         \E n \in TrailingOnes(csr[i].addr) : word \div 2 ^ (n + 1) = csr[i].addr \div 2 ^ (n + 1)
    [] csr[i].mode = "TOR" ->
         (IF i = 0 THEN 0 ELSE csr[i - 1].addr) <= word /\ word < csr[i].addr
    [] OTHER -> FALSE

\* The lowest entry that covers an address decides; user mode has no other access.
Granted(addr, perms) ==
  LET hit == { i \in Entry : Covers(i, addr) }
  IN hit # {} /\ perms \subseteq csr[LowestOf(hit)].perms

-----------------------------------------------------------------------------
(* Properties.                                                             *)

\* Whether an entry can be what the table tells of it.  The base and size of a region
\* are not compared with what its mode can express, a range of mode TOR begins where the
\* register below it says, and os_pmp_set_region takes no notice of a locked one above.
Faithful(i) ==
  LET r == table[i].region
  IN /\ \/ r.mode = "NA4" /\ r.size = 4
        \/ r.mode = "NAPOT" /\ r.size >= 8
     /\ r.base % r.size = 0 /\ ~Fixed(i)

\* os_pmp_check_access answers what the processor does in user mode, whatever was set,
\* loaded with a context, cleared and locked before, wherever only such entries are in
\* question.
CheckTellsTheHardware ==
  \A addr \in ByteAddress :
    (\A i \in Entry : table[i].active /\ (Tells(i, addr) \/ Covers(i, addr)) => Faithful(i))
    => \A perms \in SUBSET Access : CheckAccess(addr, perms) <=> Granted(addr, perms)

\* "Once locked, region cannot be modified until reset" (os_pmp.h), neither in the
\* registers nor in what the table tells of it.
LockedRegionsStay ==
  [][\A i \in Entry : csr[i].locked => csr'[i] = csr[i] /\ table'[i] = table[i]]_pmpvars
=============================================================================
