--------------------------- MODULE DebugRegs ---------------------------
(* The x86 debug registers as yaod programs them (hbp.h, hbp.c) and as    *)
(* the kernel reads them.  A DR7 value is the set of its one bits, so |   *)
(* is \cup and & ~ is \.                                                  *)
(*                                                                        *)
(* A definition marked "mutant" is no part of the model: it is the slip   *)
(* in the code that the property named in PROJECT.json would catch.       *)
EXTENDS Integers, FiniteSets

Slots == 0 .. 3

(* hbp.h: HBP_ACCESS_EXEC, _WRITE, _ANY and _MEM.                         *)
Accesses == 0 .. 3

BitsOf(n) == {b \in 0 .. 30 : (n \div 2^b) % 2 = 1}

(* HBP_DR7_SCOPE, HBP_DR7_TYPE and HBP_DR7_LEN: the fields are added to   *)
(* a multiple of the register number where a shift was called for.        *)
Dr7Scope(reg, scope)  == 2^reg + scope
Dr7Type(reg, access)  == access * 2^15 + 4 * reg
Dr7Len(reg, len)      == len * 2^18 + 4 * reg

(* HBP_SET_DR7.                                                           *)
Dr7Bits(reg, scope, access, len) ==
    BitsOf(Dr7Scope(reg, scope)) \cup BitsOf(Dr7Type(reg, access))
        \cup BitsOf(Dr7Len(reg, len))

BitsOfBp(bp) == Dr7Bits(bp.regnum, bp.scope, bp.access, bp.len)

-----------------------------------------------------------------------
(* The kernel's reading of DR7 (external): bits 2i and 2i+1 enable        *)
(* register i, bits 16+4i and 17+4i give its type (0 execute, 1 write,    *)
(* 2 I/O, 3 read or write) and bits 18+4i and 19+4i its length.           *)
Enables(dr7, i) == {2 * i, 2 * i + 1} \cap dr7 # {}
OnExecute(dr7, i) == {16 + 4 * i, 17 + 4 * i} \cap dr7 = {}
OnIo(dr7, i) == {16 + 4 * i, 17 + 4 * i} \cap dr7 = {17 + 4 * i}
OneByte(dr7, i) == {18 + 4 * i, 19 + 4 * i} \cap dr7 = {}

(* PTRACE_POKEUSER refuses a DR7 that enables an I/O register or an       *)
(* execute register longer than a byte.  The reserved bits 10 to 15 stay  *)
(* as written here: they enable nothing.                                  *)
Acceptable(dr7) ==
    \A i \in Slots : Enables(dr7, i) =>
        ~OnIo(dr7, i) /\ (OnExecute(dr7, i) => OneByte(dr7, i))

Written(old, new) == IF Acceptable(new) THEN new ELSE old

-----------------------------------------------------------------------
(* hbp_free_slot: the lowest register no node of the list names (at most  *)
(* one).                                                                  *)
FreeSlot(l) ==
    LET used == {l[i].regnum : i \in DOMAIN l}
    IN  {r \in Slots \ used : \A q \in Slots \ used : r <= q}

(* hbp_set and hbp_unset, as what they make of DR7.                       *)
SetDr7(dr7, bp)   == Written(dr7, dr7 \cup BitsOfBp(bp))
UnsetScopeOnly(dr7, bp) ==                          \* mutant
    Written(dr7, dr7 \ BitsOf(Dr7Scope(bp.regnum, bp.scope)))
UnsetDr7(dr7, bp) == Written(dr7, dr7 \ BitsOfBp(bp))
========================================================================
