-------------------------- MODULE LoaderProofs --------------------------
(* Proofs about Loader for every set of libraries and of programs. *)
EXTENDS Loader, SequenceTheorems, WellFoundedInduction, TLAPS

(* The parts of the inductive invariant.  What is read is bounded by the  *)
(* program's tables, and the stages of start_slave come in their order.   *)
StagePart ==
    /\ Len(dynsym) <= Len(prog.plt)
    /\ linkMap # <<>> =>
          linkMap[1] = Main /\ \A i \in 2 .. Len(linkMap) : linkMap[i] \in Libraries
    /\ mode = "start" => pid = "zero"
    /\ mode = "load" => pid = "child"
    /\ mode \in {"start", "load"} \/ pid = "zero" => ~elf
    /\ mode # "over" => crash = "none"

(* A complete program has its symbols once it is loaded. *)
SafePart == CompleteIsSafe /\ (Complete(prog) /\ elf => symtab)

(* What the program needs stays mapped, in its place, ... *)
NeedsPart ==
    /\ linker => \A k \in DOMAIN prog.needs :
                    k \in DOMAIN loaded /\ loaded[k] = prog.needs[k]
    /\ ~linker => loaded = <<>> /\ linkMap = <<>>
    /\ linkMap # <<>> => elf
    /\ linkMap # <<>> => \A k \in DOMAIN prog.needs :
                            k + 1 \in DOMAIN linkMap /\ linkMap[k + 1] = prog.needs[k]

(* ... and the map has what has not moved. *)
MapPart ==
    linkMap # <<>> =>
        /\ sha = ElfSha(linkMap)
        /\ \A i \in DOMAIN loaded : loaded[i] \notin moved =>
              \E j \in DOMAIN linkMap : linkMap[j] = loaded[i]

(* The libraries whose table gives an address for n. *)
Mentions(l, n) == l \in Hashed /\ Places(l, n) # {}

(* The imports are looked for with the whole map, or not at all. *)
ImportPart ==
    /\ linkMap = <<>> => \A i \in 1 .. Len(dynsym) : dynsym[i] = Null \/ prog.syms[i].own
    /\ linked /\ ~Preset => linkMap # <<>>
    /\ linkMap # <<>> /\ ~Preset =>
          \A i \in 1 .. Len(dynsym), j \in DOMAIN linkMap :
              Mentions(linkMap[j], prog.syms[i].name) => dynsym[i] # Null

(* The prompt does not come back before the map was read. *)
PromptPart == mode = "prompt" /\ elf /\ Got => linkMap # <<>>

StageInv == TypeOK /\ StagePart
LinkInv == StageInv /\ NeedsPart /\ MapPart /\ ImportPart /\ PromptPart

-------------------------------------------------------------------------
(* What the constants and the operators give. *)

LEMMA ProgFacts ==
    ASSUME prog \in Programs
    PROVE  /\ prog \in Program /\ prog.needs \in Seq(Libraries)
           /\ prog.plt \in Seq(Nat) /\ prog.syms \in Seq(Symbol)
           /\ Len(prog.plt) \in Nat /\ Len(prog.syms) \in Nat
           /\ Len(prog.plt) <= Len(prog.syms)
           /\ \A i \in DOMAIN prog.plt : prog.plt[i] \in 1 .. Len(prog.syms)
           /\ \A i \in 1 .. Len(prog.syms) :
                 prog.syms[i].name \in Names /\ prog.syms[i].own \in BOOLEAN
<1>1. prog \in Program
  BY ProgramAssumption
<1>2. /\ prog.needs \in Seq(Libraries) /\ prog.plt \in Seq(Nat)
      /\ prog.syms \in Seq(Symbol)
  BY <1>1 DEF Program
<1>3. \A i \in 1 .. Len(prog.syms) : prog.syms[i] \in Symbol
  BY <1>2
<1> QED
  BY <1>1, <1>2, <1>3, ProgramAssumption DEF Symbol

(* A function on the numbers up to n is a sequence. *)
LEMMA RowsAreSeq ==
    ASSUME NEW S, NEW n \in Int, NEW f \in [1 .. n -> S]
    PROVE  f \in Seq(S)
<1>1. CASE n >= 0
  BY <1>1
<1>2. CASE n < 0
  <2>1. 1 .. n = 1 .. 0
    BY <1>2
  <2> QED
    BY <2>1
<1> QED
  BY <1>1, <1>2

LEMMA AddrType ==
    /\ Null \in Addr
    /\ \A off \in Nat : \A l \in Libraries \cup {Main} : At(l, off) \in Addr
    /\ \A off : \A l \in Libraries : At(l, off) # Null
  BY LibraryAssumption DEF Null, At, Addr

(* A set of numbers has a least one, since < is well founded. *)
LEMMA LeastNumber ==
    ASSUME NEW T \in SUBSET Nat, T # {}
    PROVE  \E x \in T : \A y \in T : x <= y
<1> DEFINE R == OpToRel(<, Nat)
<1>1. PICK x \in T : \A y \in T : <<y, x>> \notin R
  <2>1. IsWellFoundedOn(R, Nat)
    BY NatLessThanWellFounded
  <2> HIDE DEF R
  <2> QED
    BY <2>1, WFMin
<1>2. ASSUME NEW y \in T, y < x PROVE FALSE
  <2>1. <<y, x>> \in Nat \X Nat
    OBVIOUS
  <2>2. <<y, x>>[1] < <<y, x>>[2]
    BY <1>2
  <2>3. <<y, x>> \in R
    BY <2>1, <2>2 DEF OpToRel
  <2> QED
    BY <2>3, <1>1
<1> HIDE DEF R
<1>3. \A y \in T : x <= y
  BY <1>2
<1> QED
  BY <1>3

(* A name that has an entry has a last one. *)
LEMMA LastPlaceIs ==
    ASSUME NEW l \in Libraries, NEW n, Places(l, n) # {}
    PROVE  /\ LastPlace(l, n) \in Places(l, n)
           /\ \A f \in Places(l, n) : f <= LastPlace(l, n)
           /\ Dynsym[l][LastPlace(l, n)].off \in Nat
<1>1. Dynsym[l] \in Seq(Entry) /\ Len(Dynsym[l]) \in Nat
  BY LibraryAssumption
<1>2. \A e \in Places(l, n) : e \in 1 .. Len(Dynsym[l]) /\ Dynsym[l][e] \in Entry
  BY <1>1 DEF Places
<1> DEFINE rest == {Len(Dynsym[l]) - e : e \in Places(l, n)}
<1>3. rest \in SUBSET Nat /\ rest # {}
  BY <1>1, <1>2
<1> HIDE DEF rest
<1>4. PICK x \in rest : \A y \in rest : x <= y
  BY <1>3, LeastNumber
<1>5. PICK e \in Places(l, n) : x = Len(Dynsym[l]) - e
  BY <1>4 DEF rest
<1>6. \A f \in Places(l, n) : f <= e
  <2> TAKE f \in Places(l, n)
  <2>1. Len(Dynsym[l]) - e <= Len(Dynsym[l]) - f
    BY <1>4, <1>5 DEF rest
  <2> QED
    BY <1>1, <1>2, <2>1
<1>7. LastPlace(l, n) \in Places(l, n) /\ \A f \in Places(l, n) : f <= LastPlace(l, n)
  BY <1>6 DEF LastPlace
<1>8. Dynsym[l][LastPlace(l, n)] \in Entry
  BY <1>2, <1>7
<1> QED
  BY <1>7, <1>8 DEF Entry

(* What elf_dynsym_addr gives for a name that has an entry. *)
LastAddr(l, n) == At(l, Dynsym[l][LastPlace(l, n)].off)

LEMMA LastAddrType ==
    ASSUME NEW l \in Libraries, NEW n, Places(l, n) # {}
    PROVE  LastAddr(l, n) \in Addr /\ LastAddr(l, n) # Null
  BY LastPlaceIs, AddrType DEF LastAddr

(* An address comes from a library that is mapped. *)
LEMMA ElfDynsymAddrType ==
    ASSUME loaded \in Seq(Libraries), NEW l, NEW n
    PROVE  /\ ElfDynsymAddr(l, n) \in Addr
           /\ ElfDynsymAddr(l, n) # Null =>
                 /\ l \in Libraries /\ Mentions(l, n)
                 /\ ElfDynsymAddr(l, n) = LastAddr(l, n)
           /\ slave = "alive" /\ (\E i \in DOMAIN loaded : loaded[i] = l)
                 /\ Mentions(l, n) => ElfDynsymAddr(l, n) = LastAddr(l, n)
<1>1. ElfShaTables(l) => l \in Libraries
  BY LibraryAssumption DEF ElfShaTables
<1>2. CASE ElfShaTables(l) /\ Places(l, n) # {}
  <2>1. ElfDynsymAddr(l, n) = LastAddr(l, n)
    BY <1>2 DEF ElfDynsymAddr, LastAddr
  <2> QED
    BY <1>1, <1>2, <2>1, LastAddrType DEF ElfShaTables, Mentions
<1>3. CASE ~(ElfShaTables(l) /\ Places(l, n) # {})
  BY <1>3, AddrType DEF ElfDynsymAddr, ElfShaTables, Mentions
<1> QED
  BY <1>2, <1>3

LEMMA GetDynsymType ==
    ASSUME loaded \in Seq(Libraries), NEW map, NEW n
    PROVE  GetDynsym(map, n) \in Addr
  BY ElfDynsymAddrType, AddrType DEF GetDynsym

(* get_dynsym gives what the first library that mentions the name says,   *)
(* NULL only if none does.                                                *)
LEMMA GetDynsymFirst ==
    ASSUME NEW S, NEW map \in Seq(S), NEW n, NEW i \in DOMAIN map,
           ElfDynsymAddr(map[i], n) # Null,
           \A j \in 1 .. i - 1 : ElfDynsymAddr(map[j], n) = Null
    PROVE  GetDynsym(map, n) = ElfDynsymAddr(map[i], n)
<1> DEFINE First(k) == /\ ElfDynsymAddr(map[k], n) # Null
                       /\ \A j \in 1 .. k - 1 : ElfDynsymAddr(map[j], n) = Null
<1>1. First(i) /\ i \in 1 .. Len(map)
  OBVIOUS
<1>2. \A k \in DOMAIN map : First(k) => k = i
  <2>1. ASSUME NEW k \in DOMAIN map, First(k), k < i PROVE FALSE
    BY <2>1, <1>1
  <2>2. ASSUME NEW k \in DOMAIN map, First(k), i < k PROVE FALSE
    BY <2>2, <1>1
  <2> QED
    BY <2>1, <2>2
<1>3. (CHOOSE k \in DOMAIN map : First(k)) = i
  <2> HIDE DEF First
  <2> QED
    BY <1>1, <1>2
<1>4. GetDynsym(map, n) = ElfDynsymAddr(map[CHOOSE k \in DOMAIN map : First(k)], n)
  BY <1>1 DEF GetDynsym
<1> QED
  BY <1>3, <1>4

LEMMA GetDynsymFinds ==
    ASSUME NEW S, NEW map \in Seq(S), NEW n, NEW i \in DOMAIN map,
           ElfDynsymAddr(map[i], n) # Null
    PROVE  GetDynsym(map, n) # Null
<1> DEFINE T == {j \in DOMAIN map : ElfDynsymAddr(map[j], n) # Null}
<1>1. PICK k \in T : \A j \in T : k <= j
  <2>1. T \in SUBSET Nat /\ T # {}
    OBVIOUS
  <2> HIDE DEF T
  <2> QED
    BY <2>1, LeastNumber
<1>2. \A j \in 1 .. k - 1 : ElfDynsymAddr(map[j], n) = Null
  <2>1. ASSUME NEW j \in 1 .. k - 1 PROVE j \in DOMAIN map /\ ~(k <= j)
    BY <1>1
  <2> QED
    BY <1>1, <2>1
<1>3. k \in DOMAIN map /\ ElfDynsymAddr(map[k], n) # Null
  BY <1>1
<1>4. GetDynsym(map, n) = ElfDynsymAddr(map[k], n)
  BY <1>2, <1>3, GetDynsymFirst
<1> QED
  BY <1>3, <1>4

LEMMA GetDynsymNone ==
    ASSUME NEW map, NEW n, \A i \in DOMAIN map : ElfDynsymAddr(map[i], n) = Null
    PROVE  GetDynsym(map, n) = Null
  BY DEF GetDynsym

-------------------------------------------------------------------------
(* What is read, and what is shown of it. *)

LEMMA PopulatedType ==
    ASSUME dynsym \in Seq(Addr), loaded \in Seq(Libraries), NEW map
    PROVE  /\ Populated(map) \in Seq(Addr) /\ Len(Populated(map)) = Len(dynsym)
           /\ \A i \in 1 .. Len(dynsym) :
                 Populated(map)[i] = IF dynsym[i] = Null
                                     THEN GetDynsym(map, prog.syms[i].name)
                                     ELSE dynsym[i]
<1>1. Populated(map) \in [1 .. Len(dynsym) -> Addr]
  BY GetDynsymType DEF Populated
<1>2. Len(dynsym) \in Nat
  OBVIOUS
<1>3. Populated(map) \in Seq(Addr) /\ Len(Populated(map)) = Len(dynsym)
  BY <1>1, <1>2
<1>4. \A i \in 1 .. Len(dynsym) :
         Populated(map)[i] = IF dynsym[i] = Null
                             THEN GetDynsym(map, prog.syms[i].name)
                             ELSE dynsym[i]
  BY DEF Populated
<1> QED
  BY <1>3, <1>4

Rows == [name : Names \cup Libraries, value : Addr]

LEMMA RowsType ==
    ASSUME TypeOK, StagePart
    PROVE  LinkmapRows \in Seq(Rows) /\ DynsymRows \in Seq(Rows)
           /\ RelaRows \in Seq(Rows)
<1>1. LinkmapRows \in Seq(Rows)
  <2>1. \A i \in 1 .. Len(linkMap) - 1 : linkMap[i + 1] \in Libraries
    <3> SUFFICES ASSUME NEW i \in 1 .. Len(linkMap) - 1
                 PROVE  linkMap[i + 1] \in Libraries
      OBVIOUS
    <3>1. Len(linkMap) \in Nat
      BY DEF TypeOK
    <3>2. i + 1 \in 2 .. Len(linkMap) /\ linkMap # <<>>
      BY <3>1
    <3> QED
      BY <3>2 DEF StagePart
  <2>2. \A l \in Libraries : [name |-> l, value |-> At(l, 0)] \in Rows
    BY AddrType DEF Rows
  <2>3. LinkmapRows \in [1 .. Len(linkMap) - 1 -> Rows]
    BY <2>1, <2>2 DEF LinkmapRows
  <2>4. Len(linkMap) - 1 \in Int
    BY DEF TypeOK
  <2> QED
    BY <2>3, <2>4, RowsAreSeq
<1>2. prog \in Programs
  BY DEF TypeOK
<1>3. DynsymRows \in Seq(Rows)
  <2>1. Len(dynsym) \in Nat /\ Len(dynsym) <= Len(prog.syms)
    BY <1>2, ProgFacts DEF TypeOK, StagePart
  <2>2. \A i \in 1 .. Len(dynsym) : prog.syms[i].name \in Names /\ dynsym[i] \in Addr
    BY <1>2, <2>1, ProgFacts DEF TypeOK
  <2>3. DynsymRows \in [1 .. Len(dynsym) -> Rows]
    BY <2>2 DEF DynsymRows, Rows
  <2> QED
    BY <2>1, <2>3, RowsAreSeq
<1>4. RelaRows \in Seq(Rows)
  <2>1. \A i \in 1 .. Len(prog.plt) : prog.syms[prog.plt[i]].name \in Names
    BY <1>2, ProgFacts
  <2>2. RelaRows \in [1 .. Len(prog.plt) -> Rows]
    BY <2>1, AddrType DEF RelaRows, Rows
  <2>3. Len(prog.plt) \in Int
    BY <1>2, ProgFacts
  <2> QED
    BY <2>2, <2>3, RowsAreSeq
<1> QED
  BY <1>1, <1>3, <1>4

LEMMA ModSmall ==
    ASSUME NEW a \in Nat, NEW b \in Nat, a < b PROVE a % b = a
  BY Z3

(* Without a PLT nchains wraps round and the table overruns; with one it  *)
(* holds a symbol for each relocation.                                    *)
LEMMA NchainsFits ==
    ASSUME prog \in Programs
    PROVE  /\ Overruns(prog) <=> prog.plt = <<>>
           /\ prog.plt # <<>> => Nchains(prog) - 1 = Len(prog.plt)
<1>1. Len(prog.plt) \in Nat /\ Words \in Nat /\ Len(prog.plt) + 2 < Words
  BY ProgFacts, WordAssumption
<1>2. CASE prog.plt = <<>>
  <2>1. Nchains(prog) = Words - 1
    BY <1>2 DEF Nchains
  <2>2. (Words - 1 + 1) % Words = 0
    BY <1>1
  <2> QED
    BY <1>1, <1>2, <2>1, <2>2 DEF Overruns
<1>3. CASE prog.plt # <<>>
  <2>1. Nchains(prog) = Len(prog.plt) + 1
    BY <1>3 DEF Nchains
  <2>2. (Nchains(prog) + 1) % Words = Nchains(prog) + 1
    <3>1. Nchains(prog) + 1 \in Nat /\ Nchains(prog) + 1 < Words
      BY <1>1, <2>1
    <3> HIDE DEF Nchains
    <3> QED
      BY <1>1, <3>1, ModSmall
  <2>3. ~Overruns(prog)
    <3>1. Overruns(prog) <=> Nchains(prog) + 1 < Nchains(prog)
      BY <2>2, Zenon DEF Overruns
    <3> QED
      BY <3>1, <2>1, <1>1
  <2> QED
    BY <1>1, <1>3, <2>1, <2>3
<1> QED
  BY <1>2, <1>3

-------------------------------------------------------------------------
(* Types and stages. *)

LEMMA InitStage == Init => StageInv
<1> SUFFICES ASSUME Init PROVE StageInv
  OBVIOUS
<1>1. Len(<<>>) = 0 /\ prog \in Programs
  BY DEF Init
<1>2. Len(prog.plt) \in Nat
  BY <1>1, ProgFacts
<1>3. TypeOK
  <2>1. /\ loaded \in Seq(Libraries) /\ dynsym \in Seq(Addr)
        /\ linkMap \in Seq(Libraries \cup {Main}) /\ shown \in Seq(Rows)
    BY DEF Init
  <2> QED
    BY <2>1 DEF Init, TypeOK, Rows
<1>4. StagePart
  BY <1>2 DEF Init, StagePart
<1> QED
  BY <1>3, <1>4 DEF StageInv

(* elf_get leaves one address for each relocation of the PLT. *)
LEMMA LoadDynsym ==
    ASSUME TypeOK, Load, LoadCrash = "none"
    PROVE  /\ dynsym' \in Seq(Addr) /\ Len(dynsym') = Len(prog.plt)
           /\ \A i \in 1 .. Len(prog.plt) :
                 dynsym'[i] = IF prog.syms[i].own THEN At(Main, 1)
                              ELSE Null
           /\ linked' = (\E i \in 1 .. Len(prog.plt) : prog.syms[i].own)
<1>1. prog \in Programs
  BY DEF TypeOK
<1>2. ~Overruns(prog)
  BY DEF LoadCrash
<1>3. Nchains(prog) - 1 = Len(prog.plt)
  BY <1>1, <1>2, NchainsFits
<1> DEFINE value(i) == IF prog.syms[i].own THEN At(Main, 1) ELSE Null
           table == [i \in 1 .. Len(prog.plt) |-> value(i)]
<1>4. dynsym' = table
  BY <1>3 DEF Load
<1>5. Len(prog.plt) \in Nat
  BY <1>1, ProgFacts
<1>6. \A i \in 1 .. Len(prog.plt) : value(i) \in Addr
  BY AddrType DEF Addr
<1>7. table \in [1 .. Len(prog.plt) -> Addr]
  <2> HIDE DEF value
  <2> QED
    BY <1>6
<1>8. table \in Seq(Addr) /\ Len(table) = Len(prog.plt)
  <2> HIDE DEF table
  <2> QED
    BY <1>5, <1>7
<1>9. linked' = (\E i \in 1 .. Len(prog.plt) : prog.syms[i].own)
  BY <1>3 DEF Load
<1> QED
  BY <1>4, <1>8, <1>9

(* The link map as update_elf leaves it. *)
LEMMA ElfLinkmapType ==
    ASSUME TypeOK, StagePart
    PROVE  /\ ElfLinkmap \in Seq(Libraries \cup {Main})
           /\ ElfLinkmap # <<>> =>
                 /\ ElfLinkmap[1] = Main
                 /\ \A i \in 2 .. Len(ElfLinkmap) : ElfLinkmap[i] \in Libraries
           /\ ElfSha(ElfLinkmap) \subseteq Libraries
<1>1. ElfSha(ElfLinkmap) \subseteq Libraries
  BY LibraryAssumption DEF ElfSha, ElfShaNew
<1>2. CASE linkMap = <<>> /\ Got
  <2>1. ElfLinkmap = <<Main>> \o loaded
    BY <1>2 DEF ElfLinkmap
  <2>2. loaded \in Seq(Libraries)
    BY DEF TypeOK
  <2>3. <<Main>> \o loaded \in Seq(Libraries \cup {Main})
    BY <2>2
  <2>4. (<<Main>> \o loaded)[1] = Main
    BY <2>2
  <2>5. \A i \in 2 .. Len(<<Main>> \o loaded) : (<<Main>> \o loaded)[i] \in Libraries
    BY <2>2
  <2> QED
    BY <1>1, <2>1, <2>3, <2>4, <2>5
<1>3. CASE ~(linkMap = <<>> /\ Got)
  <2>1. ElfLinkmap = linkMap
    BY <1>3 DEF ElfLinkmap
  <2> QED
    BY <1>1, <2>1 DEF TypeOK, StagePart
<1> QED
  BY <1>2, <1>3

(* Every step keeps the types and the stages. *)
LEMMA StageStep == StageInv /\ [Next]_vars => StageInv'
<1> SUFFICES ASSUME StageInv, [Next]_vars PROVE StageInv'
  OBVIOUS
<1> USE DEF StageInv, slaveVars, elfVars
<1>1. CASE NoSlave("zero")
  BY <1>1 DEF NoSlave, TypeOK, StagePart
<1>2. CASE NoSlave("gone")
  BY <1>2 DEF NoSlave, TypeOK, StagePart
<1>3. CASE Exec
  BY <1>3 DEF Exec, TypeOK, StagePart
<1>4. CASE Refused
  BY <1>4 DEF Refused, TypeOK, StagePart
<1>5. CASE Load
  <2>1. prog \in Programs /\ Len(prog.plt) \in Nat
    BY ProgFacts DEF TypeOK
  <2>2. CASE LoadCrash = "none"
    <3>1. /\ dynsym' \in Seq(Addr) /\ Len(dynsym') <= Len(prog.plt)
          /\ linked' \in BOOLEAN
      BY <1>5, <2>1, <2>2, LoadDynsym
    <3>2. /\ elf' = TRUE /\ symtab' \in BOOLEAN /\ mode' = "stop" /\ crash' = "none"
          /\ mode = "load" /\ UNCHANGED <<prog, pid, slaveVars, linkMap, sha, shown>>
      BY <1>5, <2>2 DEF Load, ElfFileSymtab
    <3> QED
      BY <3>1, <3>2 DEF TypeOK, StagePart
  <2>3. CASE LoadCrash # "none"
    <3>1. /\ UNCHANGED <<prog, pid, slaveVars, linkMap, sha, shown>>
          /\ UNCHANGED <<elf, symtab, dynsym, linked>>
          /\ mode' = "over" /\ crash' = LoadCrash /\ mode = "load"
      BY <1>5, <2>3 DEF Load
    <3>2. LoadCrash \in {"none", "sections", "static", "nchains"}
      BY DEF LoadCrash
    <3> QED
      BY <3>1, <3>2 DEF TypeOK, StagePart
  <2> QED
    BY <2>2, <2>3
<1>6. CASE Link
  <2>1. prog.needs \in Seq(Libraries)
    BY ProgFacts DEF TypeOK
  <2> QED
    BY <1>6, <2>1 DEF Link, Running, TypeOK, StagePart
<1>7. CASE Die
  BY <1>7 DEF Die, TypeOK, StagePart
<1>8. CASE Stop
  BY <1>8 DEF Stop, Running, TypeOK, StagePart
<1>9. CASE \E l \in Libraries : DlOpen(l)
  <2> PICK l \in Libraries : DlOpen(l)
    BY <1>9
  <2>1. loaded' \in Seq(Libraries) /\ moved' \subseteq Libraries
    BY DEF DlOpen, Moves, TypeOK
  <2> QED
    BY <2>1 DEF DlOpen, TypeOK, StagePart
<1>10. CASE \E i \in DOMAIN loaded : DlClose(i)
  <2> PICK i \in DOMAIN loaded : DlClose(i)
    BY <1>10
  <2>1. loaded \in Seq(Libraries) /\ loaded[i] \in Libraries
    BY DEF TypeOK
  <2>2. /\ SubSeq(loaded, 1, i - 1) \in Seq(Libraries)
        /\ SubSeq(loaded, i + 1, Len(loaded)) \in Seq(Libraries)
    BY <2>1
  <2>3. loaded' \in Seq(Libraries)
    <3> DEFINE a == SubSeq(loaded, 1, i - 1)
               b == SubSeq(loaded, i + 1, Len(loaded))
    <3>1. loaded' = a \o b
      BY DEF DlClose
    <3> HIDE DEF a, b
    <3>2. a \in Seq(Libraries) /\ b \in Seq(Libraries)
      BY <2>2 DEF a, b
    <3> QED
      BY <3>1, <3>2, ConcatProperties
  <2>4. /\ moved' = moved \/ moved' = moved \cup {loaded[i]}
        /\ UNCHANGED <<prog, mode, pid, slave, linker, elfVars, crash, shown>>
    BY DEF DlClose, Moves
  <2>5. moved' \subseteq Libraries
    BY <2>1, <2>4 DEF TypeOK
  <2>6. TypeOK'
    BY <2>3, <2>4, <2>5 DEF TypeOK, elfVars
  <2>7. StagePart'
    BY <2>4 DEF StagePart, elfVars
  <2> QED
    BY <2>6, <2>7
<1>11. CASE Resume
  BY <1>11 DEF Resume, TypeOK, StagePart
<1>12. CASE ResumeNobody
  BY <1>12 DEF ResumeNobody, TypeOK, StagePart
<1>13. CASE TakeStop
  <2>1. /\ linkMap' = ElfLinkmap /\ sha' = (IF linkMap = ElfLinkmap THEN sha
                                           ELSE ElfSha(ElfLinkmap))
        /\ UNCHANGED <<prog, pid, slaveVars, crash, shown, elf, symtab>>
        /\ mode = "stop" /\ mode' = "prompt"
    BY <1>13 DEF TakeStop, UpdateElf
  <2>2. dynsym' \in Seq(Addr) /\ Len(dynsym') = Len(dynsym) /\ linked' \in BOOLEAN
    BY <1>13, PopulatedType DEF TakeStop, UpdateElf, TypeOK
  <2>3. /\ linkMap' \in Seq(Libraries \cup {Main})
        /\ linkMap' # <<>> => /\ linkMap'[1] = Main
                              /\ \A i \in 2 .. Len(linkMap') : linkMap'[i] \in Libraries
        /\ sha' \subseteq Libraries
    <3>1. linkMap' = ElfLinkmap
      BY <2>1
    <3>2. sha \subseteq Libraries
      BY DEF TypeOK
    <3> HIDE DEF StageInv
    <3> QED
      BY <2>1, <3>1, <3>2, ElfLinkmapType DEF StageInv
  <2>4. TypeOK'
    BY <2>1, <2>2, <2>3 DEF TypeOK, StagePart
  <2>5. StagePart'
    BY <2>1, <2>2, <2>3 DEF StagePart, TypeOK
  <2> QED
    BY <2>4, <2>5
<1>14. CASE TakeExit
  BY <1>14 DEF TakeExit, TypeOK, StagePart
<1>15. ASSUME NEW rows, NEW fault, Prints(rows, fault), rows \in Seq(Rows),
              fault \in {"none", "noelf", "nosyms", "index"}
       PROVE  StageInv'
  BY <1>15 DEF Prints, TypeOK, StagePart, Rows
<1>16. CASE InfoLinkmap \/ InfoDynsym \/ InfoSymtab \/ InfoDyntab
            \/ InfoSegment \/ InfoSections \/ InfoRela
  <2>1. <<>> \in Seq(Rows)
    OBVIOUS
  <2>2. NoElf \in {"none", "noelf"}
    BY DEF NoElf
  <2>3. CASE InfoLinkmap
    BY <2>2, <2>3, <1>15, RowsType DEF InfoLinkmap
  <2>4. CASE InfoDynsym
    BY <2>2, <2>4, <1>15, RowsType DEF InfoDynsym
  <2>5. CASE InfoSymtab
    BY <2>1, <2>2, <2>5, <1>15 DEF InfoSymtab
  <2>6. CASE InfoDyntab \/ InfoSegment \/ InfoSections
    BY <2>1, <2>2, <2>6, <1>15 DEF InfoDyntab, InfoSegment, InfoSections
  <2>7. CASE InfoRela
    BY <2>2, <2>7, <1>15, RowsType DEF InfoRela
  <2> QED
    BY <1>16, <2>3, <2>4, <2>5, <2>6, <2>7
<1>17. CASE Quit
  <2>1. <<>> \in Seq(Addr) /\ <<>> \in Seq(Libraries \cup {Main})
    OBVIOUS
  <2>2. Len(prog.plt) \in Nat /\ Len(<<>>) = 0
    BY ProgFacts DEF TypeOK
  <2>3. TypeOK'
    BY <1>17, <2>1 DEF Quit, TypeOK
  <2>4. StagePart'
    BY <1>17, <2>2 DEF Quit, TypeOK, StagePart
  <2> QED
    BY <2>3, <2>4
<1>18. CASE UNCHANGED vars
  BY <1>18 DEF vars, TypeOK, StagePart
<1> QED
  BY <1>1, <1>2, <1>3, <1>4, <1>5, <1>6, <1>7, <1>8, <1>9, <1>10, <1>11, <1>12,
     <1>13, <1>14, <1>16, <1>17, <1>18 DEF Next

(* Spec => []TypeOK. *)
THEOREM LoaderTyped == Spec => []TypeOK
<1>1. StageInv => TypeOK
  BY DEF StageInv
<1> QED
  BY <1>1, InitStage, StageStep, PTL DEF Spec

-------------------------------------------------------------------------
(* A complete program is safe to look at. *)

LEMMA SafeStep == StageInv /\ SafePart /\ [Next]_vars => SafePart'
<1> SUFFICES ASSUME StageInv, SafePart, [Next]_vars PROVE SafePart'
  OBVIOUS
<1> USE DEF SafePart, CompleteIsSafe, slaveVars, elfVars
<1>1. prog \in Programs /\ Len(prog.plt) \in Nat
  BY ProgFacts DEF StageInv, TypeOK
<1>2. ASSUME Complete(prog) PROVE ~Overruns(prog) /\ Nchains(prog) = Len(prog.plt) + 1
  BY <1>1, <1>2, NchainsFits DEF Complete, Nchains
<1>3. ASSUME UNCHANGED <<prog, crash, elf, symtab>> PROVE SafePart'
  BY <1>3
<1>4. CASE \/ NoSlave("zero") \/ NoSlave("gone") \/ Exec \/ Refused \/ Link \/ Die
           \/ Stop \/ (\E l \in Libraries : DlOpen(l))
           \/ (\E i \in DOMAIN loaded : DlClose(i))
           \/ Resume \/ TakeStop \/ TakeExit \/ UNCHANGED vars
  <2>1. UNCHANGED <<prog, crash, elf, symtab>>
    BY <1>4 DEF NoSlave, Exec, Refused, Link, Die, Stop, DlOpen, DlClose, Resume,
                TakeStop, UpdateElf, TakeExit, vars
  <2> QED
    BY <1>3, <2>1
<1>5. CASE Load
  <2>1. prog' = prog /\ crash' = LoadCrash
    BY <1>5 DEF Load
  <2>2. Complete(prog) => LoadCrash = "none"
    BY <1>2 DEF LoadCrash, Complete, ElfFileShdr
  <2>3. Complete(prog) => symtab' = TRUE
    BY <1>5, <2>2 DEF Load, ElfFileSymtab, Complete
  <2> QED
    BY <2>1, <2>2, <2>3
<1>6. CASE ResumeNobody
  BY <1>6 DEF ResumeNobody, StageInv, StagePart
<1>7. ASSUME NEW rows, NEW fault, Prints(rows, fault), fault \in {"none", "noelf", "nosyms", "index"},
             Complete(prog) /\ elf => fault = "none"
      PROVE  SafePart'
  BY <1>7 DEF Prints, StageInv, StagePart
<1>8. elf => NoElf = "none"
  BY DEF NoElf
<1>9. NoElf \in {"none", "noelf"}
  BY DEF NoElf
<1>10. CASE InfoLinkmap \/ InfoDynsym \/ InfoDyntab \/ InfoSegment \/ InfoSections
  BY <1>7, <1>8, <1>9, <1>10
     DEF InfoLinkmap, InfoDynsym, InfoDyntab, InfoSegment, InfoSections
<1>11. CASE InfoSymtab
  BY <1>7, <1>8, <1>9, <1>11 DEF InfoSymtab
<1>12. CASE InfoRela
  <2> DEFINE beyond == \E i \in DOMAIN prog.plt : prog.plt[i] >= Nchains(prog)
  <2>1. Complete(prog) => ~beyond
    <3> SUFFICES ASSUME Complete(prog), NEW i \in DOMAIN prog.plt
                 PROVE  ~(prog.plt[i] >= Nchains(prog))
      OBVIOUS
    <3>1. prog.plt[i] \in Nat /\ prog.plt[i] <= Len(prog.plt)
      BY <1>1, ProgFacts DEF Complete
    <3> QED
      BY <1>1, <1>2, <3>1
  <2>2. Prints(RelaRows, IF elf /\ beyond THEN "index" ELSE NoElf)
    BY <1>12 DEF InfoRela
  <2> HIDE DEF beyond
  <2> QED
    BY <1>7, <1>8, <1>9, <2>1, <2>2
<1>13. CASE Quit
  BY <1>13 DEF Quit, StageInv, StagePart
<1> QED
  BY <1>4, <1>5, <1>6, <1>10, <1>11, <1>12, <1>13 DEF Next

(* No order of commands, stops and deaths makes the debugger follow a     *)
(* null pointer or leave an array over a complete program.                *)
THEOREM CompleteSafe == Spec => []CompleteIsSafe
<1>1. Init => SafePart
  BY DEF Init, SafePart, CompleteIsSafe
<1>2. SafePart => CompleteIsSafe
  BY DEF SafePart
<1> QED
  BY <1>1, <1>2, InitStage, StageStep, SafeStep, PTL DEF Spec

-------------------------------------------------------------------------
(* The link map and the imports. *)

(* The steps that leave the libraries, the map and the symbols alone. *)
Quiet ==
    \/ NoSlave("zero") \/ NoSlave("gone") \/ Exec \/ Refused \/ Die \/ Stop
    \/ Resume \/ ResumeNobody \/ TakeExit
    \/ InfoLinkmap \/ InfoDynsym \/ InfoSymtab \/ InfoDyntab
    \/ InfoSegment \/ InfoSections \/ InfoRela \/ UNCHANGED vars

LEMMA QuietKeeps ==
    ASSUME Quiet
    PROVE  UNCHANGED <<prog, linker, loaded, moved, elf, dynsym, linkMap, sha, linked>>
  BY DEF Quiet, NoSlave, Exec, Refused, Die, Stop, Resume, ResumeNobody, TakeExit,
         InfoLinkmap, InfoDynsym, InfoSymtab, InfoDyntab, InfoSegment, InfoSections,
         InfoRela, Prints, vars, slaveVars, elfVars

(* The steps that are not quiet. *)
LEMMA NextCases ==
    ASSUME [Next]_vars
    PROVE  \/ Quiet \/ Load \/ Link \/ TakeStop \/ Quit
           \/ \E l \in Libraries : DlOpen(l)
           \/ \E i \in DOMAIN loaded : DlClose(i)
  BY DEF Next, Quiet

(* What closing a library leaves: the part before it and the part behind. *)
LEMMA Spliced ==
    ASSUME NEW S, NEW s \in Seq(S), NEW i \in 1 .. Len(s),
           NEW a \in Seq(S), NEW b \in Seq(S), NEW t, t = a \o b,
           Len(a) = i - 1, \A k \in 1 .. i - 1 : a[k] = s[k],
           Len(b) = Len(s) - i, \A k \in 1 .. Len(s) - i : b[k] = s[k + i]
    PROVE  /\ t \in Seq(S) /\ DOMAIN t = 1 .. Len(s) - 1
           /\ \A k \in 1 .. i - 1 : t[k] = s[k]
           /\ \A k \in i .. Len(s) - 1 : t[k] = s[k + 1]
<1>1. /\ t \in Seq(S) /\ Len(t) = Len(a) + Len(b) /\ Len(s) \in Nat
      /\ DOMAIN t = 1 .. Len(t) /\ DOMAIN s = 1 .. Len(s)
      /\ \A k \in 1 .. Len(a) + Len(b) :
            t[k] = IF k <= Len(a) THEN a[k] ELSE b[k - Len(a)]
  <2>1. t \in Seq(S) /\ Len(t) = Len(a) + Len(b)
    BY ConcatProperties
  <2>2. \A k \in 1 .. Len(a) + Len(b) :
            t[k] = IF k <= Len(a) THEN a[k] ELSE b[k - Len(a)]
    BY ConcatProperties
  <2> QED
    BY <2>1, <2>2, LenProperties
<1>2. Len(t) = Len(s) - 1
  BY <1>1
<1>3. ASSUME NEW k \in 1 .. i - 1 PROVE t[k] = s[k]
  <2>1. k \in 1 .. Len(a) + Len(b) /\ k <= Len(a)
    BY <1>1
  <2>2. t[k] = a[k]
    BY <1>1, <2>1
  <2> QED
    BY <2>2
<1>4. ASSUME NEW k \in i .. Len(s) - 1 PROVE t[k] = s[k + 1]
  <2> DEFINE m == k - i + 1
  <2>1. m \in 1 .. Len(s) - i /\ m \in 1 .. Len(b) /\ k = Len(a) + m /\ m + i = k + 1
    BY <1>1
  <2> HIDE DEF m
  <2>2. t[k] = b[m]
    <3>1. k \in 1 .. Len(a) + Len(b) /\ ~(k <= Len(a)) /\ k - Len(a) = m
      BY <1>1, <2>1
    <3> QED
      BY <1>1, <3>1
  <2>3. b[m] = s[m + i]
    BY <2>1
  <2> QED
    BY <2>1, <2>2, <2>3
<1> QED
  BY <1>1, <1>2, <1>3, <1>4

LEMMA Closed ==
    ASSUME NEW S, NEW s \in Seq(S), NEW i \in 1 .. Len(s)
    PROVE  LET t == SubSeq(s, 1, i - 1) \o SubSeq(s, i + 1, Len(s)) IN
           /\ t \in Seq(S) /\ DOMAIN t = 1 .. Len(s) - 1
           /\ \A k \in 1 .. i - 1 : t[k] = s[k]
           /\ \A k \in i .. Len(s) - 1 : t[k] = s[k + 1]
           /\ \A k \in DOMAIN t : t[k] = s[k] \/ (k + 1 \in DOMAIN s /\ t[k] = s[k + 1])
<1> DEFINE a == SubSeq(s, 1, i - 1)
           b == SubSeq(s, i + 1, Len(s))
<1>1. a \in Seq(S) /\ Len(a) = i - 1 /\ \A k \in 1 .. i - 1 : a[k] = s[k]
  OBVIOUS
<1>2. b \in Seq(S) /\ Len(b) = Len(s) - i
  OBVIOUS
<1>3. \A k \in 1 .. Len(s) - i : b[k] = s[k + i]
  OBVIOUS
<1> DEFINE t == a \o b
<1> HIDE DEF a, b
<1>4. t = a \o b
  OBVIOUS
<1> HIDE DEF t
<1>5. /\ t \in Seq(S) /\ DOMAIN t = 1 .. Len(s) - 1
      /\ \A k \in 1 .. i - 1 : t[k] = s[k]
      /\ \A k \in i .. Len(s) - 1 : t[k] = s[k + 1]
  BY <1>1, <1>2, <1>3, <1>4, Spliced
<1>6. \A k \in DOMAIN t : t[k] = s[k] \/ (k + 1 \in DOMAIN s /\ t[k] = s[k + 1])
  <2> TAKE k \in DOMAIN t
  <2>1. k \in 1 .. i - 1 \/ (k \in i .. Len(s) - 1 /\ k + 1 \in DOMAIN s)
    BY <1>5
  <2> QED
    BY <1>5, <2>1
<1> QED
  BY <1>5, <1>6 DEF t, a, b

(* The map update_elf reads holds what the program needs behind its own   *)
(* entry, and every library there is.                                     *)
LEMMA MapRead ==
    ASSUME TypeOK, NeedsPart, linkMap = <<>>, Got
    PROVE  /\ ElfLinkmap # <<>> /\ DOMAIN ElfLinkmap = 1 .. Len(loaded) + 1
           /\ ElfLinkmap[1] = Main
           /\ \A k \in DOMAIN loaded :
                 k + 1 \in DOMAIN ElfLinkmap /\ ElfLinkmap[k + 1] = loaded[k]
<1>1. ElfLinkmap = <<Main>> \o loaded
  BY DEF ElfLinkmap
<1>2. loaded \in Seq(Libraries)
  BY DEF TypeOK
<1>3. /\ DOMAIN (<<Main>> \o loaded) = 1 .. Len(loaded) + 1
      /\ (<<Main>> \o loaded)[1] = Main
  BY <1>2
<1>4. \A k \in DOMAIN loaded : (<<Main>> \o loaded)[k + 1] = loaded[k]
  BY <1>2
<1>5. \A k \in DOMAIN loaded : k + 1 \in 1 .. Len(loaded) + 1
  BY <1>2
<1>6. <<Main>> \o loaded # <<>>
  BY <1>2
<1> QED
  BY <1>1, <1>3, <1>4, <1>5, <1>6

LEMMA NeedsStep == StageInv /\ NeedsPart /\ [Next]_vars => NeedsPart'
<1> SUFFICES ASSUME StageInv, NeedsPart, [Next]_vars PROVE NeedsPart'
  OBVIOUS
<1> USE DEF NeedsPart
<1>1. loaded \in Seq(Libraries) /\ prog.needs \in Seq(Libraries)
  BY ProgFacts DEF StageInv, TypeOK
<1>2. CASE Quiet
  BY <1>2, QuietKeeps
<1>3. CASE Load
  <2>1. elf' = TRUE \/ elf' = elf
    BY <1>3 DEF Load
  <2> QED
    BY <1>3, <2>1 DEF Load, slaveVars
<1>4. CASE Link
  BY <1>1, <1>4 DEF Link, elfVars
<1>5. CASE \E l \in Libraries : DlOpen(l)
  <2> PICK l \in Libraries : DlOpen(l)
    BY <1>5
  <2>1. loaded' = Append(loaded, l) /\ linker /\ UNCHANGED <<prog, linker, linkMap, elf>>
    BY DEF DlOpen, elfVars
  <2>2. \A k \in DOMAIN loaded : k \in DOMAIN loaded' /\ loaded'[k] = loaded[k]
    BY <1>1, <2>1
  <2> QED
    BY <2>1, <2>2
<1>6. CASE \E i \in DOMAIN loaded : DlClose(i)
  <2> PICK i \in DOMAIN loaded : DlClose(i)
    BY <1>6
  <2> DEFINE t == SubSeq(loaded, 1, i - 1) \o SubSeq(loaded, i + 1, Len(loaded))
  <2>1. /\ \A j \in DOMAIN prog.needs : prog.needs[j] # loaded[i]
        /\ loaded' = t /\ UNCHANGED <<prog, linker, linkMap, elf>>
    BY DEF DlClose, elfVars
  <2>2. i \in 1 .. Len(loaded) /\ Len(loaded) \in Nat
    BY <1>1
  <2>3. DOMAIN t = 1 .. Len(loaded) - 1 /\ \A k \in 1 .. i - 1 : t[k] = loaded[k]
    BY <1>1, <2>2, Closed
  <2> HIDE DEF t
  <2>4. linker /\ loaded # <<>>
    BY <2>2
  <2>5. ASSUME NEW k \in DOMAIN prog.needs PROVE k \in 1 .. i - 1
    <3>1. k \in 1 .. Len(prog.needs) /\ Len(prog.needs) \in Nat
      BY <1>1
    <3>2. ~(i <= k)
      <4> SUFFICES ASSUME i <= k PROVE FALSE
        OBVIOUS
      <4>1. i \in DOMAIN prog.needs
        BY <1>1, <2>2, <3>1
      <4> QED
        BY <2>1, <2>4, <4>1
    <3> QED
      BY <2>2, <3>1, <3>2
  <2>6. \A k \in 1 .. i - 1 : k \in 1 .. Len(loaded) - 1
    BY <2>2
  <2>7. \A k \in DOMAIN prog.needs : k \in DOMAIN t /\ t[k] = prog.needs[k]
    BY <2>3, <2>4, <2>5, <2>6
  <2> QED
    BY <2>1, <2>4, <2>7
<1>7. CASE TakeStop
  <2>1. /\ linkMap' = ElfLinkmap /\ UNCHANGED <<prog, linker, loaded, elf>>
        /\ mode = "stop"
    BY <1>7 DEF TakeStop, UpdateElf, slaveVars
  <2>2. elf
    BY <2>1 DEF StageInv, TypeOK
  <2>3. CASE linkMap = <<>> /\ Got
    <3>1. linker
      BY <2>3 DEF Got
    <3> QED
      BY <2>1, <2>2, <2>3, <3>1, MapRead DEF StageInv
  <2>4. CASE ~(linkMap = <<>> /\ Got)
    BY <2>1, <2>4 DEF ElfLinkmap
  <2> QED
    BY <2>3, <2>4
<1>8. CASE Quit
  BY <1>8 DEF Quit, slaveVars
<1> QED
  BY <1>2, <1>3, <1>4, <1>5, <1>6, <1>7, <1>8, NextCases

LEMMA MapStep == StageInv /\ NeedsPart /\ MapPart /\ [Next]_vars => MapPart'
<1> SUFFICES ASSUME StageInv, NeedsPart, MapPart, [Next]_vars PROVE MapPart'
  OBVIOUS
<1> USE DEF MapPart
<1>1. loaded \in Seq(Libraries)
  BY DEF StageInv, TypeOK
<1>2. ElfSha(linkMap)' = ElfSha(linkMap')
  BY DEF ElfSha, ElfShaNew
<1>3. CASE Quiet
  BY <1>2, <1>3, QuietKeeps
<1>4. CASE Load
  BY <1>2, <1>4 DEF Load, slaveVars
<1>5. CASE Link
  BY <1>5 DEF Link, elfVars, NeedsPart
<1>6. CASE \E l \in Libraries : DlOpen(l)
  <2> PICK l \in Libraries : DlOpen(l)
    BY <1>6
  <2>1. loaded' = Append(loaded, l) /\ UNCHANGED <<linkMap, sha>> /\ Moves(l)
    BY DEF DlOpen, elfVars
  <2>2. linkMap # <<>> => moved' = moved \cup {l}
    BY <2>1 DEF Moves
  <2>3. \A i \in DOMAIN loaded' : loaded'[i] = l \/ (i \in DOMAIN loaded /\ loaded'[i] = loaded[i])
    BY <1>1, <2>1
  <2> QED
    BY <1>2, <2>1, <2>2, <2>3
<1>7. CASE \E i \in DOMAIN loaded : DlClose(i)
  <2> PICK i \in DOMAIN loaded : DlClose(i)
    BY <1>7
  <2> DEFINE t == SubSeq(loaded, 1, i - 1) \o SubSeq(loaded, i + 1, Len(loaded))
  <2>1. loaded' = t /\ UNCHANGED <<linkMap, sha>> /\ Moves(loaded[i])
    BY DEF DlClose, elfVars
  <2>2. linkMap # <<>> => moved \subseteq moved'
    BY <2>1 DEF Moves
  <2>3. i \in 1 .. Len(loaded) /\ DOMAIN loaded = 1 .. Len(loaded) /\ Len(loaded) \in Nat
    BY <1>1
  <2>4. /\ DOMAIN t = 1 .. Len(loaded) - 1
        /\ \A k \in DOMAIN t : t[k] = loaded[k]
                                \/ (k + 1 \in DOMAIN loaded /\ t[k] = loaded[k + 1])
    BY <1>1, <2>3, Closed
  <2> HIDE DEF t
  <2>5. \A k \in DOMAIN t : \E m \in DOMAIN loaded : t[k] = loaded[m]
    BY <2>3, <2>4
  <2> QED
    BY <1>2, <2>1, <2>2, <2>5
<1>8. CASE TakeStop
  <2>1. /\ linkMap' = ElfLinkmap /\ UNCHANGED <<loaded, moved>>
        /\ sha' = IF linkMap = ElfLinkmap THEN sha ELSE ElfSha(ElfLinkmap)
    BY <1>8 DEF TakeStop, UpdateElf, slaveVars
  <2>2. CASE linkMap = <<>> /\ Got
    <3>1. sha' = ElfSha(linkMap')
      BY <2>1, <2>2, MapRead DEF StageInv
    <3>2. \A k \in DOMAIN loaded : \E j \in DOMAIN ElfLinkmap : ElfLinkmap[j] = loaded[k]
      BY <2>2, MapRead DEF StageInv
    <3> QED
      BY <1>2, <2>1, <3>1, <3>2
  <2>3. CASE ~(linkMap = <<>> /\ Got)
    BY <1>2, <2>1, <2>3 DEF ElfLinkmap
  <2> QED
    BY <2>2, <2>3
<1>9. CASE Quit
  BY <1>9 DEF Quit
<1> QED
  BY <1>3, <1>4, <1>5, <1>6, <1>7, <1>8, <1>9, NextCases

(* What update_elf does to the addresses. *)
LEMMA Imports ==
    ASSUME StageInv, TakeStop
    PROVE  /\ linkMap' = ElfLinkmap /\ UNCHANGED <<prog, slaveVars, elf>>
           /\ Len(dynsym') = Len(dynsym) /\ Len(dynsym) \in Nat
           /\ linked => UNCHANGED <<dynsym, linked>>
           /\ ~linked => /\ linked' = (dynsym' # dynsym)
                         /\ \A i \in 1 .. Len(dynsym) :
                               dynsym'[i] = IF dynsym[i] = Null
                                            THEN GetDynsym(ElfLinkmap, prog.syms[i].name)
                                            ELSE dynsym[i]
<1>1. dynsym \in Seq(Addr) /\ loaded \in Seq(Libraries)
  BY DEF StageInv, TypeOK
<1>2. /\ linkMap' = ElfLinkmap /\ UNCHANGED <<prog, slaveVars, elf>>
      /\ linked => UNCHANGED <<dynsym, linked>>
      /\ ~linked => dynsym' = Populated(ElfLinkmap) /\ linked' = (dynsym' # dynsym)
  BY DEF TakeStop, UpdateElf
<1> QED
  BY <1>1, <1>2, PopulatedType

LEMMA ImportStep == StageInv /\ NeedsPart /\ ImportPart /\ [Next]_vars => ImportPart'
<1> SUFFICES ASSUME StageInv, NeedsPart, ImportPart, [Next]_vars PROVE ImportPart'
  OBVIOUS
<1>1. /\ loaded \in Seq(Libraries) /\ prog \in Programs /\ dynsym \in Seq(Addr)
      /\ Len(dynsym) \in Nat
  BY DEF StageInv, TypeOK
<1>2. ASSUME UNCHANGED <<prog, dynsym, linkMap, linked>> PROVE ImportPart'
  BY <1>2 DEF ImportPart, Preset, Mentions
<1>3. CASE Quiet
  BY <1>2, <1>3, QuietKeeps
<1>4. CASE Load
  <2>1. linkMap = <<>> /\ linkMap' = linkMap /\ prog' = prog
    BY <1>4 DEF Load, StageInv, StagePart, NeedsPart
  <2>2. CASE LoadCrash = "none"
    <3>1. /\ Len(dynsym') = Len(prog.plt)
          /\ \A i \in 1 .. Len(prog.plt) :
                dynsym'[i] = IF prog.syms[i].own THEN At(Main, 1) ELSE Null
          /\ linked' = (\E i \in 1 .. Len(prog.plt) : prog.syms[i].own)
      BY <1>4, <2>2, LoadDynsym DEF StageInv
    <3> QED
      BY <2>1, <3>1 DEF ImportPart, Preset
  <2>3. CASE LoadCrash # "none"
    BY <1>2, <1>4, <2>1, <2>3 DEF Load
  <2> QED
    BY <2>2, <2>3
<1>5. CASE Link
  BY <1>2, <1>5 DEF Link, elfVars
<1>6. CASE (\E l \in Libraries : DlOpen(l)) \/ (\E i \in DOMAIN loaded : DlClose(i))
  BY <1>2, <1>6 DEF DlOpen, DlClose, elfVars
<1>7. CASE TakeStop
  <2>1. /\ linkMap' = ElfLinkmap /\ prog' = prog
        /\ Len(dynsym') = Len(dynsym)
        /\ linked => UNCHANGED <<dynsym, linked>>
        /\ ~linked => /\ linked' = (dynsym' # dynsym)
                      /\ \A i \in 1 .. Len(dynsym) :
                            dynsym'[i] = IF dynsym[i] = Null
                                         THEN GetDynsym(ElfLinkmap, prog.syms[i].name)
                                         ELSE dynsym[i]
    BY <1>7, Imports
  <2>2. Preset' <=> Preset
    BY <2>1 DEF Preset
  <2>3. linkMap # <<>> => ElfLinkmap = linkMap
    BY DEF ElfLinkmap
  <2>4. CASE linked
    BY <2>1, <2>2, <2>3, <2>4 DEF ImportPart, Mentions
  <2>5. CASE ~linked
    <3>1. ASSUME ElfLinkmap = <<>>
          PROVE  linkMap = <<>> /\ \A i \in 1 .. Len(dynsym) : dynsym'[i] = dynsym[i]
      <4>1. linkMap = <<>>
        BY <2>3, <3>1
      <4>2. \A n : GetDynsym(ElfLinkmap, n) = Null
        BY <3>1, GetDynsymNone
      <4> QED
        BY <2>1, <2>5, <4>1, <4>2
    <3>2. ElfLinkmap = <<>> => dynsym' = dynsym
      <4>1. dynsym' \in Seq(Addr)
        BY StageStep DEF StageInv, TypeOK
      <4> QED
        BY <1>1, <2>1, <3>1, <4>1
    <3>3. ASSUME ElfLinkmap # <<>>, ~Preset, NEW i \in 1 .. Len(dynsym),
                 NEW j \in DOMAIN ElfLinkmap, Mentions(ElfLinkmap[j], prog.syms[i].name)
          PROVE  dynsym'[i] # Null
      <4> DEFINE n == prog.syms[i].name
      <4>1. CASE linkMap # <<>>
        <5>1. dynsym[i] # Null
          BY <2>3, <3>3, <4>1 DEF ImportPart
        <5> QED
          BY <2>1, <2>5, <5>1
      <4>2. CASE linkMap = <<>>
        <5>1. Got
          BY <3>3, <4>2 DEF ElfLinkmap
        <5>2. ElfLinkmap[j] \in Libraries
          BY <3>3, LibraryAssumption DEF Mentions
        <5>3. \E k \in DOMAIN loaded : loaded[k] = ElfLinkmap[j]
          <6>1. /\ DOMAIN ElfLinkmap = 1 .. Len(loaded) + 1 /\ ElfLinkmap[1] = Main
                /\ \A k \in DOMAIN loaded : ElfLinkmap[k + 1] = loaded[k]
            BY <4>2, <5>1, MapRead DEF StageInv
          <6>2. j # 1
            BY <5>2, <6>1, LibraryAssumption
          <6>3. j - 1 \in DOMAIN loaded /\ j - 1 + 1 = j
            BY <1>1, <6>1, <6>2
          <6> QED
            BY <6>1, <6>3
        <5>4. ElfDynsymAddr(ElfLinkmap[j], n) # Null
          <6>1. slave = "alive"
            BY <5>1 DEF Got
          <6>2. ElfDynsymAddr(ElfLinkmap[j], n) = LastAddr(ElfLinkmap[j], n)
            BY <1>1, <3>3, <5>3, <6>1, ElfDynsymAddrType
          <6>3. Places(ElfLinkmap[j], n) # {}
            BY <3>3 DEF Mentions
          <6> QED
            BY <5>2, <6>2, <6>3, LastAddrType
        <5>5. ElfLinkmap \in Seq(Libraries \cup {Main})
          BY ElfLinkmapType DEF StageInv
        <5>6. GetDynsym(ElfLinkmap, n) # Null
          BY <3>3, <5>4, <5>5, GetDynsymFinds
        <5> QED
          BY <2>1, <2>5, <5>6
      <4> QED
        BY <4>1, <4>2
    <3> QED
      BY <2>1, <2>2, <2>5, <3>1, <3>2, <3>3 DEF ImportPart, Mentions
  <2> QED
    BY <2>4, <2>5
<1>8. CASE Quit
  BY <1>8 DEF Quit, ImportPart, Preset
<1> QED
  BY <1>3, <1>4, <1>5, <1>6, <1>7, <1>8, NextCases

LEMMA PromptStep == StageInv /\ PromptPart /\ [Next]_vars => PromptPart'
<1> SUFFICES ASSUME StageInv, PromptPart, [Next]_vars PROVE PromptPart'
  OBVIOUS
<1> USE DEF PromptPart
<1>1. \/ UNCHANGED <<linkMap, elf>> /\ (mode' = "prompt" => ~elf)
      \/ UNCHANGED <<linkMap, elf>> /\ mode = "prompt" /\ (Got' => Got)
      \/ mode' # "prompt" \/ ~Got'
  => PromptPart'
  OBVIOUS
<1>2. CASE NoSlave("zero") \/ NoSlave("gone") \/ Refused
  BY <1>1, <1>2 DEF NoSlave, Refused, elfVars, StageInv, StagePart
<1>3. CASE Exec \/ Load \/ Link \/ Stop \/ Quit
           \/ (\E l \in Libraries : DlOpen(l)) \/ (\E i \in DOMAIN loaded : DlClose(i))
  BY <1>1, <1>3 DEF Exec, Load, Link, Stop, Quit, DlOpen, DlClose, Running
<1>4. CASE Die \/ TakeExit
  BY <1>1, <1>4 DEF Die, TakeExit, Got, slaveVars
<1>5. CASE Resume \/ ResumeNobody
  BY <1>1, <1>5 DEF Resume, ResumeNobody, Got, slaveVars, elfVars
<1>6. CASE TakeStop
  <2>1. linkMap' = ElfLinkmap /\ UNCHANGED <<prog, loaded, linker, slave, elf>>
    BY <1>6 DEF TakeStop, UpdateElf, slaveVars
  <2>2. Got' => Got
    BY <2>1 DEF Got
  <2>3. Got => ElfLinkmap # <<>>
    <3>1. loaded \in Seq(Libraries)
      BY DEF StageInv, TypeOK
    <3>2. <<Main>> \o loaded # <<>>
      BY <3>1
    <3> QED
      BY <3>2 DEF ElfLinkmap
  <2> QED
    BY <2>1, <2>2, <2>3
<1>7. ASSUME NEW rows, NEW fault, Prints(rows, fault) PROVE PromptPart'
  BY <1>1, <1>7 DEF Prints, Got, slaveVars, elfVars
<1>8. CASE InfoLinkmap \/ InfoDynsym \/ InfoSymtab \/ InfoDyntab
           \/ InfoSegment \/ InfoSections \/ InfoRela
  BY <1>7, <1>8 DEF InfoLinkmap, InfoDynsym, InfoSymtab, InfoDyntab, InfoSegment,
                    InfoSections, InfoRela
<1>9. CASE UNCHANGED vars
  BY <1>1, <1>9 DEF vars, Got, slaveVars, elfVars
<1> QED
  BY <1>2, <1>3, <1>4, <1>5, <1>6, <1>8, <1>9 DEF Next

LEMMA LinkImplies == LinkInv => PromptSeesLinks
<1> SUFFICES ASSUME LinkInv, mode = "prompt" /\ elf /\ Got
             PROVE  /\ linkMap # <<>>
                    /\ \A i \in DOMAIN loaded :
                          loaded[i] \in Openable \ moved => loaded[i] \in sha
                    /\ ~Preset => \A i \in 1 .. Len(dynsym), j \in DOMAIN linkMap :
                          ElfDynsymAddr(linkMap[j], prog.syms[i].name) # Null
                              => dynsym[i] # Null
  BY DEF PromptSeesLinks
<1>1. linkMap # <<>>
  BY DEF LinkInv, PromptPart
<1>2. \A i \in DOMAIN loaded : loaded[i] \in Openable \ moved => loaded[i] \in sha
  BY <1>1 DEF LinkInv, MapPart, ElfSha, ElfShaNew
<1>3. loaded \in Seq(Libraries)
  BY DEF LinkInv, StageInv, TypeOK
<1>4. ASSUME ~Preset, NEW i \in 1 .. Len(dynsym), NEW j \in DOMAIN linkMap,
             ElfDynsymAddr(linkMap[j], prog.syms[i].name) # Null
      PROVE  dynsym[i] # Null
  <2>1. Mentions(linkMap[j], prog.syms[i].name)
    BY <1>3, <1>4, ElfDynsymAddrType
  <2> QED
    BY <1>1, <1>4, <2>1 DEF LinkInv, ImportPart
<1> QED
  BY <1>1, <1>2, <1>4

LEMMA InitLink == Init => LinkInv
<1>1. Init => NeedsPart /\ MapPart /\ PromptPart
  BY DEF Init, NeedsPart, MapPart, PromptPart
<1>2. Init => ImportPart
  BY DEF Init, ImportPart
<1> QED
  BY <1>1, <1>2, InitStage DEF LinkInv

LEMMA LinkStep == LinkInv /\ [Next]_vars => LinkInv'
  BY StageStep, NeedsStep, MapStep, ImportStep, PromptStep DEF LinkInv

(* When the prompt comes back with a slave whose dynamic linker has left  *)
(* the link map's address in the GOT, which takes a program that binds    *)
(* lazily, the map and the files to search are there, and the imports     *)
(* unless a symbol had a value in the file.                               *)
THEOREM PromptLinks == Spec => []PromptSeesLinks
  BY InitLink, LinkStep, LinkImplies, PTL DEF Spec

-------------------------------------------------------------------------
(* The address of an import is the one the program is bound to. *)

LEMMA ShowsStep == LinkInv /\ ShowsBindings /\ [Next]_vars => ShowsBindings'
<1> SUFFICES ASSUME LinkInv, ShowsBindings, [Next]_vars PROVE ShowsBindings'
  OBVIOUS
<1>1. /\ loaded \in Seq(Libraries) /\ prog \in Programs /\ dynsym \in Seq(Addr)
      /\ prog.needs \in Seq(Libraries) /\ Len(dynsym) \in Nat
  BY ProgFacts DEF LinkInv, StageInv, TypeOK
<1>2. ASSUME UNCHANGED <<prog, dynsym>> PROVE ShowsBindings'
  BY <1>2 DEF ShowsBindings
<1>3. CASE Quiet
  BY <1>2, <1>3, QuietKeeps
<1>4. CASE Load
  <2>1. prog' = prog
    BY <1>4 DEF Load
  <2>2. CASE LoadCrash = "none"
    <3>1. /\ Len(dynsym') = Len(prog.plt)
          /\ \A i \in 1 .. Len(prog.plt) :
                dynsym'[i] = IF prog.syms[i].own THEN At(Main, 1) ELSE Null
      BY <1>4, <2>2, LoadDynsym DEF LinkInv, StageInv
    <3> QED
      BY <2>1, <3>1 DEF ShowsBindings
  <2>3. CASE LoadCrash # "none"
    BY <1>2, <1>4, <2>1, <2>3 DEF Load
  <2> QED
    BY <2>2, <2>3
<1>5. CASE Link
  BY <1>2, <1>5 DEF Link, elfVars
<1>6. CASE (\E l \in Libraries : DlOpen(l)) \/ (\E i \in DOMAIN loaded : DlClose(i))
  BY <1>2, <1>6 DEF DlOpen, DlClose, elfVars
<1>7. CASE TakeStop
  <2>1. /\ linkMap' = ElfLinkmap /\ prog' = prog
        /\ Len(dynsym') = Len(dynsym)
        /\ linked => dynsym' = dynsym
        /\ ~linked => \A i \in 1 .. Len(dynsym) :
                         dynsym'[i] = IF dynsym[i] = Null
                                      THEN GetDynsym(ElfLinkmap, prog.syms[i].name)
                                      ELSE dynsym[i]
    BY <1>7, Imports DEF LinkInv
  <2>2. CASE linked
    BY <1>2, <2>1, <2>2
  <2>3. ASSUME ~linked, NEW i \in 1 .. Len(dynsym), NEW j \in DOMAIN prog.needs,
               dynsym[i] = Null, GetDynsym(ElfLinkmap, prog.syms[i].name) # Null,
               Places(prog.needs[j], prog.syms[i].name) # {}, prog.needs[j] \in Hashed,
               \A k \in 1 .. j - 1 : Places(prog.needs[k], prog.syms[i].name) = {}
        PROVE  GetDynsym(ElfLinkmap, prog.syms[i].name)
                   = LastAddr(prog.needs[j], prog.syms[i].name)
    <3> DEFINE n == prog.syms[i].name
               map == ElfLinkmap
               l == prog.needs[j]
    <3>1. map # <<>> /\ map \in Seq(Libraries \cup {Main}) /\ map[1] = Main
      <4>1. map # <<>>
        BY <2>3, GetDynsymNone
      <4> QED
        BY <4>1, ElfLinkmapType DEF LinkInv, StageInv
    <3>2. \A k \in DOMAIN prog.needs : k + 1 \in DOMAIN map /\ map[k + 1] = prog.needs[k]
      <4>1. linkMap' # <<>> /\ NeedsPart'
        BY <2>1, <3>1, LinkStep DEF LinkInv
      <4> QED
        BY <2>1, <4>1 DEF NeedsPart
    <3>3. linker /\ (\E k \in DOMAIN loaded : loaded[k] = l)
      <4>1. linker
        BY <3>1 DEF ElfLinkmap, Got, LinkInv, NeedsPart
      <4> QED
        BY <4>1 DEF LinkInv, NeedsPart
    <3>4. slave = "alive"
      BY <2>3, GetDynsymNone, AddrType DEF ElfDynsymAddr, ElfShaTables
    <3>5. l \in Libraries /\ Mentions(l, n)
      BY <1>1, <2>3 DEF Mentions
    <3>6. ElfDynsymAddr(map[j + 1], n) = LastAddr(l, n) /\ LastAddr(l, n) # Null
      BY <1>1, <2>3, <3>2, <3>3, <3>4, <3>5, ElfDynsymAddrType, LastAddrType
    <3>7. ASSUME NEW k \in 1 .. j PROVE ElfDynsymAddr(map[k], n) = Null
      <4>1. CASE k = 1
        BY <1>1, <3>1, <4>1, ElfDynsymAddrType, LibraryAssumption
      <4>2. CASE k # 1
        <5>1. k - 1 \in 1 .. j - 1 /\ k - 1 \in DOMAIN prog.needs /\ k - 1 + 1 = k
          BY <1>1, <4>2
        <5>2. map[k] = prog.needs[k - 1]
          BY <3>2, <5>1
        <5>3. ~Mentions(map[k], n)
          BY <2>3, <5>1, <5>2 DEF Mentions
        <5> QED
          BY <1>1, <5>3, ElfDynsymAddrType
      <4> QED
        BY <4>1, <4>2
    <3>8. j + 1 \in DOMAIN map
      BY <3>2
    <3>9. GetDynsym(map, n) = LastAddr(l, n)
      <4> DEFINE i1 == j + 1
      <4>1. /\ map \in Seq(Libraries \cup {Main}) /\ i1 \in DOMAIN map
            /\ ElfDynsymAddr(map[i1], n) # Null
        BY <3>1, <3>6, <3>8
      <4>2. \A k \in 1 .. i1 - 1 : ElfDynsymAddr(map[k], n) = Null
        <5>1. 1 .. i1 - 1 = 1 .. j
          BY <1>1
        <5> HIDE DEF map, n, l, i1
        <5> QED
          BY <5>1, <3>7, Zenon
      <4>3. ElfDynsymAddr(map[i1], n) = LastAddr(l, n)
        BY <3>6
      <4> HIDE DEF map, n, l, i1
      <4>4. GetDynsym(map, n) = ElfDynsymAddr(map[i1], n)
        BY <4>1, <4>2, GetDynsymFirst
      <4> QED
        BY <4>3, <4>4
    <3> QED
      BY <3>9
  <2>4. CASE ~linked
    <3> SUFFICES ASSUME NEW i \in 1 .. Len(dynsym), NEW j \in DOMAIN prog.needs,
                        dynsym'[i] # Null, ~prog.syms[i].own,
                        Defines(prog.needs[j], prog.syms[i].name),
                        prog.needs[j] \in Hashed,
                        \A k \in 1 .. j - 1 : Places(prog.needs[k], prog.syms[i].name) = {}
                 PROVE  IsLastOf(prog.needs[j], prog.syms[i].name, dynsym'[i])
      BY <2>1 DEF ShowsBindings
    <3>1. CASE dynsym[i] = Null
      <4> DEFINE n == prog.syms[i].name
                 l == prog.needs[j]
      <4>1. Places(l, n) # {} /\ l \in Libraries
        BY <1>1 DEF Defines
      <4>2. dynsym'[i] = LastAddr(l, n)
        BY <2>1, <2>3, <2>4, <3>1, <4>1
      <4> QED
        BY <4>1, <4>2, LastPlaceIs DEF LastAddr, IsLastOf
    <3>2. CASE dynsym[i] # Null
      BY <2>1, <2>4, <3>2 DEF ShowsBindings
    <3> QED
      BY <3>1, <3>2
  <2> QED
    BY <2>2, <2>4
<1>8. CASE Quit
  BY <1>8 DEF Quit, ShowsBindings
<1> QED
  BY <1>3, <1>4, <1>5, <1>6, <1>7, <1>8, NextCases

(* The address shown for an import is that of the last entry of its name  *)
(* in the first library, of those the program needs, that mentions it.    *)
THEOREM Bindings == Spec => []ShowsBindings
<1>1. Init => ShowsBindings
  BY DEF Init, ShowsBindings
<1> QED
  BY <1>1, InitLink, LinkStep, ShowsStep, PTL DEF Spec

-------------------------------------------------------------------------
(* The rows of il and the libraries that are mapped. *)

(* The places of a list where it has something outside M. *)
Kept(M, u) == {i \in DOMAIN u : u[i] \notin M}

(* f shows that s and t are the same outside M. *)
Matches(f, M, s, t) ==
    /\ f \in [Kept(M, s) -> Kept(M, t)]
    /\ \A j \in Kept(M, t) : \E i \in Kept(M, s) : f[i] = j
    /\ \A i, j \in Kept(M, s) : i < j => f[i] < f[j]
    /\ \A i \in Kept(M, s) : t[f[i]] = s[i]

LEMMA SameIs ==
    ASSUME NEW M, NEW s, NEW t
    PROVE  SameOutside(M, s, t) <=> \E f : Matches(f, M, s, t)
  BY DEF SameOutside, Matches, Kept, Surjection

(* A list is the same as itself. *)
LEMMA SameSelf ==
    ASSUME NEW M, NEW s
    PROVE  SameOutside(M, s, s)
<1> DEFINE f == [i \in Kept(M, s) |-> i]
<1>1. Matches(f, M, s, s)
  BY DEF Matches
<1> QED
  BY <1>1, SameIs

(* Lists that are the same outside M are so outside a larger set. *)
LEMMA SameOutsideMore ==
    ASSUME NEW M, NEW N, M \subseteq N, NEW s, NEW t, SameOutside(M, s, t)
    PROVE  SameOutside(N, s, t)
<1>1. PICK f : Matches(f, M, s, t)
  BY SameIs
<1> DEFINE g == [i \in Kept(N, s) |-> f[i]]
<1>2. Kept(N, s) \subseteq Kept(M, s) /\ Kept(N, t) \subseteq Kept(M, t)
  BY DEF Kept
<1>3. \A i \in Kept(N, s) : f[i] \in Kept(N, t)
  BY <1>1, <1>2 DEF Matches, Kept
<1>4. \A j \in Kept(N, t) : \E i \in Kept(N, s) : f[i] = j
  BY <1>1, <1>2 DEF Matches, Kept
<1>5. Matches(g, N, s, t)
  BY <1>1, <1>2, <1>3, <1>4 DEF Matches
<1> QED
  BY <1>5, SameIs

(* What dlopen appends is outside the comparison, ... *)
LEMMA SameOpened ==
    ASSUME NEW M, NEW s, NEW S, NEW t \in Seq(S), NEW l \in S, l \in M,
           SameOutside(M, s, t)
    PROVE  SameOutside(M, s, Append(t, l))
<1> DEFINE u == Append(t, l)
<1>1. PICK f : Matches(f, M, s, t)
  BY SameIs
<1>2. /\ DOMAIN t = 1 .. Len(t) /\ Len(t) \in Nat
      /\ DOMAIN u = 1 .. Len(t) + 1 /\ u[Len(t) + 1] = l
      /\ \A k \in DOMAIN t : u[k] = t[k]
  OBVIOUS
<1> HIDE DEF u
<1>3. \A k \in DOMAIN u : k \in DOMAIN t \/ k = Len(t) + 1
  BY <1>2
<1>4. \A k \in DOMAIN t : k \in DOMAIN u
  BY <1>2
<1>5. Kept(M, u) = Kept(M, t) /\ \A k \in Kept(M, t) : u[k] = t[k]
  BY <1>2, <1>3, <1>4 DEF Kept
<1>6. Matches(f, M, s, u)
  BY <1>1, <1>5 DEF Matches
<1> QED
  BY <1>6, SameIs DEF u

(* ... and so is what dlclose takes out. *)
LEMMA SameClosed ==
    ASSUME NEW M, NEW s, NEW S, NEW t \in Seq(S), NEW k \in 1 .. Len(t),
           t[k] \in M, SameOutside(M, s, t)
    PROVE  SameOutside(M, s, SubSeq(t, 1, k - 1) \o SubSeq(t, k + 1, Len(t)))
<1> DEFINE u == SubSeq(t, 1, k - 1) \o SubSeq(t, k + 1, Len(t))
           was(i) == IF i < k THEN i ELSE i + 1
           now(j) == IF j < k THEN j ELSE j - 1
<1>1. PICK f : Matches(f, M, s, t)
  BY SameIs
<1>2. /\ DOMAIN u = 1 .. Len(t) - 1
      /\ \A i \in 1 .. k - 1 : u[i] = t[i]
      /\ \A i \in k .. Len(t) - 1 : u[i] = t[i + 1]
  BY Closed
<1>3. DOMAIN t = 1 .. Len(t) /\ Len(t) \in Nat
  OBVIOUS
<1> HIDE DEF u
<1>4. \A i \in DOMAIN u : /\ u[i] = t[was(i)] /\ was(i) \in DOMAIN t
                          /\ now(was(i)) = i /\ was(i) # k
  <2> TAKE i \in DOMAIN u
  <2>1. CASE i < k
    <3>1. i \in 1 .. k - 1 /\ i \in 1 .. Len(t)
      BY <1>2, <1>3, <2>1
    <3> QED
      BY <1>2, <1>3, <2>1, <3>1
  <2>2. CASE ~(i < k)
    <3>1. /\ i \in k .. Len(t) - 1 /\ i + 1 \in 1 .. Len(t)
          /\ ~(i + 1 < k) /\ (i + 1) - 1 = i /\ i + 1 # k
      BY <1>2, <1>3, <2>2
    <3> QED
      BY <1>2, <1>3, <2>2, <3>1
  <2> QED
    BY <2>1, <2>2
<1>5. \A j \in DOMAIN t : j # k => now(j) \in DOMAIN u /\ was(now(j)) = j
  BY <1>2, <1>3
<1>6. \A i, j \in DOMAIN t : i < j /\ i # k /\ j # k => now(i) < now(j)
  BY <1>2, <1>3
<1> HIDE DEF was, now
<1>7. \A i \in Kept(M, u) : was(i) \in Kept(M, t) /\ now(was(i)) = i
  BY <1>4 DEF Kept
<1>8. \A j \in Kept(M, t) : j \in DOMAIN t /\ j # k
  BY DEF Kept
<1>9. \A j \in Kept(M, t) : now(j) \in Kept(M, u) /\ u[now(j)] = t[j]
  <2> TAKE j \in Kept(M, t)
  <2>1. now(j) \in DOMAIN u /\ was(now(j)) = j
    BY <1>5, <1>8
  <2>2. u[now(j)] = t[j]
    BY <1>4, <2>1
  <2>3. t[j] \notin M
    BY DEF Kept
  <2> QED
    BY <2>1, <2>2, <2>3 DEF Kept
<1> DEFINE g == [i \in Kept(M, s) |-> now(f[i])]
<1>10. \A i \in Kept(M, s) : f[i] \in Kept(M, t) /\ t[f[i]] = s[i]
  BY <1>1 DEF Matches
<1>11. \A j \in Kept(M, u) : \E i \in Kept(M, s) : now(f[i]) = j
  <2> TAKE j \in Kept(M, u)
  <2>1. was(j) \in Kept(M, t) /\ now(was(j)) = j
    BY <1>7
  <2>2. PICK i \in Kept(M, s) : f[i] = was(j)
    BY <1>1, <2>1 DEF Matches
  <2> QED
    BY <2>1, <2>2
<1>12. \A i, j \in Kept(M, s) : i < j => now(f[i]) < now(f[j])
  <2> TAKE i, j \in Kept(M, s)
  <2> HAVE i < j
  <2>1. f[i] < f[j]
    BY <1>1 DEF Matches
  <2> QED
    BY <1>6, <1>8, <1>10, <2>1
<1>13. \A i \in Kept(M, s) : now(f[i]) \in Kept(M, u) /\ u[now(f[i])] = s[i]
  BY <1>9, <1>10
<1>14. Matches(g, M, s, u)
  BY <1>11, <1>12, <1>13 DEF Matches
<1> QED
  BY <1>14, SameIs DEF u

(* The names il shows: the map's but for the program's own. *)
Shown(map) == [i \in 1 .. Len(map) - 1 |-> map[i + 1]]

LEMMA RowNames ==
    ASSUME TypeOK
    PROVE  ListsLoaded <=>
              (linkMap # <<>> => SameOutside(moved, Shown(linkMap), loaded))
<1> DEFINE names == [i \in 1 .. Len(LinkmapRows) |-> LinkmapRows[i].name]
<1>1. linkMap \in Seq(Libraries \cup {Main}) /\ Len(linkMap) \in Nat
  BY DEF TypeOK
<1>2. linkMap # <<>> => Len(linkMap) - 1 \in Nat
  BY <1>1
<1>3. linkMap # <<>> => Len(LinkmapRows) = Len(linkMap) - 1
  BY <1>2, RowsAreSeq DEF LinkmapRows
<1>4. linkMap # <<>> => names = Shown(linkMap)
  BY <1>3 DEF LinkmapRows, Shown
<1> HIDE DEF names
<1>5. ListsLoaded <=> (linkMap # <<>> => SameOutside(moved, names, loaded))
  BY DEF ListsLoaded, names
<1> QED
  BY <1>4, <1>5

LEMMA ListsStep ==
    LinkInv /\ ListsLoaded /\ [Next]_vars => ListsLoaded'
<1> SUFFICES ASSUME LinkInv, ListsLoaded, [Next]_vars PROVE ListsLoaded'
  OBVIOUS
<1>0. TypeOK'
  BY StageStep DEF LinkInv, StageInv
<1> SUFFICES ASSUME linkMap' # <<>>
             PROVE  SameOutside(moved', Shown(linkMap'), loaded')
  <2>1. (TypeOK => (ListsLoaded <=>
            (linkMap # <<>> => SameOutside(moved, Shown(linkMap), loaded))))'
    BY RowNames, PTL
  <2>2. /\ SameOutside(moved, Shown(linkMap), loaded)' = SameOutside(moved', Shown(linkMap'), loaded')
        /\ (linkMap # <<>>)' = (linkMap' # <<>>)
    BY DEF Shown
  <2> QED
    BY <1>0, <2>1, <2>2
<1>1. TypeOK /\ loaded \in Seq(Libraries)
  BY DEF LinkInv, StageInv, TypeOK
<1>2. linkMap # <<>> => SameOutside(moved, Shown(linkMap), loaded)
  BY <1>1, RowNames
<1>3. CASE Quiet
  BY <1>2, <1>3, QuietKeeps
<1>4. CASE Load
  BY <1>2, <1>4 DEF Load, slaveVars
<1>5. CASE Link
  BY <1>5 DEF Link, elfVars, LinkInv, NeedsPart
<1>6. CASE \E l \in Libraries : DlOpen(l)
  <2> PICK l \in Libraries : DlOpen(l)
    BY <1>6
  <2>1. loaded' = Append(loaded, l) /\ UNCHANGED linkMap
    BY DEF DlOpen, elfVars
  <2>2. moved' = moved \cup {l}
    BY <2>1 DEF DlOpen, Moves
  <2>3. SameOutside(moved \cup {l}, Shown(linkMap), loaded)
    BY <1>2, <2>1, SameOutsideMore
  <2> QED
    BY <1>1, <2>1, <2>2, <2>3, SameOpened
<1>7. CASE \E i \in DOMAIN loaded : DlClose(i)
  <2> PICK i \in DOMAIN loaded : DlClose(i)
    BY <1>7
  <2>1. /\ loaded' = SubSeq(loaded, 1, i - 1) \o SubSeq(loaded, i + 1, Len(loaded))
        /\ UNCHANGED linkMap
    BY DEF DlClose, elfVars
  <2>2. moved' = moved \cup {loaded[i]}
    BY <2>1 DEF DlClose, Moves
  <2>3. SameOutside(moved', Shown(linkMap), loaded)
    BY <1>2, <2>1, <2>2, SameOutsideMore
  <2>4. i \in 1 .. Len(loaded) /\ loaded[i] \in moved'
    BY <1>1, <2>2
  <2> QED
    BY <1>1, <2>1, <2>3, <2>4, SameClosed
<1>8. CASE TakeStop
  <2>1. linkMap' = ElfLinkmap /\ UNCHANGED <<loaded, moved>>
    BY <1>8 DEF TakeStop, UpdateElf, slaveVars
  <2>2. CASE linkMap = <<>> /\ Got
    <3>1. /\ DOMAIN ElfLinkmap = 1 .. Len(loaded) + 1
          /\ \A k \in DOMAIN loaded : ElfLinkmap[k + 1] = loaded[k]
      BY <1>1, <2>2, MapRead DEF LinkInv
    <3>2. Len(ElfLinkmap) - 1 = Len(loaded) /\ DOMAIN loaded = 1 .. Len(loaded)
      <4>1. ElfLinkmap = <<Main>> \o loaded
        BY <2>2 DEF ElfLinkmap
      <4>2. Len(<<Main>> \o loaded) = Len(loaded) + 1
        BY <1>1
      <4> QED
        BY <1>1, <4>1, <4>2
    <3>3. Shown(ElfLinkmap) = loaded
      <4> DEFINE n == Len(ElfLinkmap) - 1
      <4>1. Shown(ElfLinkmap) = [k \in 1 .. n |-> ElfLinkmap[k + 1]]
        BY DEF Shown
      <4> HIDE DEF n
      <4>2. 1 .. n = DOMAIN loaded
        BY <3>2 DEF n
      <4>3. Shown(ElfLinkmap) = [k \in DOMAIN loaded |-> loaded[k]]
        BY <3>1, <4>1, <4>2
      <4> QED
        BY <1>1, <4>3
    <3> QED
      BY <2>1, <3>3, SameSelf
  <2>3. CASE ~(linkMap = <<>> /\ Got)
    BY <1>2, <2>1, <2>3 DEF ElfLinkmap
  <2> QED
    BY <2>2, <2>3
<1>9. CASE Quit
  BY <1>9 DEF Quit
<1> QED
  BY <1>3, <1>4, <1>5, <1>6, <1>7, <1>8, <1>9, NextCases

(* il lists the libraries that are mapped, in their order, but for those  *)
(* that came or went since the map was read, whatever is opened and       *)
(* closed.                                                                *)
THEOREM ListsAreLoaded == Spec => []ListsLoaded
<1>1. Init => ListsLoaded
  BY DEF Init, ListsLoaded
<1> QED
  BY <1>1, InitLink, LinkStep, ListsStep, PTL DEF Spec
=========================================================================
