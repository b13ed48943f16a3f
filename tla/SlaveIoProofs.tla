-------------------------- MODULE SlaveIoProofs --------------------------
(* handle_pty implements SlaveWait, whatever the sizes of the buffers.    *)
EXTENDS SlaveIo, FiniteSetTheorems, TLAPS

(* The part of TypeOK the refinement needs: the shell has the terminal    *)
(* exactly when the last stop was waited for.                             *)
IdleInv ==
    /\ slave \in SlaveStates
    /\ mode = "idle" <=> slave = "waited"

LEMMA IdleInit == Init => IdleInv
  BY DEF Init, IdleInv, SlaveStates

LEMMA IdleNext == IdleInv /\ [Next]_vars => IdleInv'
  <1> SUFFICES ASSUME IdleInv, [Next]_vars PROVE IdleInv'
    OBVIOUS
  <1> USE DEF IdleInv, SlaveStates
  <1>1. CASE UNCHANGED vars
    BY <1>1 DEF vars
  <1>2. CASE Write \/ Read \/ WriteEnds \/ ReadEnds \/ Stop \/ Killed
    BY <1>2 DEF Write, Read, WriteEnds, ReadEnds, Stop, Killed, Blocked
  <1>3. CASE \E k \in Keys : Type(k)
    BY <1>3 DEF Type
  <1>4. CASE Interrupted \/ Select
    BY <1>4 DEF Interrupted, Select
  <1>5. CASE InputEot \/ InputInt \/ InputLine \/ InputText
    BY <1>5 DEF InputEot, InputInt, InputLine, InputText, AfterInput, Blocked
  <1>6. CASE Output \/ Poll \/ Wait
    BY <1>6 DEF Output, Poll, Wait
  <1>7. CASE Resume
    BY <1>7 DEF Resume
  <1> QED
    BY <1>1, <1>2, <1>3, <1>4, <1>5, <1>6, <1>7 DEF Next, HandlePty

(* Each step of the detailed specification is a step of SlaveWait or      *)
(* leaves the slave, as seen from there, alone.                           *)
LEMMA StepMaps == IdleInv /\ [Next]_vars => [WaitSide!Next]_seen
  <1> SUFFICES ASSUME IdleInv, [Next]_vars PROVE [WaitSide!Next]_seen
    OBVIOUS
  <1> USE DEF IdleInv, SlaveStates, Blocked, seen
  <1>1. CASE slave' = slave
    BY <1>1
  <1>2. CASE Write \/ Read \/ WriteEnds \/ ReadEnds
    BY <1>2 DEF Write, Read, WriteEnds, ReadEnds
  <1>3. CASE Stop \/ Killed
    BY <1>3 DEF Stop, Killed, WaitSide!Next, WaitSide!Stop
  <1>4. CASE InputInt
    BY <1>4 DEF InputInt, WaitSide!Next, WaitSide!Stop
  <1>5. CASE Poll \/ Wait
    BY <1>5 DEF Poll, Wait, WaitSide!Next, WaitSide!Return
  <1>6. CASE Resume
    BY <1>6 DEF Resume, WaitSide!Next, WaitSide!Resume
  <1>7. (\E k \in Keys : Type(k)) \/ Interrupted \/ Select \/ InputEot
          \/ InputLine \/ InputText \/ Output \/ UNCHANGED vars
        => slave' = slave
    BY DEF Type, Interrupted, Select, InputEot, InputLine, InputText,
           Output, vars
  <1> QED
    BY <1>1, <1>2, <1>3, <1>4, <1>5, <1>6, <1>7 DEF Next, HandlePty

(* handle_pty returns once for each stop of the slave and never before    *)
(* it: the command that resumed the slave goes on exactly when the slave  *)
(* has stopped and been waited for.                                       *)
THEOREM RefinesSlaveWait == Spec => IsSlaveWait
  <1>1. Init => WaitSide!Init
    BY DEF Init, WaitSide!Init, seen, Blocked
  <1>2. Spec => []IdleInv
    BY IdleInit, IdleNext, PTL DEF Spec
  <1> QED
    BY <1>1, <1>2, StepMaps, PTL DEF Spec, IsSlaveWait, WaitSide!Spec

(* The pty gets a line for each carriage return and one more. *)
LEMMA EntersType == ASSUME tty \in Seq(Keys) PROVE Enters \in Nat
  <1> DEFINE cr == {i \in 1 .. Len(tty) : tty[i] = "cr"}
  <1>1. IsFiniteSet(1 .. Len(tty)) /\ cr \subseteq 1 .. Len(tty)
    BY FS_Interval
  <1>2. IsFiniteSet(cr)
    BY <1>1, FS_Subset
  <1>3. Cardinality(cr) \in Nat
    BY <1>2, FS_CardinalityType
  <1>4. DOMAIN tty = 1 .. Len(tty)
    OBVIOUS
  <1>5. Enters = Cardinality(cr)
    BY <1>4, Zenon DEF Enters
  <1> QED
    BY <1>3, <1>5

(* What is written to the master never overfills the pty. *)
LEMMA EchoedType == ASSUME out \in 0 .. MaxOut, NEW n \in Nat
                    PROVE  Echoed(n) \in 0 .. MaxOut
  BY BoundAssumption DEF Echoed

(* The rest of TypeOK, part by part. *)
ModeTyped == mode \in Modes /\ ready \subseteq {"stdin", "fdm"}
FlagTyped == partial \in BOOLEAN
KeysTyped == tty \in Seq(Keys)
SizesTyped == out \in 0 .. MaxOut /\ lines \in Nat

LEMMA Parts == TypeOK <=> IdleInv /\ ModeTyped /\ FlagTyped /\ KeysTyped /\ SizesTyped
  BY DEF TypeOK, IdleInv, ModeTyped, FlagTyped, KeysTyped, SizesTyped

LEMMA ModeStep == ModeTyped /\ [Next]_vars => ModeTyped'
  <1> SUFFICES ASSUME ModeTyped, [Next]_vars PROVE ModeTyped'
    OBVIOUS
  <1> USE DEF ModeTyped, Modes
  <1>1. CASE UNCHANGED vars
    BY <1>1 DEF vars
  <1>2. CASE Write \/ Read \/ WriteEnds \/ ReadEnds \/ Stop \/ Killed
             \/ (\E k \in Keys : Type(k)) \/ Interrupted
    BY <1>2 DEF Write, Read, WriteEnds, ReadEnds, Stop, Killed, Type, Interrupted
  <1>3. CASE Select
    <2>1. mode' \in {"input", "output", "poll"}
      BY <1>3 DEF Select
    <2>2. ready' \subseteq {"stdin", "fdm"}
      BY <1>3 DEF Select
    <2> QED
      BY <2>1, <2>2
  <1>4. CASE InputEot \/ InputInt \/ InputLine \/ InputText
    BY <1>4 DEF InputEot, InputInt, InputLine, InputText, AfterInput
  <1>5. CASE Output \/ Poll \/ Wait \/ Resume
    BY <1>5 DEF Output, Poll, Wait, Resume
  <1> QED
    BY <1>1, <1>2, <1>3, <1>4, <1>5 DEF Next, HandlePty

LEMMA FlagStep == FlagTyped /\ [Next]_vars => FlagTyped'
  <1> SUFFICES ASSUME FlagTyped, [Next]_vars PROVE FlagTyped'
    OBVIOUS
  <1>1. partial' = partial \/ partial' = TRUE \/ partial' = FALSE
    BY Zenon DEF Next, HandlePty, vars, Write, Read, WriteEnds, ReadEnds, Stop, Killed,
        Type, Interrupted, Select, InputEot, InputInt, InputLine, InputText, Output,
        Poll, Wait, Resume
  <1> QED
    BY <1>1 DEF FlagTyped

LEMMA KeysStep == KeysTyped /\ [Next]_vars => KeysTyped'
  <1> SUFFICES ASSUME KeysTyped, [Next]_vars PROVE KeysTyped'
    OBVIOUS
  <1>1. tty' = tty \/ tty' = << >> \/ \E k \in Keys : tty' = Append(tty, k)
    BY Zenon DEF Next, HandlePty, vars, Write, Read, WriteEnds, ReadEnds, Stop, Killed,
        Type, Interrupted, Select, InputEot, InputInt, InputLine, InputText, Output,
        Poll, Wait, Resume
  <1>2. << >> \in Seq(Keys) /\ \A k \in Keys : Append(tty, k) \in Seq(Keys)
    BY DEF KeysTyped
  <1> HIDE DEF Keys
  <1>3. tty' \in Seq(Keys)
    BY <1>1, <1>2, Zenon DEF KeysTyped
  <1> QED
    BY <1>3 DEF KeysTyped

LEMMA SizesStep == KeysTyped /\ SizesTyped /\ [Next]_vars => SizesTyped'
  <1> SUFFICES ASSUME KeysTyped, SizesTyped, [Next]_vars PROVE SizesTyped'
    OBVIOUS
  <1> USE BoundAssumption DEF SizesTyped
  <1>1. Len(tty) \in Nat /\ Enters \in Nat
    BY EntersType DEF KeysTyped
  <1>2. /\ Echoed(1) \in 0 .. MaxOut /\ Echoed(Len(tty)) \in 0 .. MaxOut
        /\ Echoed(Len(tty) + 1) \in 0 .. MaxOut
    <2> DEFINE n == Len(tty)
    <2>1. n \in Nat /\ n + 1 \in Nat /\ out \in 0 .. MaxOut
      BY <1>1
    <2> HIDE DEF n
    <2>2. Echoed(1) \in 0 .. MaxOut /\ Echoed(n) \in 0 .. MaxOut
          /\ Echoed(n + 1) \in 0 .. MaxOut
      BY <2>1, EchoedType
    <2> QED
      BY <2>2 DEF n
  <1>3. CASE Write \/ Read \/ WriteEnds \/ ReadEnds
    BY <1>3 DEF Write, Read, WriteEnds, ReadEnds
  <1>4. CASE InputEot \/ InputLine \/ InputText
    BY <1>1, <1>2, <1>4 DEF InputEot, InputLine, InputText
  <1>5. CASE Output
    BY <1>5 DEF Output
  <1>6. CASE Stop \/ Killed \/ (\E k \in Keys : Type(k)) \/ Interrupted \/ Select
             \/ InputInt \/ Poll \/ Wait \/ Resume \/ UNCHANGED vars
    <2>1. out' = out /\ lines' = lines
      BY <1>6 DEF Stop, Killed, Type, Interrupted, Select, InputInt, Poll, Wait,
                  Resume, vars
    <2> QED
      BY <2>1
  <1> QED
    BY <1>3, <1>4, <1>5, <1>6 DEF Next, HandlePty

(* The pty is never overfilled, and the shell has the terminal exactly    *)
(* when the stop was waited for.                                          *)
THEOREM SlaveIoTyped == Spec => []TypeOK
  <1>1. Init => ModeTyped /\ FlagTyped
    BY DEF Init, ModeTyped, Modes, FlagTyped
  <1>2. Init => KeysTyped /\ SizesTyped
    BY BoundAssumption DEF Init, KeysTyped, SizesTyped
  <1> QED
    BY <1>1, <1>2, IdleInit, IdleNext, ModeStep, FlagStep, KeysStep, SizesStep, Parts,
       PTL DEF Spec

LEMMA HungStep == [Next]_vars => [Hung /\ ~Killed => Hung']_vars
  <1> SUFFICES ASSUME Next, Hung, ~Killed PROVE Hung'
    OBVIOUS
  <1> USE DEF Hung
  <1>1. CASE Write \/ Read \/ Stop \/ Interrupted \/ Resume
    BY <1>1 DEF Write, Read, Stop, Interrupted, Resume
  <1>2. CASE WriteEnds \/ ReadEnds
    BY <1>2, BoundAssumption DEF WriteEnds, ReadEnds
  <1>3. CASE \E k \in Keys : Type(k)
    BY <1>3 DEF Type
  <1>4. CASE HandlePty
    BY <1>4 DEF HandlePty, Select, InputEot, InputInt, InputLine, InputText,
                Output, Poll, Wait
  <1> QED
    BY <1>1, <1>2, <1>3, <1>4 DEF Next

(* Only a signal from a third process ends it when handle_pty waits for a *)
(* slave that waits for its terminal, whatever the sizes of the buffers.  *)
THEOREM HungForGood == Spec => HungStaysHung
  BY HungStep, PTL DEF Spec, HungStaysHung
==========================================================================
