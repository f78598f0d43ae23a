------------------------------ MODULE Interrupts ------------------------------
(***************************************************************************)
(* Interrupts (kernel/src/IDT.cpp, kernel/src/int): what the processor     *)
(* puts on the stack, what the stub of the vector and isrWrapper add to    *)
(* it, and how the interrupted code gets it back.  The stack is a sequence *)
(* of words, the last pushed at its end; a word is a pair of what it is    *)
(* and its value.  An interrupt may come while a handler runs.             *)
(*                                                                         *)
(* isrWrapper saves no register, and a handler that returns leaves its own *)
(* values in eax, ecx and edx: registers are not modelled.                 *)
(***************************************************************************)
EXTENDS Integers, Sequences

CONSTANTS
  Vectors,     \* of the 256
  Exceptions,  \* vectors that the interrupt flag does not hold back
  ErrorCodes,  \* ErrorCodes[v]: what the processor may push for v, {} for nothing
  Points,      \* places in the code
  MaxDepth     \* a bound on interrupts within interrupts

\* A processor of the kind that the kernel is for pushes an error code for seven of the
\* vectors; later ones have more, for what the kernel does not switch on.
ASSUME InterruptAssumption ==
  /\ Vectors \subseteq 0..255 /\ Exceptions \subseteq Vectors
  /\ ErrorCodes \in [Vectors -> SUBSET Nat]
  /\ \A v \in Vectors : ErrorCodes[v] # {} <=> v \in {8, 10, 11, 12, 13, 14, 17}
  /\ Points # {}
  /\ MaxDepth \in Nat

VARIABLES
  idt,       \* the gate of a vector
  intTable,  \* vectors that have a function
  cpu,       \* [eip, enabled, stack]
  taken,     \* history: the interrupts that have not returned, the last one last
  message    \* what intUndef has shown before the machine was stopped

intVars == <<idt, intTable, cpu, taken, message>>

\* setIDT: an interrupt gate, in the kernel's code segment, to the stub of the vector.
Gate(v) == [isr |-> v, selector |-> "code", type |-> "interrupt"]

\* initIDT, and a stack of which only the alignment matters.
IntInit ==
  /\ idt = [v \in Vectors |-> Gate(v)]
  /\ intTable = {}
  /\ \E at \in Points, depth \in 0..3, enabled \in BOOLEAN :
       cpu = [eip |-> <<"eip", at>>, enabled |-> enabled,
              stack |-> [i \in 1..depth |-> <<"word", 0>>]]
  /\ taken = <<>>
  /\ message = <<>>

Running == message = <<>>
InHandler == taken # <<>> /\ taken[Len(taken)].handled
Function == taken[Len(taken)].fn
AtCode == Running /\ (taken = <<>> \/ (InHandler /\ Function))

\* setIntFn, of a function or of null.
SetIntFn(v, given) ==
  /\ AtCode
  /\ intTable' = IF given THEN intTable \cup {v} ELSE intTable \ {v}
  /\ UNCHANGED <<idt, cpu, taken, message>>

\* The code runs on, between interrupts.
RunCode(at) ==
  /\ AtCode
  /\ cpu' = [cpu EXCEPT !.eip = <<"eip", at>>]
  /\ UNCHANGED <<idt, intTable, taken, message>>

\* The processor takes an interrupt.
Interrupt(v) ==
  /\ AtCode /\ Len(taken) < MaxDepth
  /\ v \in Exceptions \/ cpu.enabled
  /\ \E code \in {<<>>} \cup {<<<<"code", c>>>> : c \in ErrorCodes[v]} :
       /\ code = <<>> <=> ErrorCodes[v] = {}
       /\ taken' = Append(taken, [was |-> cpu, vector |-> v, code |-> code,
                                  handled |-> FALSE, fn |-> FALSE])
       /\ cpu' = [eip |-> <<"isr", idt[v].isr>>, enabled |-> FALSE,
                  stack |-> cpu.stack \o <<<<"flags", cpu.enabled>>, <<"cs", 8>>, cpu.eip>> \o code]
  /\ UNCHANGED <<idt, intTable, message>>

\* Mutant: vector 17 is taken for one without an error code.
NoErrorCode_17(v) == v \notin {8, 10, 11, 12, 13, 14}

\* asmIsrTable
NoErrorCode(v) == v \notin {8, 10, 11, 12, 13, 14, 17}

\* The stub pushes a 0 in place of an error code, and the vector.  isrWrapper aligns the
\* stack to 16 bytes, for the handler, and keeps the old top below it.
Stub(v, stack) == stack \o (IF NoErrorCode(v) THEN <<<<"code", 0>>>> ELSE <<>>) \o <<<<"vector", v>>>>
Wrapper(stack) ==
  stack \o [i \in 1..((-Len(stack)) % 4) + 3 |-> <<"word", 0>>] \o <<<<"esp", Len(stack)>>>>

\* interruptHandler reads intTable once, when it begins.
EnterHandler ==
  /\ Running /\ taken # <<>> /\ ~InHandler
  /\ cpu' = [cpu EXCEPT !.stack = Wrapper(Stub(cpu.eip[2], cpu.stack)),
                        !.eip = <<"eip", CHOOSE p \in Points : TRUE>>]
  /\ taken' = [taken EXCEPT ![Len(taken)] =
                 [@ EXCEPT !.handled = TRUE, !.fn = cpu.eip[2] \in intTable]]
  /\ UNCHANGED <<idt, intTable, message>>

Esp == cpu.stack[Len(cpu.stack)][2]

\* IsrParam: vector, errCode, eip, cs, eflags, from the top of the stack down.
IsrParam == [i \in 1..5 |-> cpu.stack[Esp + 1 - i]]

\* interruptHandler has found no function: intUndef shows its argument, and the kernel stops.
IntUndef ==
  /\ Running /\ InHandler /\ ~Function
  /\ message' = IsrParam
  /\ UNCHANGED <<idt, intTable, cpu, taken>>

\* The function returns: isrWrapper goes back to the old top of the stack, skips vector
\* and error code, and iret takes the rest.
Return ==
  /\ Running /\ InHandler /\ Function
  /\ cpu' = [eip |-> cpu.stack[Esp - 2], enabled |-> cpu.stack[Esp - 4][2],
             stack |-> SubSeq(cpu.stack, 1, Esp - 5)]
  /\ taken' = SubSeq(taken, 1, Len(taken) - 1)
  /\ UNCHANGED <<idt, intTable, message>>

IntNext ==
  \/ \E v \in Vectors, given \in BOOLEAN : SetIntFn(v, given)
  \/ \E v \in Vectors : Interrupt(v)
  \/ \E at \in Points : RunCode(at)
  \/ EnterHandler
  \/ IntUndef
  \/ Return

IntSpec == IntInit /\ [][IntNext]_intVars
------------------------------------------------------------------------------
LastTaken == taken[Len(taken)]

\* Code that was interrupted goes on where it was, with the flag and the stack it had,
\* whether the processor pushed an error code or not, however the stack was aligned and
\* whatever interrupts came within the handler; and what the kernel shows when it stops
\* is what the processor pushed (asmIsr.S:3-26, intTable.cpp:10-63).
InterruptsAreExact ==
  [][/\ Len(taken') < Len(taken) => cpu' = LastTaken.was
     /\ message' # message =>
          message' = <<<<"vector", LastTaken.vector>>,
                       IF LastTaken.code = <<>> THEN <<"code", 0>> ELSE LastTaken.code[1],
                       LastTaken.was.eip, <<"cs", 8>>, <<"flags", LastTaken.was.enabled>>>>]_intVars
==============================================================================
