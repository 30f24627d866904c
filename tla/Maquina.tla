------------------------------- MODULE Maquina -------------------------------
(***************************************************************************)
(* The machine the CPU and Memoria make up between them, with no context   *)
(* to fetch or store and no width but that of a register: one program, and *)
(* a bank of registers from its creation until its thread is killed.       *)
(***************************************************************************)
EXTENDS Integers, Sequences

CONSTANTS Modulo, Generales

VARIABLES
  programa,   \* a sequence of instructions
  vivo,       \* the thread exists
  banco       \* its registers (0 when it does not)

vars == <<programa, vivo, banco>>

En32(v) == v % Modulo

\* What an instruction writes in the register it names first.
Resultado(i, regs) ==
  CASE i.op = "SET"      -> i.n
    [] i.op = "READ_MEM" -> regs[i.r2]
    [] i.op = "SUM"      -> regs[i.r1] + regs[i.r2]
    [] i.op = "SUB"      -> regs[i.r1] - regs[i.r2]

\* A jump goes to a line counted from 1; the rest go on to the next one.
Efecto(i, regs) ==
  CASE i.op \in {"SET", "READ_MEM", "SUM", "SUB"} ->
         [regs EXCEPT ![i.r1] = En32(Resultado(i, regs)), !["PC"] = En32(@ + 1)]
    [] i.op = "JNZ" /\ regs[i.r1] # 0 -> [regs EXCEPT !["PC"] = En32(i.n - 1)]
    [] OTHER -> [regs EXCEPT !["PC"] = En32(@ + 1)]

Cero == [r \in {"PC"} \cup Generales |-> 0]

Init == ~vivo /\ banco = Cero

Cargar == ~vivo /\ vivo' /\ UNCHANGED <<programa, banco>>

Ejecutar ==
  /\ vivo
  /\ banco["PC"] < Len(programa)
  /\ banco' = Efecto(programa[banco["PC"] + 1], banco)
  /\ UNCHANGED <<programa, vivo>>

Matar == vivo /\ ~vivo' /\ banco' = Cero /\ UNCHANGED programa

Next == Cargar \/ Ejecutar \/ Matar

Spec == Init /\ [][Next]_vars

=============================================================================
