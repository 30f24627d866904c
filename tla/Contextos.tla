------------------------------ MODULE Contextos ------------------------------
(***************************************************************************)
(* What Memoria promises its two clients about main threads, with no       *)
(* lists, no TCBs and no connections: a process exists from its creation   *)
(* until its main thread is killed, and in between its execution context   *)
(* is the last one the CPU stored, starting at Inicial.  Of a process that *)
(* is gone nothing is promised: what is read of it is anything, and what   *)
(* is stored for it may land in the context of another.                    *)
(***************************************************************************)
CONSTANTS
  PIDs,
  Bancos,  \* the execution contexts: banks of registers
  Inicial  \* the one a new thread starts with

VARIABLES
  ctx,     \* the context of each process there is
  cpu,     \* what the CPU asks for or stores: a PID and a bank
  leido    \* the last context the CPU was given

vars == <<ctx, cpu, leido>>

Init ==
  /\ ctx = [p \in {} |-> Inicial]
  /\ cpu = [PID |-> 0, banco |-> Inicial]
  /\ leido = Inicial

Crear(pid) ==
  /\ pid \notin DOMAIN ctx
  /\ ctx' = [p \in DOMAIN ctx \cup {pid} |-> IF p = pid THEN Inicial ELSE ctx[p]]
  /\ UNCHANGED <<cpu, leido>>

Terminar(pid) ==
  /\ pid \in DOMAIN ctx
  /\ ctx' = [p \in DOMAIN ctx \ {pid} |-> ctx[p]]
  /\ UNCHANGED <<cpu, leido>>

Pedir ==
  /\ cpu' \in [PID : PIDs, banco : Bancos]
  /\ UNCHANGED <<ctx, leido>>

Leer ==
  /\ cpu.PID \in DOMAIN ctx
  /\ leido' = ctx[cpu.PID]
  /\ UNCHANGED <<ctx, cpu>>

Guardar ==
  /\ cpu.PID \in DOMAIN ctx
  /\ ctx' = [ctx EXCEPT ![cpu.PID] = cpu.banco]
  /\ UNCHANGED <<cpu, leido>>

LeerSuelto ==
  /\ cpu.PID \notin DOMAIN ctx
  /\ leido' \in Bancos
  /\ UNCHANGED <<ctx, cpu>>

GuardarSuelto ==
  /\ cpu.PID \notin DOMAIN ctx
  /\ \E p \in DOMAIN ctx : ctx' = [ctx EXCEPT ![p] = cpu.banco]
  /\ UNCHANGED <<cpu, leido>>

Next ==
  \/ \E pid \in PIDs : Crear(pid) \/ Terminar(pid)
  \/ Pedir \/ Leer \/ Guardar
  \/ LeerSuelto \/ GuardarSuelto

Spec == Init /\ [][Next]_vars

=============================================================================
