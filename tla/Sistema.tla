------------------------------- MODULE Sistema -------------------------------
(***************************************************************************)
(* The three processes together, for the one process the kernel ever gets  *)
(* to the CPU: the kernel as Planificador, which Kernel implements; Memoria *)
(* as Contextos, which Memoria implements, plus the two steps of each call *)
(* of the CPU and what kills it; and the cycle of the CPU itself.          *)
(***************************************************************************)
EXTENDS Cpu

CONSTANTS
  Programas,   \* the files of pseudocode: sequences of instructions
  Sueltas      \* the lines that a freed list of instructions may seem to have

ASSUME SistemaAssumption ==
  /\ Programas \subseteq Seq(Instruccion)
  /\ Sueltas \subseteq Instruccion
  /\ Basura \subseteq t_register

VARIABLES
  vida,        \* Planificador: the state of the process
  alta, baja,  \* PROCESS_CREATION and THREAD_KILL: "no", "pedida", "hecha"
  ctx,         \* Contextos
  hallado,     \* get_thread has returned in the thread that serves the CPU
  programa     \* the file of the process

vars == <<cpuVars, kernel, memoria, leido, linea, vida, alta, baja, ctx,
          hallado, programa>>

P == INSTANCE Planificador

M == INSTANCE Contextos
       WITH PIDs <- {1}, Bancos <- t_register, Inicial <- initiate_registers

Init ==
  /\ CpuInit /\ M!Init /\ P!Init
  /\ kernel = "viva" /\ memoria = "viva"
  /\ linea = [op |-> "ninguna"]
  /\ alta = "no" /\ baja = "no" /\ hallado = FALSE
  /\ programa \in Programas

-----------------------------------------------------------------------------
(* The kernel                                                              *)

deCpu     == <<cpu_estado, pc, locales, flag_interrupt>>
deMemoria == <<memoria, leido, linea, ctx, hallado, programa>>

KernelVive == kernel = "viva" /\ kernel' = kernel

\* process_create, until it waits for Memoria.
PedirAlta ==
  /\ KernelVive
  /\ vida = <<>> /\ P!Crear
  /\ alta' = "pedida"
  /\ UNCHANGED <<cpuVars, deMemoria, baja>>

\* Mutant: Memoria's answer is not waited for.
SinEsperarAlta ==
  /\ KernelVive
  /\ alta # "no" /\ P!Aceptar(1)
  /\ UNCHANGED <<cpuVars, deMemoria, alta, baja>>

RecvAlta ==
  /\ KernelVive
  /\ alta = "hecha" /\ P!Aceptar(1)
  /\ UNCHANGED <<cpuVars, deMemoria, alta, baja>>

Despachar ==
  /\ KernelVive
  /\ P!Despachar(1)
  /\ despacho' = 1
  /\ UNCHANGED <<deCpu, motivos, pedido, cpu, deMemoria, alta, baja>>

\* exec_tcb reads THREAD_EXIT: exit_queue and sem_exit.
AtenderThreadExit ==
  /\ KernelVive
  /\ motivos # <<>> /\ motivos' = Tail(motivos)
  /\ P!Salir(1)
  /\ UNCHANGED <<deCpu, despacho, pedido, cpu, deMemoria, alta, baja>>

\* Mutant: the kill is not sent.
SinAvisar ==
  /\ KernelVive /\ memoria = "viva"
  /\ P!Terminar(1)
  /\ UNCHANGED <<cpuVars, deMemoria, alta, baja>>

\* exit_tcb: thread_cancel, which waits for no answer.
PedirBaja ==
  /\ KernelVive /\ memoria = "viva"
  /\ P!Terminar(1)
  /\ baja' = "pedida"
  /\ UNCHANGED <<cpuVars, deMemoria, alta>>

\* The CPU has gone: exec_tcb reads no motivo, and forgets the thread.
RecvSinCpu ==
  /\ KernelVive /\ cpu_estado = "caida"
  /\ P!Soltar(1)
  /\ UNCHANGED <<cpuVars, deMemoria, alta, baja>>

\* A connection refused, a fault on what was not read, or the operator.
CaeKernel ==
  /\ kernel = "viva" /\ kernel' = "caida"
  /\ UNCHANGED <<cpuVars, deMemoria, vida, alta, baja>>

AbortaKernel ==
  /\ \/ vida = <<"EXIT">> /\ memoria = "caida"
     \/ vida \in {<<"READY">>, <<"EXEC">>} /\ cpu_estado = "caida"
  /\ CaeKernel

FinKernel == alta = "hecha" /\ CaeKernel

-----------------------------------------------------------------------------
(* Memoria                                                                 *)

MemoriaVive ==
  /\ memoria = "viva" /\ memoria' = memoria
  /\ UNCHANGED <<kernel, vida, deCpu, despacho, motivos, programa>>

AtenderAlta ==
  /\ MemoriaVive
  /\ alta = "pedida" /\ alta' = "hecha"
  /\ M!Crear(1)
  /\ UNCHANGED <<pedido, linea, baja, hallado>>

AtenderBaja ==
  /\ MemoriaVive
  /\ baja = "pedida" /\ baja' = "hecha"
  /\ M!Terminar(1)
  /\ UNCHANGED <<pedido, linea, alta, hallado>>

GetThread ==
  /\ MemoriaVive
  /\ pedido # "ninguno" /\ ~hallado
  /\ cpu.PID \in DOMAIN ctx
  /\ hallado' = TRUE
  /\ UNCHANGED <<pedido, cpu, leido, linea, ctx, alta, baja>>

Contestar(op) ==
  /\ MemoriaVive
  /\ pedido = op /\ pedido' = "ninguno"
  /\ hallado /\ hallado' = FALSE
  /\ UNCHANGED <<alta, baja>>

\* The thread killed since it was found: its registers are what free() left.
ExecutionContext ==
  /\ Contestar("GET_EXECUTION_CONTEXT")
  /\ \/ M!Leer
     \/ leido' \in Basura /\ M!LeerSuelto
  /\ UNCHANGED linea

\* The thread killed since it was found: its list is what free() left.
GetInstruction ==
  /\ Contestar("GET_INSTRUCTION")
  /\ \/ /\ cpu.banco["PC"] < Len(programa)
        /\ linea' = programa[cpu.banco["PC"] + 1]
     \/ cpu.PID \notin DOMAIN ctx /\ linea' \in Sueltas
  /\ UNCHANGED <<ctx, cpu, leido>>

\* Mutant: only the program counter is stored.
GuardarSoloPC ==
  /\ Contestar("UPDATE_CONTEXT")
  /\ ctx' = [p \in DOMAIN ctx |-> [ctx[p] EXCEPT !["PC"] = cpu.banco["PC"]]]
  /\ UNCHANGED <<cpu, leido, linea>>

UpdateContext ==
  /\ Contestar("UPDATE_CONTEXT")
  /\ \/ M!Guardar
     \/ cpu.PID \notin DOMAIN ctx /\ UNCHANGED <<ctx, cpu, leido>>
  /\ UNCHANGED linea

CaeMemoria ==
  /\ memoria = "viva" /\ memoria' = "caida"
  /\ UNCHANGED <<cpuVars, kernel, leido, linea, vida, alta, baja, ctx, hallado,
                 programa>>

\* get_thread finds nothing; or there is no such instruction, or no list of
\* instructions any more.
AbortaMemoria ==
  /\ \/ pedido # "ninguno" /\ ~hallado /\ cpu.PID \notin DOMAIN ctx
     \/ /\ pedido = "GET_INSTRUCTION" /\ hallado
        /\ cpu.banco["PC"] >= Len(programa) \/ cpu.PID \notin DOMAIN ctx
  /\ CaeMemoria

\* The CPU's end of the connection closes: the loop goes on with the last byte it
\* read, and what it reads of a request that is not there names no thread.
AbortaSinCpu == cpu_estado = "caida" /\ pid # 0 /\ CaeMemoria

-----------------------------------------------------------------------------
(* The specification                                                       *)

Kernel ==
  \/ PedirAlta \/ RecvAlta \/ Despachar
  \/ AtenderThreadExit \/ PedirBaja \/ AbortaKernel \/ RecvSinCpu

HilosMemoria ==
  \/ AtenderAlta \/ AtenderBaja
  \/ GetThread \/ ExecutionContext \/ GetInstruction \/ UpdateContext

delResto == <<kernel, vida, alta, baja, deMemoria>>

Next ==
  \/ Kernel \/ FinKernel
  \/ HilosMemoria \/ AbortaMemoria \/ AbortaSinCpu
  \/ CpuNext /\ UNCHANGED delResto

Spec == Init /\ [][Next]_vars

\* Every process runs its threads; the operator's answers, the interruption,
\* and the death of a server after its client's need not happen.
FairSpec ==
  /\ Spec
  /\ WF_vars(Kernel)
  /\ WF_vars(AtenderAlta) /\ WF_vars(AtenderBaja)
  /\ WF_vars(HilosMemoria \/ AbortaMemoria)
  /\ WF_vars(HiloDispatch /\ UNCHANGED delResto)

=============================================================================
