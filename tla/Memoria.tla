------------------------------- MODULE Memoria -------------------------------
(***************************************************************************)
(* The memoria process: the accept loop of main(), one detached thread per *)
(* connection of the kernel, one for the connection of the CPU, and the    *)
(* process_list they share.  Only the additions to process_list and the    *)
(* lookups of get_process() are made under mutex_process_list; the TIDs    *)
(* list of a process and its TCBs are used with no lock at all.            *)
(*                                                                         *)
(* The clients are those of the kernel's operaciones_memoria.c and of the  *)
(* CPU: who creates a process waits for the answer, nobody else does.      *)
(***************************************************************************)
EXTENDS Integers, Sequences

CONSTANTS
  PIDs,        \* the PIDs the kernel draws, one per process
  Conexiones,  \* bound: the connections the kernel opens
  Cpu,         \* the connection of the CPU
  Archivos,    \* the pseudocode files a request may name
  Lineas,      \* the instructions in each file that exists
  Pedidos,     \* the operations the kernel asks for
  BasuraOpera  \* the 3 bytes enviar_paquete leaves uninitialised after each
               \* packet may look like an operation of the CPU

Operaciones == {"PROCESS_CREATION", "THREAD_CREATION", "THREAD_KILL",
                "PROCESS_KILL", "MEMORY_DUMP"}

ASSUME MemoriaAssumption ==
  /\ PIDs \subseteq Nat \ {0}
  /\ Cpu \notin Conexiones
  /\ DOMAIN Lineas \subseteq Archivos
  /\ \A a \in DOMAIN Lineas : Lineas[a] \in Nat
  /\ Pedidos \subseteq Operaciones
  /\ BasuraOpera \in BOOLEAN

VARIABLES
  estado,        \* the process: "vivo" or "abortado"
  pc,            \* where the thread of each connection is
  pedido,        \* what each connection of the kernel asks for
  TID_nuevo,     \* thread_qnty of a thread in thread_create()
  tcb_local,     \* new_thread, tcb_to_kill or thread_aux of each thread
  visto,         \* the list a thread inside list_add() has walked
  process_list,  \* the PIDs in process_list
  TIDs,          \* the TCBs linked in the list of each process, in order
  cuenta,        \* elements_count of that list, which is what list_size gives
  tcb,           \* the TCBs malloc'ed so far; a TCB is its index here
  cpu,           \* the last operation of the CPU: the PID and PC it sent
  contexto,      \* the PC in the last execution context sent to the CPU
  respondidos,   \* PIDs whose creation was answered SUCCESS
  bajas          \* PIDs whose main thread the kernel has asked to kill

locales == <<TID_nuevo, tcb_local, visto>>
listas  == <<process_list, TIDs, cuenta>>
cliente == <<cpu, contexto, bajas>>
vars == <<estado, pc, pedido, locales, listas, tcb, cliente, respondidos>>

NULL == 0

Hilos == Conexiones \cup {Cpu}

-----------------------------------------------------------------------------
(* Helpers                                                                 *)

Paso(c, desde, hasta) ==
  /\ estado = "vivo"
  /\ pc[c] = desde
  /\ pc' = [pc EXCEPT ![c] = hasta]
  /\ estado' = estado

\* A NULL dereference or abort(): every thread of the process is gone.
Abortar ==
  /\ estado = "vivo"
  /\ estado' = "abortado"
  /\ UNCHANGED <<pc, pedido, locales, listas, tcb, cliente, respondidos>>

\* get_thread(pid, tid) stops at the first link of the list with that TID.
SeDetieneEn(pid, tid, i) ==
  /\ pid \in process_list
  /\ i \in DOMAIN TIDs[pid]
  /\ tcb[TIDs[pid][i]].TID = tid
  /\ \A j \in 1..i-1 : tcb[TIDs[pid][j]].TID # tid

\* get_thread(pid, tid) finds t.
EsGetThread(pid, tid, t) ==
  \E i \in DOMAIN TIDs[pid] : SeDetieneEn(pid, tid, i) /\ TIDs[pid][i] = t

\* It finds none, or has no process to look in: its callers dereference NULL.
SinHilo(pid, tid) == \A t \in DOMAIN tcb : ~EsGetThread(pid, tid, t)

\* list_remove_element: the i-th link goes.
SinEnlace(lista, i) == SubSeq(lista, 1, i - 1) \o SubSeq(lista, i + 1, Len(lista))

\* thread_initiate: the file is loaded whole; of the registers, all 0, the
\* program counter stands for the rest.
ThreadInitiate(pid, tid, archivo) ==
  [PID |-> pid, TID |-> tid, lineas |-> Lineas[archivo], PC |-> 0,
   libre |-> FALSE]

Init ==
  /\ estado = "vivo"
  /\ pc = [c \in Hilos |-> IF c = Cpu THEN "recv" ELSE "libre"]
  /\ pedido = [c \in Conexiones |-> [op |-> "ninguna"]]
  /\ TID_nuevo = [c \in Conexiones |-> 0]
  /\ tcb_local = [c \in Hilos |-> NULL]
  /\ visto = [c \in Conexiones |-> <<>>]
  /\ process_list = {} /\ TIDs = [p \in PIDs |-> <<>>]
  /\ cuenta = [p \in PIDs |-> 0] /\ tcb = <<>>
  /\ cpu = [PID |-> NULL, PC |-> 0] /\ contexto = 0
  /\ respondidos = {} /\ bajas = {}

-----------------------------------------------------------------------------
(* The clients                                                             *)

Pedir(c, p) ==
  /\ Paso(c, "libre", "accept")
  /\ p.op \in Pedidos
  /\ pedido' = [pedido EXCEPT ![c] = p]
  /\ UNCHANGED <<locales, listas, tcb, cpu, contexto, respondidos>>

\* process_create() of the kernel: the PID is new.
PedirProceso(c) ==
  /\ \E pid \in PIDs, a \in Archivos :
        /\ \A d \in Conexiones :
              pedido[d].op = "PROCESS_CREATION" => pedido[d].PID # pid
        /\ Pedir(c, [op |-> "PROCESS_CREATION", PID |-> pid, archivo |-> a])
  /\ bajas' = bajas

\* thread_create() of the kernel, for a process that is running.
PedirHilo(c) ==
  /\ \E pid \in respondidos \ bajas, a \in Archivos :
        Pedir(c, [op |-> "THREAD_CREATION", PID |-> pid, archivo |-> a])
  /\ bajas' = bajas

\* thread_cancel() of the kernel: exit_tcb asks once for each thread that ran,
\* and only main threads run.
PedirBaja(c) ==
  \E pid \in respondidos \ bajas :
     /\ Pedir(c, [op |-> "THREAD_KILL", PID |-> pid, TID |-> 0])
     /\ bajas' = bajas \cup {pid}

\* send_to_mem_process_kill(), and the operation the kernel never asks for.
PedirAviso(c) ==
  /\ \E op \in {"PROCESS_KILL", "MEMORY_DUMP"} : Pedir(c, [op |-> op])
  /\ bajas' = bajas

\* The CPU asks for the context or the instruction of a thread it was sent, or
\* sends its registers; it goes on after THREAD_EXIT, and past the last line.
PedirCpu ==
  \E op \in {"GET_EXECUTION_CONTEXT", "GET_INSTRUCTION", "UPDATE_CONTEXT"},
     pid \in respondidos, c \in Conexiones :
     /\ Paso(Cpu, "recv", op)
     /\ pedido[c].op = "PROCESS_CREATION" /\ pedido[c].PID = pid
     /\ \E linea \in 0..Lineas[pedido[c].archivo] :
           cpu' = [PID |-> pid, PC |-> linea]
     /\ UNCHANGED <<pedido, locales, listas, tcb, contexto, respondidos, bajas>>

\* The CPU's end of the connection closes: recv() returns 0 for ever, and the
\* loop goes on with the op_code it has: not initialised before the first packet,
\* and then the last byte read, of the three enviar_paquete does not write.  If
\* that is an operation it is served with what malloc(0) holds for a PID, which
\* no process has.  AbortaPerdida may follow, whatever the byte was.
CpuSeVa ==
  /\ Paso(Cpu, "recv", "perdida")
  /\ UNCHANGED <<pedido, locales, listas, tcb, cliente, respondidos>>

\* The loop takes a byte left over from the last packet for an op_code, and
\* from there on reads the connection out of step.
LeerBasura ==
  /\ BasuraOpera /\ cpu.PID # NULL
  /\ Paso(Cpu, "recv", "perdida")
  /\ UNCHANGED <<pedido, locales, listas, tcb, cliente, respondidos>>

AbortaPerdida == pc[Cpu] = "perdida" /\ Abortar

-----------------------------------------------------------------------------
(* main                                                                    *)

\* esperar_cliente, the handshake, and a thread for the connection, in one step:
\* a client that has connected and is slow to shake hands, which keeps main
\* from the others meanwhile, is one that has not been accepted yet.
Aceptar(c) ==
  /\ Paso(c, "accept", "recv")
  /\ UNCHANGED <<pedido, locales, listas, tcb, cliente, respondidos>>

-----------------------------------------------------------------------------
(* atenderKernel: PROCESS_CREATION                                         *)

Pide(c, op) == pc[c] = "recv" /\ pedido[c].op = op

\* process_initiate and thread_initiate.
IniciarProceso(c) ==
  /\ Pide(c, "PROCESS_CREATION")
  /\ pedido[c].archivo \in DOMAIN Lineas
  /\ Paso(c, "recv", "safe_pcb_add")
  /\ tcb' = Append(tcb, ThreadInitiate(pedido[c].PID, 0, pedido[c].archivo))
  /\ tcb_local' = [tcb_local EXCEPT ![c] = Len(tcb) + 1]
  /\ UNCHANGED <<pedido, TID_nuevo, visto, listas, cliente, respondidos>>

SafePcbAdd(c) ==
  /\ Paso(c, "safe_pcb_add", "list_add_principal")
  /\ process_list' = process_list \cup {pedido[c].PID}
  /\ UNCHANGED <<pedido, locales, TIDs, cuenta, tcb, cliente, respondidos>>

\* Mutant: the TCB is never added to the PCB.
SinPrincipal(c) ==
  /\ Paso(c, "list_add_principal", "responder")
  /\ UNCHANGED <<pedido, locales, listas, tcb, cliente, respondidos>>

AgregarPrincipal(c) ==
  /\ Paso(c, "list_add_principal", "responder")
  /\ TIDs' = [TIDs EXCEPT ![pedido[c].PID] = Append(@, tcb_local[c])]
  /\ cuenta' = [cuenta EXCEPT ![pedido[c].PID] = @ + 1]
  /\ UNCHANGED <<pedido, locales, process_list, tcb, cliente, respondidos>>

\* Mutant: the answer is lost.
SinResponder(c) ==
  /\ Paso(c, "responder", "cerrada")
  /\ UNCHANGED <<pedido, locales, listas, tcb, cliente, respondidos>>

ResponderSuccess(c) ==
  /\ Paso(c, "responder", "cerrada")
  /\ respondidos' = respondidos \cup {pedido[c].PID}
  /\ UNCHANGED <<pedido, locales, listas, tcb, cliente>>

\* load_list_instructions aborts when the file cannot be opened.
AbortaSinArchivo(c) ==
  /\ \/ Pide(c, "PROCESS_CREATION")
     \/ pc[c] = "thread_initiate"
  /\ pedido[c].archivo \notin DOMAIN Lineas
  /\ Abortar

-----------------------------------------------------------------------------
(* atenderKernel: THREAD_CREATION                                          *)

\* get_process and list_size: the size is the TID of the new thread.
ContarHilos(c) ==
  /\ Pide(c, "THREAD_CREATION")
  /\ pedido[c].PID \in process_list
  /\ Paso(c, "recv", "thread_initiate")
  /\ TID_nuevo' = [TID_nuevo EXCEPT ![c] = cuenta[pedido[c].PID]]
  /\ UNCHANGED <<pedido, tcb_local, visto, listas, tcb, cliente, respondidos>>

\* thread_initiate (the second call only leaks a TCB), and the walk to the
\* end of the list that list_add begins with.
CargarHilo(c) ==
  /\ Paso(c, "thread_initiate", "list_add")
  /\ pedido[c].archivo \in DOMAIN Lineas
  /\ tcb' = Append(tcb, ThreadInitiate(pedido[c].PID, TID_nuevo[c],
                                       pedido[c].archivo))
  /\ tcb_local' = [tcb_local EXCEPT ![c] = Len(tcb) + 1]
  /\ visto' = [visto EXCEPT ![c] = TIDs[pedido[c].PID]]
  /\ UNCHANGED <<pedido, TID_nuevo, listas, cliente, respondidos>>

\* Mutant: the new TCB replaces the list.
EnlazarSolo(c) ==
  /\ Paso(c, "list_add", "cerrada")
  /\ TIDs' = [TIDs EXCEPT ![pedido[c].PID] = <<tcb_local[c]>>]
  /\ cuenta' = [cuenta EXCEPT ![pedido[c].PID] = @ + 1]
  /\ UNCHANGED <<pedido, locales, process_list, tcb, cliente, respondidos>>

\* The rest of list_add, with no lock: the new element goes after the one that
\* was last when this thread walked the list.  What others have added since is
\* unlinked; if that element has been removed, the new one is lost with it.
EnlazarHilo(c) ==
  /\ Paso(c, "list_add", "cerrada")
  /\ LET pid    == pedido[c].PID
         actual == TIDs[pid]
         ultimo == visto[c][Len(visto[c])]
     IN  \/ /\ visto[c] = <<>>
            /\ TIDs' = [TIDs EXCEPT ![pid] = <<tcb_local[c]>>]
         \/ /\ visto[c] # <<>>
            /\ \E i \in DOMAIN actual :
                  /\ actual[i] = ultimo
                  /\ TIDs' = [TIDs EXCEPT ![pid] =
                                Append(SubSeq(actual, 1, i), tcb_local[c])]
         \/ /\ visto[c] # <<>>
            /\ \A i \in DOMAIN actual : actual[i] # ultimo
            /\ TIDs' = TIDs
  /\ cuenta' = [cuenta EXCEPT ![pedido[c].PID] = @ + 1]
  /\ UNCHANGED <<pedido, locales, process_list, tcb, cliente, respondidos>>

\* A list_add walks cuenta links, more than there are once one was lost.
AbortaLista(c) ==
  /\ pc[c] = "thread_initiate"
  /\ cuenta[pedido[c].PID] > Len(TIDs[pedido[c].PID])
  /\ Abortar

-----------------------------------------------------------------------------
(* atenderKernel: THREAD_KILL, and the operations that only answer         *)

\* Mutant: the TCB stays in the list.
TomarSinSacar(c) ==
  /\ Pide(c, "THREAD_KILL")
  /\ Paso(c, "recv", "free_tcb")
  /\ \E t \in DOMAIN tcb :
        /\ EsGetThread(pedido[c].PID, pedido[c].TID, t)
        /\ tcb_local' = [tcb_local EXCEPT ![c] = t]
  /\ UNCHANGED <<pedido, TID_nuevo, visto, listas, tcb, cliente, respondidos>>

\* take_thread: the link get_thread stops at is removed.
TomarHilo(c) ==
  /\ Pide(c, "THREAD_KILL")
  /\ Paso(c, "recv", "free_tcb")
  /\ LET pid == pedido[c].PID
     IN  \E i \in DOMAIN TIDs[pid] :
            /\ SeDetieneEn(pid, pedido[c].TID, i)
            /\ tcb_local' = [tcb_local EXCEPT ![c] = TIDs[pid][i]]
            /\ TIDs' = [TIDs EXCEPT ![pid] = SinEnlace(@, i)]
  /\ cuenta' = [cuenta EXCEPT ![pedido[c].PID] = @ - 1]
  /\ UNCHANGED <<pedido, TID_nuevo, visto, process_list, tcb, cliente, respondidos>>

FreeTcb(c) ==
  /\ Paso(c, "free_tcb", "cerrada")
  /\ tcb' = [tcb EXCEPT ![tcb_local[c]].libre = TRUE]
  /\ UNCHANGED <<pedido, locales, listas, cliente, respondidos>>

AtenderAviso(c) ==
  /\ pedido[c].op \in {"PROCESS_KILL", "MEMORY_DUMP"}
  /\ Paso(c, "recv", "cerrada")
  /\ UNCHANGED <<pedido, locales, listas, tcb, cliente, respondidos>>

-----------------------------------------------------------------------------
(* atenderCpu: get_thread, and then the use of what it returned            *)

\* Mutant: the thread is looked up in any process.
BuscarEnCualquiera ==
  /\ pc[Cpu] \in {"GET_EXECUTION_CONTEXT", "GET_INSTRUCTION", "UPDATE_CONTEXT"}
  /\ tcb_local[Cpu] = NULL
  /\ estado = "vivo" /\ estado' = estado
  /\ \E t \in DOMAIN tcb, pid \in PIDs :
        /\ EsGetThread(pid, 0, t)
        /\ tcb_local' = [tcb_local EXCEPT ![Cpu] = t]
  /\ UNCHANGED <<pc, pedido, TID_nuevo, visto, listas, tcb, cliente, respondidos>>

BuscarHilo ==
  /\ pc[Cpu] \in {"GET_EXECUTION_CONTEXT", "GET_INSTRUCTION", "UPDATE_CONTEXT"}
  /\ tcb_local[Cpu] = NULL
  /\ estado = "vivo" /\ estado' = estado
  /\ \E t \in DOMAIN tcb :
        /\ EsGetThread(cpu.PID, 0, t)
        /\ tcb_local' = [tcb_local EXCEPT ![Cpu] = t]
  /\ UNCHANGED <<pc, pedido, TID_nuevo, visto, listas, tcb, cliente, respondidos>>

\* The operation ends with its answer, and the CPU is free to ask again.
Contestar(op) ==
  /\ tcb_local[Cpu] # NULL
  /\ Paso(Cpu, op, "recv")
  /\ tcb_local' = [tcb_local EXCEPT ![Cpu] = NULL]

\* The PC of a freed TCB is whatever was written there since.
ExecutionContext ==
  /\ Contestar("GET_EXECUTION_CONTEXT")
  /\ \E leido \in 0..tcb[tcb_local[Cpu]].lineas :
        /\ ~tcb[tcb_local[Cpu]].libre => leido = tcb[tcb_local[Cpu]].PC
        /\ contexto' = leido
  /\ UNCHANGED <<pedido, TID_nuevo, visto, listas, tcb, cpu, respondidos, bajas>>

GetInstruction ==
  /\ Contestar("GET_INSTRUCTION")
  /\ cpu.PC < tcb[tcb_local[Cpu]].lineas
  /\ UNCHANGED <<pedido, TID_nuevo, visto, listas, tcb, cliente, respondidos>>

\* Mutant: the registers go to the TCB malloc'ed last.
GuardarEnOtro ==
  /\ Contestar("UPDATE_CONTEXT")
  /\ tcb' = [tcb EXCEPT ![Len(tcb)].PC = cpu.PC]
  /\ UNCHANGED <<pedido, TID_nuevo, visto, listas, cliente, respondidos>>

\* The memory of a freed TCB may be that of one allocated since.
UpdateContext ==
  /\ Contestar("UPDATE_CONTEXT")
  /\ \E t \in DOMAIN tcb :
        /\ \/ t = tcb_local[Cpu]
           \/ t > tcb_local[Cpu] /\ tcb[tcb_local[Cpu]].libre
        /\ tcb' = [tcb EXCEPT ![t].PC = cpu.PC]
  /\ UNCHANGED <<pedido, TID_nuevo, visto, listas, cliente, respondidos>>

\* strlen(NULL) past the last instruction, or the use of a list of instructions
\* free_tcb destroyed.
AbortaCpu ==
  /\ pc[Cpu] = "GET_INSTRUCTION" /\ tcb_local[Cpu] # NULL
  /\ \/ cpu.PC >= tcb[tcb_local[Cpu]].lineas
     \/ tcb[tcb_local[Cpu]].libre
  /\ Abortar

-----------------------------------------------------------------------------
(* get_process or get_thread finds nothing, and its caller dereferences it *)

SinProceso(c) == Pide(c, "THREAD_CREATION") /\ pedido[c].PID \notin process_list

SinVictima(c) == Pide(c, "THREAD_KILL") /\ SinHilo(pedido[c].PID, pedido[c].TID)

SinInvocador ==
  /\ pc[Cpu] \in {"GET_EXECUTION_CONTEXT", "GET_INSTRUCTION", "UPDATE_CONTEXT"}
  /\ tcb_local[Cpu] = NULL /\ SinHilo(cpu.PID, 0)

AbortaNull ==
  /\ (\E c \in Conexiones : SinProceso(c) \/ SinVictima(c)) \/ SinInvocador
  /\ Abortar

-----------------------------------------------------------------------------
(* The specification                                                       *)

\* The thread of a connection of the kernel.
AtenderKernel(c) ==
  \/ IniciarProceso(c) \/ SafePcbAdd(c) \/ AgregarPrincipal(c)
  \/ ResponderSuccess(c)
  \/ ContarHilos(c) \/ CargarHilo(c) \/ EnlazarHilo(c)
  \/ TomarHilo(c) \/ FreeTcb(c)
  \/ AtenderAviso(c)
  \/ AbortaSinArchivo(c) \/ AbortaLista(c)

\* The thread of the connection of the CPU.
AtenderCpu ==
  \/ BuscarHilo
  \/ ExecutionContext \/ GetInstruction \/ UpdateContext
  \/ AbortaCpu

Clientes ==
  \/ \E c \in Conexiones :
        PedirProceso(c) \/ PedirHilo(c) \/ PedirBaja(c) \/ PedirAviso(c)
  \/ PedirCpu \/ CpuSeVa

Next ==
  \/ Clientes
  \/ \E c \in Conexiones : Aceptar(c) \/ AtenderKernel(c)
  \/ AtenderCpu \/ AbortaNull \/ LeerBasura \/ AbortaPerdida

Spec == Init /\ [][Next]_vars

\* The host runs main and the threads; no client has to ask for anything.
FairSpec ==
  /\ Spec
  /\ WF_vars(\E c \in Conexiones : Aceptar(c))
  /\ \A c \in Conexiones : WF_vars(AtenderKernel(c))
  /\ WF_vars(AtenderCpu)
  /\ WF_vars(AbortaNull)

=============================================================================
