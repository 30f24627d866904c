---------------------------- MODULE MemoriaProps ----------------------------
(***************************************************************************)
(* What the memoria process promises, as properties of the module Memoria. *)
(***************************************************************************)
EXTENDS Memoria

TCBs == 1..Len(tcb)

EtiquetasKernel ==
  {"libre", "accept", "recv", "safe_pcb_add", "list_add_principal", "responder",
   "thread_initiate", "list_add", "free_tcb", "cerrada"}

EtiquetasCpu ==
  {"recv", "GET_EXECUTION_CONTEXT", "GET_INSTRUCTION", "UPDATE_CONTEXT", "perdida"}

PedidosPosibles ==
  [op : {"PROCESS_CREATION", "THREAD_CREATION"}, PID : PIDs, archivo : Archivos]
  \cup [op : {"THREAD_KILL"}, PID : PIDs, TID : Nat]
  \cup [op : {"PROCESS_KILL", "MEMORY_DUMP", "ninguna"}]

\* The types of Memoria's globals and of its threads' locals.
TypeOK ==
  /\ estado \in {"vivo", "abortado"}
  /\ pc \in [Hilos -> EtiquetasKernel \cup EtiquetasCpu]
  /\ \A c \in Conexiones : pc[c] \in EtiquetasKernel
  /\ pc[Cpu] \in EtiquetasCpu
  /\ pedido \in [Conexiones -> PedidosPosibles]
  /\ TID_nuevo \in [Conexiones -> Nat]
  /\ tcb_local \in [Hilos -> {NULL} \cup TCBs]
  /\ visto \in [Conexiones -> Seq(TCBs)]
  /\ process_list \subseteq PIDs
  /\ TIDs \in [PIDs -> Seq(TCBs)] /\ cuenta \in [PIDs -> Nat]
  /\ tcb \in Seq([PID : PIDs, TID : Nat, lineas : Nat, PC : Nat, libre : BOOLEAN])
  /\ cpu \in [PID : PIDs \cup {NULL}, PC : Nat]
  /\ contexto \in Nat
  /\ respondidos \subseteq PIDs /\ bajas \subseteq PIDs

-----------------------------------------------------------------------------
(* Safety                                                                  *)

\* The connection that creates a process, and the one that kills its thread 0.
Crea(c, pid) == pedido[c].op = "PROCESS_CREATION" /\ pedido[c].PID = pid
Mata(c, pid) == pedido[c].op = "THREAD_KILL" /\ pedido[c].PID = pid

\* The kill has taken the main TCB from the list.
Tomado(pid) ==
  \E c \in Conexiones : Mata(c, pid) /\ pc[c] \in {"free_tcb", "cerrada"}

\* Once the creation of a process is answered, and until its kill takes it,
\* get_thread(pid, 0) finds its main thread: allocated, with its own PID and
\* with the instructions of the file that was asked for, whatever the other
\* connections do to the list of the process meanwhile.
RespondidoCargado ==
  \A c \in Conexiones :
     /\ pedido[c].op = "PROCESS_CREATION"
     /\ pedido[c].PID \in respondidos /\ ~Tomado(pedido[c].PID)
     => \E t \in TCBs :
           /\ EsGetThread(pedido[c].PID, 0, t)
           /\ ~tcb[t].libre /\ tcb[t].PID = pedido[c].PID
           /\ tcb[t].lineas = Lineas[pedido[c].archivo]

\* What it takes to kill Memoria: a file that does not exist, a connection of
\* the CPU that closes or loses step, a CPU that goes on with a thread a kill
\* took or runs past the last line of its program, or a list two threads
\* changed at once.
MuerteJustificada ==
  estado = "abortado" =>
     \/ \E c \in Conexiones :
           /\ pedido[c].op \in {"PROCESS_CREATION", "THREAD_CREATION"}
           /\ pedido[c].archivo \notin DOMAIN Lineas
     \/ pc[Cpu] = "perdida"
     \/ Tomado(cpu.PID)
     \/ /\ pc[Cpu] = "GET_INSTRUCTION"
        /\ \E c \in Conexiones :
              Crea(c, cpu.PID) /\ cpu.PC >= Lineas[pedido[c].archivo]
     \/ \E pid \in PIDs : cuenta[pid] > Len(TIDs[pid])

\* No list, and no thread that is to free a TCB, holds a freed one; a TCB is in
\* the list of its own process, once; and the thread of the CPU holds a freed
\* one only if the kill of the process it was asked about took it.
SinColgados ==
  /\ \A pid \in PIDs : \A i \in DOMAIN TIDs[pid] :
        /\ ~tcb[TIDs[pid][i]].libre /\ tcb[TIDs[pid][i]].PID = pid
        /\ \A j \in 1..i-1 : TIDs[pid][j] # TIDs[pid][i]
  /\ tcb_local[Cpu] # NULL /\ tcb[tcb_local[Cpu]].libre => Tomado(cpu.PID)
  /\ \A c \in Conexiones : pc[c] = "free_tcb" => ~tcb[tcb_local[c]].libre

-----------------------------------------------------------------------------
(* The inductive invariant behind the safety properties.  It follows the   *)
(* main TCB of each process from the connection that creates it to the one *)
(* that kills it.                                                          *)

\* What a thread of a connection is doing tells what it was asked for.
Etiquetas ==
  \A c \in Conexiones :
     /\ pc[c] = "libre" => pedido[c].op = "ninguna"
     /\ pc[c] \in {"safe_pcb_add", "list_add_principal", "responder"} =>
           pedido[c].op = "PROCESS_CREATION"
     /\ pc[c] \in {"thread_initiate", "list_add"} => pedido[c].op = "THREAD_CREATION"
     /\ pc[c] = "free_tcb" => pedido[c].op = "THREAD_KILL"
     /\ pedido[c].op = "THREAD_CREATION" => pedido[c].PID \in respondidos
     /\ pedido[c].op = "THREAD_KILL" => pedido[c].PID \in bajas /\ pedido[c].TID = 0

\* A process is created and killed at most once, and exists from the addition
\* of its PCB on; its list is empty until its main TCB is added.
Procesos ==
  /\ \A c, d \in Conexiones, pid \in PIDs :
        \/ Crea(c, pid) /\ Crea(d, pid)
        \/ Mata(c, pid) /\ Mata(d, pid)
        => c = d
  /\ \A c \in Conexiones, pid \in PIDs : Crea(c, pid) =>
        /\ pid \in process_list <=>
              pc[c] \in {"list_add_principal", "responder", "cerrada"}
        /\ pid \in respondidos <=> pc[c] = "cerrada"
  /\ \A pid \in PIDs :
        /\ pid \in process_list => \E c \in Conexiones : Crea(c, pid)
        /\ TIDs[pid] # <<>> \/ cuenta[pid] # 0 =>
              \E c \in Conexiones : Crea(c, pid) /\ pc[c] \in {"responder", "cerrada"}
        /\ Len(TIDs[pid]) <= cuenta[pid]
  /\ bajas \subseteq respondidos /\ respondidos \subseteq process_list

\* A TCB that is in no list yet, or no longer, is in the hands of one thread.
EnMano(c) == pc[c] \in {"safe_pcb_add", "list_add_principal", "list_add", "free_tcb"}

Propios ==
  \A c \in Conexiones : EnMano(c) =>
     /\ tcb_local[c] \in TCBs
     /\ ~tcb[tcb_local[c]].libre /\ tcb[tcb_local[c]].PID = pedido[c].PID
     /\ \A pid \in PIDs : \A i \in DOMAIN TIDs[pid] : TIDs[pid][i] # tcb_local[c]
     /\ \A d \in Conexiones : EnMano(d) /\ tcb_local[d] = tcb_local[c] => d = c

\* The thread d creates will be neither another thread 0 nor the first.
Secundario(d) ==
  /\ pc[d] = "thread_initiate" => TID_nuevo[d] # 0
  /\ pc[d] = "list_add" => visto[d] # <<>> /\ tcb[tcb_local[d]].TID # 0

\* The main TCB of a process: first in its list, and the only one there with
\* TID 0, until the kill takes it.
Encabeza(c) ==
  LET pid == pedido[c].PID IN
  /\ TIDs[pid] # <<>> /\ TIDs[pid][1] = tcb_local[c]
  /\ \A i \in DOMAIN TIDs[pid] : i > 1 => tcb[TIDs[pid][i]].TID # 0
  /\ \A d \in Conexiones :
        pedido[d].op = "THREAD_CREATION" /\ pedido[d].PID = pid => Secundario(d)

EnSuLugar(c) ==
  IF Tomado(pedido[c].PID)
  THEN \A i \in DOMAIN TIDs[pedido[c].PID] : TIDs[pedido[c].PID][i] # tcb_local[c]
  ELSE Encabeza(c)

\* It keeps what it was created with, and only the kill takes it in hand.
Ficha(c) ==
  LET p == tcb_local[c] IN
  /\ p \in TCBs /\ tcb[p].PID = pedido[c].PID /\ tcb[p].TID = 0
  /\ pedido[c].archivo \in DOMAIN Lineas /\ tcb[p].lineas = Lineas[pedido[c].archivo]
  /\ \A d \in Conexiones :
        EnMano(d) /\ tcb_local[d] = p => d = c \/ Mata(d, pedido[c].PID)

Principales ==
  \A c \in Conexiones :
     pedido[c].op = "PROCESS_CREATION" /\ pc[c] \notin {"accept", "recv"} =>
        Ficha(c) /\ (pc[c] \in {"responder", "cerrada"} => EnSuLugar(c))

\* The CPU asks for answered processes, and the TCB it uses is the main one until
\* the kill takes it.
EnLaCpu ==
  /\ pc[Cpu] \notin {"recv", "perdida"} => cpu.PID \in respondidos
  /\ tcb_local[Cpu] # NULL => pc[Cpu] \notin {"recv", "perdida"}
  /\ tcb_local[Cpu] # NULL /\ ~Tomado(cpu.PID) =>
        \A c \in Conexiones : Crea(c, cpu.PID) => tcb_local[Cpu] = tcb_local[c]

IInv ==
  /\ TypeOK /\ Etiquetas /\ Procesos /\ Propios /\ Principales /\ EnLaCpu
  /\ SinColgados /\ MuerteJustificada

-----------------------------------------------------------------------------
(* The abstract specification                                              *)

\* From process_initiate() to take_thread(), a process has its main TCB.
Existe(pid) ==
  /\ \E c \in Conexiones : Crea(c, pid) /\ pc[c] \notin {"accept", "recv"}
  /\ ~Tomado(pid)

Contexto(pid) == tcb[tcb_local[CHOOSE c \in Conexiones : Crea(c, pid)]].PC

\* Memoria implements Contextos: the lists, the TCBs and the threads of the
\* connections amount to one context, its PC, per process.
C == INSTANCE Contextos
       WITH Bancos <- Nat, Inicial <- 0,
            ctx <- [p \in {p \in PIDs : Existe(p)} |-> Contexto(p)],
            cpu <- [PID |-> cpu.PID, banco |-> cpu.PC],
            leido <- contexto

Refina == C!Spec

-----------------------------------------------------------------------------
(* Liveness                                                                *)

\* Every creation the kernel waits for is answered, unless Memoria dies.
CreacionRespondida ==
  \A c \in Conexiones, pid \in PIDs :
     pc[c] = "accept"
     /\ pedido[c] \in [op : {"PROCESS_CREATION"}, PID : {pid}, archivo : Archivos]
     ~> pid \in respondidos \/ estado = "abortado"

=============================================================================
