------------------------------- MODULE Kernel -------------------------------
(***************************************************************************)
(* The kernel process: main() and the three detached threads it starts     *)
(* (ready_tcb, exit_tcb, exec_tcb), the four lists and four semaphores     *)
(* they share, and process_create(), which main, ready_tcb and exec_tcb    *)
(* all call.  Memoria and CPU are seen as the kernel sees them: through    *)
(* crear_conexion, recv and the syscall message the CPU sends back.        *)
(*                                                                         *)
(* One step is one blocking call (sem_wait, recv, crear_conexion) or one   *)
(* section under a mutex, with the local code next to it.                  *)
(***************************************************************************)
EXTENDS Integers, Sequences

CONSTANTS
  SemExecInicial,  \* sem_init(&sem_exec, 0, 1): the code's value is 1
  MaxFallas,       \* bound: how often Memoria answers FAILURE
  Syscalls,        \* the motivos the CPU may send back
  Algoritmos,      \* what asignar_algoritmo may leave in ALGORITMO
  Basura           \* what an uninitialised uint32_t field may hold

\* Motivos whose case in atender_motivo only logs, or that fall in default.
SinEfecto == {"MUTEX_LOCK", "MUTEX_UNLOCK", "DUMP_MEMORY", "IO"}

Motivos == SinEfecto \cup
  {"PROCESS_CREATE", "PROCESS_EXIT", "THREAD_CREATE", "THREAD_JOIN",
   "THREAD_CANCEL", "THREAD_EXIT", "MUTEX_CREATE"}

ASSUME KernelAssumption ==
  /\ SemExecInicial \in Nat
  /\ MaxFallas \in Nat
  /\ Syscalls \subseteq Motivos
  /\ Algoritmos \subseteq {"FIFO", "CMN"}
  /\ Basura \subseteq Nat

VARIABLES
  estado,         \* the kernel process: "corriendo", "terminado" or "abortado"
  memoria, cpu,   \* the peers: "viva" or "caida" (they never restart)
  fallas,         \* FAILURE answers given so far
  pc,             \* where each kernel thread is
  nuevo,          \* the PID each caller of process_create is building
  tcb_exec,       \* exec_tcb's local: the TCB it dispatched
  tcb_salida,     \* exit_tcb's local tcb_to_remove
  por_salir,      \* TCBs list_iterate has still to visit in send_pid_exit
  tcb,            \* the TCBs malloc'ed so far; a TCB is its index here
  TIDs,           \* TIDs[pid]: the PCB's list of TCBs (a PID is an index)
  process_list, new_queue, ready_list, blocked_queue, exit_queue,
  sem_new, sem_ready, sem_exec, sem_exit,
  confirmados,    \* PIDs whose creation Memoria answered SUCCESS to
  despachados,    \* TCBs sent to the CPU, in order
  avisados        \* TCBs whose THREAD_KILL was sent to Memoria

entorno   == <<memoria, cpu, fallas>>
locales   == <<nuevo, tcb_exec, tcb_salida, por_salir>>
heap      == <<tcb, TIDs>>
colas     == <<process_list, new_queue, ready_list, blocked_queue, exit_queue>>
semaforos == <<sem_new, sem_ready, sem_exec, sem_exit>>
mensajes  == <<confirmados, despachados, avisados>>
vars == <<estado, pc, entorno, locales, heap, colas, semaforos, mensajes>>

NULL == 0

Creadores == {"main", "ready", "exec"}   \* the threads that call process_create
Hilos     == Creadores \cup {"exit"}

-----------------------------------------------------------------------------
(* Helpers                                                                 *)

Corriendo == estado = "corriendo"

Paso(h, desde, hasta) ==
  /\ Corriendo
  /\ pc[h] = desde
  /\ pc' = [pc EXCEPT ![h] = hasta]
  /\ UNCHANGED <<estado, memoria, cpu>>

\* abort(), a signal, or main returning: every thread of the process is gone.
Morir(final) ==
  /\ Corriendo
  /\ estado' = final
  /\ UNCHANGED <<pc, entorno, locales, heap, colas, semaforos, mensajes>>

\* list_remove_element: the first occurrence goes, or nothing does.
Sin(lista, x) ==
  LET antes(i) == \A j \in 1..i-1 : lista[j] # x
  IN  IF \E i \in DOMAIN lista : lista[i] = x
      THEN LET i == CHOOSE i \in DOMAIN lista : lista[i] = x /\ antes(i)
           IN  SubSeq(lista, 1, i-1) \o SubSeq(lista, i+1, Len(lista))
      ELSE lista

\* t is what get_thread(pid, tid) returns: the first TCB of the process whose
\* TID field is tid.
EsGetThread(pid, tid, t) ==
  \E i \in DOMAIN TIDs[pid] :
     /\ TIDs[pid][i] = t
     /\ tcb[t].TID = tid
     /\ \A j \in 1..i-1 : tcb[TIDs[pid][j]].TID # tid

\* TIDs[pid][1] is the main thread process_create allocates with the PCB.
Principal(pid) == TIDs[pid][1]

\* Where a caller of process_create continues when the call returns.
Retorno == [main |-> "planificar", ready |-> "sem_new", exec |-> "sem_ready"]

Init ==
  /\ estado = "corriendo"
  /\ memoria = "viva" /\ cpu = "viva" /\ fallas = 0
  /\ pc = [h \in Hilos |-> IF h = "main" THEN "process_create" ELSE "sin_crear"]
  /\ nuevo = [h \in Creadores |-> NULL]
  /\ tcb_exec = NULL /\ tcb_salida = NULL /\ por_salir = <<>>
  /\ tcb = <<>> /\ TIDs = <<>>
  /\ process_list = {}
  /\ new_queue = <<>> /\ ready_list = <<>>
  /\ blocked_queue = <<>> /\ exit_queue = <<>>
  /\ sem_new = 0 /\ sem_ready = 0 /\ sem_exec = SemExecInicial /\ sem_exit = 0
  /\ confirmados = {} /\ despachados = <<>> /\ avisados = {}

-----------------------------------------------------------------------------
(* process_create(), run by main, ready_tcb and exec_tcb                   *)

\* malloc of the PCB and its main TCB, then connect_to_memory().
Alocar(h) ==
  /\ Paso(h, "process_create", "recv")
  /\ memoria = "viva"
  /\ LET pid == Len(TIDs) + 1
     IN  /\ tcb' = Append(tcb, [PID |-> pid, TID |-> 0, TID_wait |-> -1,
                                libre |-> FALSE])
         /\ TIDs' = Append(TIDs, <<Len(tcb) + 1>>)
         /\ nuevo' = [nuevo EXCEPT ![h] = pid]
  /\ UNCHANGED <<fallas, tcb_exec, tcb_salida, por_salir, colas, semaforos,
                 mensajes>>

\* Memoria answers the byte SUCCESS.
RecvSuccess(h) ==
  /\ Paso(h, "recv", "add_ready")
  /\ memoria = "viva"
  /\ confirmados' = confirmados \cup {nuevo[h]}
  /\ UNCHANGED <<fallas, locales, heap, colas, semaforos, despachados, avisados>>

\* Mutant: a FAILURE answer taken for SUCCESS.
RecvFailureComoExito(h) ==
  /\ Paso(h, "recv", "add_ready")
  /\ memoria = "viva" /\ fallas < MaxFallas
  /\ fallas' = fallas + 1
  /\ UNCHANGED <<locales, heap, colas, semaforos, mensajes>>

\* Memoria answers FAILURE.
RecvFailure(h) ==
  /\ Paso(h, "recv", "add_new")
  /\ memoria = "viva" /\ fallas < MaxFallas
  /\ fallas' = fallas + 1
  /\ UNCHANGED <<locales, heap, colas, semaforos, mensajes>>

\* Memoria died before answering (at the handshake, whose -1 passes the test
\* "< -1", or later): recv leaves res at its initial 0, which is SUCCESS.
RecvSinRespuesta(h) ==
  /\ Paso(h, "recv", "add_ready")
  /\ memoria = "caida"
  /\ UNCHANGED <<fallas, locales, heap, colas, semaforos, mensajes>>

\* Mutant: the PCB is never added to process_list.
AddReadySinPcb(h) ==
  /\ Paso(h, "add_ready", "post_ready")
  /\ ready_list' = Append(ready_list, Principal(nuevo[h]))
  /\ UNCHANGED <<fallas, locales, heap, process_list, new_queue, blocked_queue,
                 exit_queue, semaforos, mensajes>>

AddReady(h) ==
  /\ Paso(h, "add_ready", "add_proc")
  /\ ready_list' = Append(ready_list, Principal(nuevo[h]))
  /\ UNCHANGED <<fallas, locales, heap, process_list, new_queue, blocked_queue,
                 exit_queue, semaforos, mensajes>>

AddProc(h) ==
  /\ Paso(h, "add_proc", "post_ready")
  /\ process_list' = process_list \cup {nuevo[h]}
  /\ UNCHANGED <<fallas, locales, heap, new_queue, ready_list, blocked_queue,
                 exit_queue, semaforos, mensajes>>

PostReady(h) ==
  /\ Paso(h, "post_ready", Retorno[h])
  /\ sem_ready' = sem_ready + 1
  /\ UNCHANGED <<fallas, locales, heap, colas, sem_new, sem_exec, sem_exit,
                 mensajes>>

AddNew(h) ==
  /\ Paso(h, "add_new", "post_new")
  /\ new_queue' = Append(new_queue, nuevo[h])
  /\ UNCHANGED <<fallas, locales, heap, process_list, ready_list, blocked_queue,
                 exit_queue, semaforos, mensajes>>

\* Mutant: sem_new is not posted.
SinPostNew(h) ==
  /\ Paso(h, "post_new", Retorno[h])
  /\ UNCHANGED <<fallas, locales, heap, colas, semaforos, mensajes>>

PostNew(h) ==
  /\ Paso(h, "post_new", Retorno[h])
  /\ sem_new' = sem_new + 1
  /\ UNCHANGED <<fallas, locales, heap, colas, sem_ready, sem_exec, sem_exit,
                 mensajes>>

\* crear_conexion aborts the whole process when Memoria does not listen.
AbortaSinMemoria(h) ==
  /\ pc[h] \in {"process_create", "thread_create", "thread_cancel"}
  /\ memoria = "caida"
  /\ Morir("abortado")

ProcessCreate(h) ==
  \/ Alocar(h)
  \/ RecvSuccess(h) \/ RecvFailure(h) \/ RecvSinRespuesta(h)
  \/ AddReady(h) \/ AddProc(h) \/ PostReady(h)
  \/ AddNew(h) \/ PostNew(h)

-----------------------------------------------------------------------------
(* main                                                                    *)

\* planificar(): the three threads start, main goes to wait for the operator.
Planificar ==
  /\ Corriendo
  /\ pc["main"] = "planificar"
  /\ pc' = [main |-> "readline", ready |-> "sem_new", exit |-> "sem_exit",
            exec |-> "crear_conexion"]
  /\ UNCHANGED <<estado, entorno, locales, heap, colas, semaforos, mensajes>>

\* The operator answers readline(): main returns and the process ends.
FinMain ==
  /\ pc["main"] = "readline"
  /\ Morir("terminado")

-----------------------------------------------------------------------------
(* ready_tcb                                                               *)

SemWaitNew ==
  /\ Paso("ready", "sem_new", "sacar_new")
  /\ sem_new > 0
  /\ sem_new' = sem_new - 1
  /\ UNCHANGED <<fallas, locales, heap, colas, sem_ready, sem_exec, sem_exit,
                 mensajes>>

\* Mutant: the sem_post(&sem_ready) commented out in ready_tcb is there.
SacarNewConPost ==
  /\ Paso("ready", "sacar_new", "process_create")
  /\ new_queue # <<>>
  /\ new_queue' = Tail(new_queue)
  /\ sem_ready' = sem_ready + 1
  /\ UNCHANGED <<fallas, locales, heap, process_list, ready_list, blocked_queue,
                 exit_queue, sem_new, sem_exec, sem_exit, mensajes>>

\* The retry is a new process_create with the old main TCB's file_path.
SacarNew ==
  /\ Paso("ready", "sacar_new", "process_create")
  /\ new_queue # <<>>
  /\ new_queue' = Tail(new_queue)
  /\ UNCHANGED <<fallas, locales, heap, process_list, ready_list, blocked_queue,
                 exit_queue, semaforos, mensajes>>

\* file_path was never assigned: strlen of it may fault (as does a NULL PCB).
SacarNewFalla ==
  /\ pc["ready"] = "sacar_new"
  /\ Morir("abortado")

-----------------------------------------------------------------------------
(* exit_tcb                                                                *)

SemWaitExit ==
  /\ Paso("exit", "sem_exit", "sacar_exit")
  /\ sem_exit > 0
  /\ sem_exit' = sem_exit - 1
  /\ UNCHANGED <<fallas, locales, heap, colas, sem_new, sem_ready, sem_exec,
                 mensajes>>

\* thread_back_to_ready(PID, TID_wait): the waiting TCB leaves blocked_queue
\* and joins ready_list; sem_ready is not posted.
ThreadBackToReady(t) ==
  \E e \in NULL..Len(tcb) :
     /\ \/ EsGetThread(tcb[t].PID, tcb[t].TID_wait, e)
        \/ e = NULL /\ \A x \in DOMAIN tcb :
                          ~EsGetThread(tcb[t].PID, tcb[t].TID_wait, x)
     /\ blocked_queue' = Sin(blocked_queue, e)
     /\ ready_list' = Append(ready_list, e)

SacarExit ==
  /\ Paso("exit", "sacar_exit", "thread_cancel")
  /\ exit_queue # <<>>
  /\ exit_queue' = Tail(exit_queue)
  /\ tcb_salida' = Head(exit_queue)
  /\ IF tcb[Head(exit_queue)].TID_wait > -1
     THEN ThreadBackToReady(Head(exit_queue))
     ELSE UNCHANGED <<blocked_queue, ready_list>>
  /\ UNCHANGED <<fallas, nuevo, tcb_exec, por_salir, heap, process_list,
                 new_queue, semaforos, mensajes>>

\* Mutant: the TCB is freed before the message is built from it.
ConectarYaLibre ==
  /\ Paso("exit", "thread_cancel", "enviar_kill")
  /\ memoria = "viva"
  /\ tcb' = [tcb EXCEPT ![tcb_salida].libre = TRUE]
  /\ UNCHANGED <<fallas, locales, TIDs, colas, semaforos, mensajes>>

\* thread_cancel(): connected; what is left is the handshake and the send.
ConectarKill ==
  /\ Paso("exit", "thread_cancel", "enviar_kill")
  /\ memoria = "viva"
  /\ UNCHANGED <<fallas, locales, heap, colas, semaforos, mensajes>>

\* A failed handshake skips the send; no answer is awaited either way.
EnviarKill ==
  /\ Paso("exit", "enviar_kill", "free")
  /\ avisados' = IF memoria = "viva" THEN avisados \cup {tcb_salida}
                                     ELSE avisados
  /\ UNCHANGED <<fallas, locales, heap, colas, semaforos, confirmados,
                 despachados>>

\* free(tcb_to_remove); the PCB's TIDs list keeps the pointer.
LiberarTcb ==
  /\ Paso("exit", "free", "sem_exit")
  /\ tcb' = [tcb EXCEPT ![tcb_salida].libre = TRUE]
  /\ UNCHANGED <<fallas, locales, TIDs, colas, semaforos, mensajes>>

-----------------------------------------------------------------------------
(* exec_tcb: the loop                                                      *)

ConectarCpu ==
  /\ Paso("exec", "crear_conexion", "sem_ready")
  /\ cpu = "viva"
  /\ UNCHANGED <<fallas, locales, heap, colas, semaforos, mensajes>>

AbortaSinCpu ==
  /\ pc["exec"] = "crear_conexion" /\ cpu = "caida"
  /\ Morir("abortado")

\* sem_wait(&sem_ready) has two callers on this thread: the loop, and
\* exit_process, which send_pid_exit runs for each TCB of the process and
\* which then removes the TCB from ready_list (without the mutex), queues it
\* in exit_queue and posts sem_exit.
SemWaitReady ==
  /\ Corriendo
  /\ pc["exec"] \in {"sem_ready", "process_exit"}
  /\ sem_ready > 0
  /\ sem_ready' = sem_ready - 1
  /\ IF pc["exec"] = "sem_ready"
     THEN /\ pc' = [pc EXCEPT !["exec"] = "sem_exec"]
          /\ UNCHANGED <<por_salir, ready_list, exit_queue, sem_exit>>
     ELSE /\ por_salir' = Tail(por_salir)
          /\ ready_list' = Sin(ready_list, Head(por_salir))
          /\ exit_queue' = Append(exit_queue, Head(por_salir))
          /\ sem_exit' = sem_exit + 1
          /\ pc' = [pc EXCEPT !["exec"] = IF Len(por_salir) = 1
                                          THEN "process_kill" ELSE @]
  /\ UNCHANGED <<estado, entorno, nuevo, tcb_exec, tcb_salida, heap,
                 process_list, new_queue, blocked_queue, sem_new, sem_exec,
                 mensajes>>

SemWaitExec ==
  /\ Paso("exec", "sem_exec", "elegir")
  /\ sem_exec > 0
  /\ sem_exec' = sem_exec - 1
  /\ UNCHANGED <<fallas, locales, heap, colas, sem_new, sem_ready, sem_exit,
                 mensajes>>

\* Mutant: the sem_post(&sem_ready) commented out in exec_tcb is there.
DespacharConPost ==
  /\ Paso("exec", "elegir", "buffer_recv")
  /\ "FIFO" \in Algoritmos /\ ready_list # <<>>
  /\ tcb_exec' = Head(ready_list)
  /\ ready_list' = Tail(ready_list)
  /\ despachados' = Append(despachados, Head(ready_list))
  /\ sem_ready' = sem_ready + 1
  /\ UNCHANGED <<fallas, nuevo, tcb_salida, por_salir, heap, process_list,
                 new_queue, blocked_queue, exit_queue, sem_new, sem_exec,
                 sem_exit, confirmados, avisados>>

\* Mutant: the TCB chosen stays in ready_list.
DespacharSinSacar ==
  /\ Paso("exec", "elegir", "buffer_recv")
  /\ "FIFO" \in Algoritmos /\ ready_list # <<>>
  /\ tcb_exec' = Head(ready_list)
  /\ despachados' = Append(despachados, Head(ready_list))
  /\ UNCHANGED <<fallas, nuevo, tcb_salida, por_salir, heap, colas, semaforos,
                 confirmados, avisados>>

\* elegir_tcb_segun_algoritmo (FIFO) and dispatch.
Despachar ==
  /\ Paso("exec", "elegir", "buffer_recv")
  /\ "FIFO" \in Algoritmos /\ ready_list # <<>>
  /\ tcb_exec' = Head(ready_list)
  /\ ready_list' = Tail(ready_list)
  /\ despachados' = Append(despachados, Head(ready_list))
  /\ UNCHANGED <<fallas, nuevo, tcb_salida, por_salir, heap, process_list,
                 new_queue, blocked_queue, exit_queue, semaforos, confirmados,
                 avisados>>

\* CMN, or an empty ready_list, gives NULL, which dispatch dereferences.
\* ALGORITMO is set once and read only to choose a thread, so which one it is
\* shows at the first choice.
DespacharNull ==
  /\ pc["exec"] = "elegir"
  /\ ready_list # <<>> => "CMN" \in Algoritmos /\ despachados = <<>>
  /\ Morir("abortado")

-----------------------------------------------------------------------------
(* exec_tcb: atender_motivo.  The CPU answers for the thread it was sent,  *)
(* so the PID and TID in the message are those of tcb_exec.                *)

\* What a THREAD_JOIN or THREAD_CANCEL may name: the main thread, or another.
TidsPedidos == {0, 1}

Pid == tcb[tcb_exec].PID

Motivo(m, hasta) ==
  /\ m \in Syscalls
  /\ cpu = "viva"
  /\ Paso("exec", "buffer_recv", hasta)

AtenderProcessCreate ==
  /\ Motivo("PROCESS_CREATE", "process_create")
  /\ UNCHANGED <<fallas, locales, heap, colas, semaforos, mensajes>>

\* buffer_read_string stores the length through srt_size, an uninitialised
\* int: the process may be killed there instead of going on.
LeerStringFalla ==
  /\ pc["exec"] = "buffer_recv" /\ cpu = "viva"
  /\ Syscalls \cap {"PROCESS_CREATE", "THREAD_CREATE", "MUTEX_CREATE"} # {}
  /\ Morir("abortado")

\* Only the main thread's PROCESS_EXIT does anything: send_pid_exit starts
\* its list_iterate over the process's TCBs (it goes on in SemWaitReady).
AtenderProcessExit ==
  /\ Motivo("PROCESS_EXIT",
            IF tcb[tcb_exec].TID = 0 THEN "process_exit" ELSE "sem_ready")
  /\ por_salir' = IF tcb[tcb_exec].TID = 0 THEN TIDs[Pid] ELSE por_salir
  /\ UNCHANGED <<fallas, nuevo, tcb_exec, tcb_salida, heap, colas, semaforos,
                 mensajes>>

AtenderThreadCreate ==
  /\ Motivo("THREAD_CREATE", "thread_create")
  /\ UNCHANGED <<fallas, locales, heap, colas, semaforos, mensajes>>

ConectarHilo ==
  /\ Paso("exec", "thread_create", "enviar_hilo")
  /\ memoria = "viva"
  /\ UNCHANGED <<fallas, locales, heap, colas, semaforos, mensajes>>

\* The new TCB is malloc'ed and no field of it is assigned.
EnviarHilo ==
  /\ Paso("exec", "enviar_hilo", "add_hilo")
  /\ \E pid, tid \in Basura, espera \in Basura \cup {-1} :
        tcb' = Append(tcb, [PID |-> pid, TID |-> tid, TID_wait |-> espera,
                            libre |-> FALSE])
  /\ TIDs' = [TIDs EXCEPT ![Pid] = Append(@, Len(tcb) + 1)]
  /\ UNCHANGED <<fallas, locales, colas, semaforos, mensajes>>

\* connect_to_memory returns -1: nothing is sent and no TCB is allocated.
HandshakeFalla ==
  /\ Paso("exec", "enviar_hilo", "sem_ready")
  /\ memoria = "caida"
  /\ UNCHANGED <<fallas, locales, heap, colas, semaforos, mensajes>>

\* Mutant: sem_ready is posted for the new thread.
AddHiloConPost ==
  /\ Paso("exec", "add_hilo", "sem_ready")
  /\ ready_list' = Append(ready_list, TIDs[Pid][Len(TIDs[Pid])])
  /\ sem_ready' = sem_ready + 1
  /\ UNCHANGED <<fallas, locales, heap, process_list, new_queue, blocked_queue,
                 exit_queue, sem_new, sem_exec, sem_exit, mensajes>>

\* The new TCB is the last one allocated; sem_ready is not posted.
AddHilo ==
  /\ Paso("exec", "add_hilo", "sem_ready")
  /\ ready_list' = Append(ready_list, TIDs[Pid][Len(TIDs[Pid])])
  /\ UNCHANGED <<fallas, locales, heap, process_list, new_queue, blocked_queue,
                 exit_queue, semaforos, mensajes>>

\* The TCB named gets the caller as TID_wait, and what goes to blocked_queue
\* is the head of ready_list (NULL when list_remove finds it empty).
AtenderThreadJoin ==
  \E tid \in TidsPedidos, t \in DOMAIN tcb :
     /\ Motivo("THREAD_JOIN", "sem_ready")
     /\ EsGetThread(Pid, tid, t)
     /\ tcb' = [tcb EXCEPT ![t].TID_wait = tcb[tcb_exec].TID]
     /\ blocked_queue' = Append(blocked_queue,
                                IF ready_list = <<>> THEN NULL ELSE Head(ready_list))
     /\ ready_list' = IF ready_list = <<>> THEN <<>> ELSE Tail(ready_list)
     /\ UNCHANGED <<fallas, locales, TIDs, process_list, new_queue, exit_queue,
                    semaforos, mensajes>>

\* The TCB changes list; sem_exit is not posted.
AtenderThreadCancel ==
  \E tid \in TidsPedidos, t \in DOMAIN tcb :
     /\ Motivo("THREAD_CANCEL", "sem_ready")
     /\ EsGetThread(Pid, tid, t)
     /\ ready_list' = Sin(ready_list, t)
     /\ exit_queue' = Append(exit_queue, t)
     /\ UNCHANGED <<fallas, locales, heap, process_list, new_queue, blocked_queue,
                    semaforos, mensajes>>

\* get_thread found no such TID.
AtenderTidInexistente ==
  /\ \E m \in {"THREAD_JOIN", "THREAD_CANCEL"}, tid \in TidsPedidos :
        /\ Motivo(m, "sem_ready")
        /\ \A t \in DOMAIN tcb : ~EsGetThread(Pid, tid, t)
  /\ UNCHANGED <<fallas, locales, heap, colas, semaforos, mensajes>>

\* send_tcb_exit, in three steps: the queue, the semaphore, the log line
\* (which reads the TCB it has just handed to exit_tcb).
AtenderThreadExit ==
  /\ Motivo("THREAD_EXIT", "post_exit")
  /\ exit_queue' = Append(exit_queue, tcb_exec)
  /\ UNCHANGED <<fallas, locales, heap, process_list, new_queue, ready_list,
                 blocked_queue, semaforos, mensajes>>

\* Mutant: sem_exit is not posted.
SinPostExit ==
  /\ Paso("exec", "post_exit", "log_exit")
  /\ UNCHANGED <<fallas, locales, heap, colas, semaforos, mensajes>>

PostExit ==
  /\ Paso("exec", "post_exit", "log_exit")
  /\ sem_exit' = sem_exit + 1
  /\ UNCHANGED <<fallas, locales, heap, colas, sem_new, sem_ready, sem_exec,
                 mensajes>>

\* Mutant: sem_exec is given back when the thread ends.
LogExitConPost ==
  /\ Paso("exec", "log_exit", "sem_ready")
  /\ sem_exec' = sem_exec + 1
  /\ UNCHANGED <<fallas, locales, heap, colas, sem_new, sem_ready, sem_exit,
                 mensajes>>

\* Mutant: exec_tcb goes on serving the thread, as the CPU goes on running it.
LogExitSigue ==
  /\ Paso("exec", "log_exit", "buffer_recv")
  /\ UNCHANGED <<fallas, locales, heap, colas, semaforos, mensajes>>

LogExit ==
  /\ Paso("exec", "log_exit", "sem_ready")
  /\ UNCHANGED <<fallas, locales, heap, colas, semaforos, mensajes>>

AtenderSinEfecto ==
  /\ \E m \in SinEfecto \cup {"MUTEX_CREATE"} : Motivo(m, "sem_ready")
  /\ UNCHANGED <<fallas, locales, heap, colas, semaforos, mensajes>>

\* The CPU died: buffer_recv reads nothing, so the size and the motivo are
\* whatever malloc returned.  Either no case matches or the process faults.
RecvSinCpu ==
  /\ Paso("exec", "buffer_recv", "sem_ready")
  /\ cpu = "caida"
  /\ UNCHANGED <<fallas, locales, heap, colas, semaforos, mensajes>>

FallaSinCpu ==
  /\ pc["exec"] = "buffer_recv" /\ cpu = "caida"
  /\ Morir("abortado")

-----------------------------------------------------------------------------
(* The peers                                                               *)

MemoriaCae ==
  /\ Corriendo /\ memoria = "viva"
  /\ memoria' = "caida"
  /\ UNCHANGED <<estado, pc, cpu, fallas, locales, heap, colas, semaforos, mensajes>>

CpuCae ==
  /\ Corriendo /\ cpu = "viva"
  /\ cpu' = "caida"
  /\ UNCHANGED <<estado, pc, memoria, fallas, locales, heap, colas, semaforos,
                 mensajes>>

-----------------------------------------------------------------------------
(* The specification                                                       *)

HiloMain == ProcessCreate("main") \/ AbortaSinMemoria("main") \/ Planificar

HiloReady ==
  \/ SemWaitNew \/ SacarNew \/ SacarNewFalla
  \/ ProcessCreate("ready") \/ AbortaSinMemoria("ready")

HiloExit ==
  \/ SemWaitExit \/ SacarExit
  \/ ConectarKill \/ AbortaSinMemoria("exit") \/ EnviarKill
  \/ LiberarTcb

HiloExec ==
  \/ ConectarCpu \/ AbortaSinCpu
  \/ SemWaitReady \/ SemWaitExec \/ Despachar \/ DespacharNull
  \/ ProcessCreate("exec") \/ AbortaSinMemoria("exec")
  \/ ConectarHilo \/ EnviarHilo \/ HandshakeFalla \/ AddHilo
  \/ PostExit \/ LogExit
  \/ RecvSinCpu \/ FallaSinCpu

\* A syscall arrives: the CPU decides when, and which.
LlegaMotivo ==
  \/ AtenderProcessCreate \/ LeerStringFalla
  \/ AtenderProcessExit
  \/ AtenderThreadCreate
  \/ AtenderThreadJoin \/ AtenderThreadCancel \/ AtenderTidInexistente
  \/ AtenderThreadExit
  \/ AtenderSinEfecto

Next ==
  \/ HiloMain \/ HiloReady \/ HiloExit \/ HiloExec
  \/ LlegaMotivo
  \/ MemoriaCae \/ CpuCae \/ FinMain

Spec == Init /\ [][Next]_vars

\* The scheduler of the host runs every thread that can run, and a live
\* Memoria answers.  The operator, the CPU's syscalls and the crashes of the
\* peers are not fair: none of them has to happen.
FairSpec ==
  /\ Spec
  /\ WF_vars(HiloMain)
  /\ WF_vars(HiloReady)
  /\ WF_vars(HiloExit)
  /\ WF_vars(HiloExec)

=============================================================================
