----------------------------- MODULE KernelProps -----------------------------
(***************************************************************************)
(* What the kernel process promises, as properties of the module Kernel.   *)
(***************************************************************************)
EXTENDS Kernel

Hay(b) == IF b THEN 1 ELSE 0

Apariciones(lista, x) == {i \in DOMAIN lista : lista[i] = x}
EstaEn(lista, x) == \E i \in DOMAIN lista : lista[i] = x

TCBs == 1..Len(tcb)
PIDs == 1..Len(TIDs)

EtiquetasCrear ==
  {"process_create", "recv", "add_ready", "add_proc", "post_ready", "add_new",
   "post_new"}

\* exec_tcb is serving the TCB it dispatched: waiting for its syscall, or
\* inside the case of it that still uses the TCB.
EtiquetasAtender ==
  {"buffer_recv", "post_exit", "log_exit", "thread_create", "enviar_hilo",
   "add_hilo", "process_exit", "process_kill"}

EtiquetasBucle ==
  {"sin_crear", "crear_conexion", "sem_ready", "sem_exec", "elegir"}

EtiquetasExit ==
  {"sin_crear", "sem_exit", "sacar_exit", "thread_cancel", "enviar_kill", "free"}

\* exit_tcb holds a TCB that it has taken out of exit_queue.
EnManos == pc["exit"] \in {"thread_cancel", "enviar_kill", "free"}

Etiquetas ==
  EtiquetasCrear \cup EtiquetasAtender \cup EtiquetasBucle \cup EtiquetasExit
  \cup {"planificar", "readline", "sem_new", "sacar_new"}

TipoControl ==
  /\ estado \in {"corriendo", "terminado", "abortado"}
  /\ memoria \in {"viva", "caida"} /\ cpu \in {"viva", "caida"}
  /\ fallas \in Nat
  /\ sem_new \in Nat /\ sem_ready \in Nat /\ sem_exec \in Nat /\ sem_exit \in Nat
  /\ pc \in [Hilos -> Etiquetas]
  /\ pc["main"]  \in EtiquetasCrear \cup {"planificar", "readline"}
  /\ pc["ready"] \in EtiquetasCrear \cup {"sin_crear", "sem_new", "sacar_new"}
  /\ pc["exit"]  \in EtiquetasExit
  /\ pc["exec"]  \in EtiquetasCrear \cup EtiquetasAtender \cup EtiquetasBucle

TipoTcb == [PID : Nat, TID : Nat, TID_wait : Int, libre : BOOLEAN]

TipoHeap == tcb \in Seq(TipoTcb) /\ TIDs \in Seq(Seq(TCBs))

TipoReferencias ==
  /\ nuevo \in [Creadores -> {NULL} \cup PIDs]
  /\ tcb_exec \in {NULL} \cup TCBs /\ tcb_salida \in {NULL} \cup TCBs
  /\ por_salir \in Seq(TCBs)
  /\ process_list \subseteq PIDs /\ new_queue \in Seq(PIDs)
  /\ ready_list \in Seq(TCBs) /\ exit_queue \in Seq(TCBs)
  /\ blocked_queue \in Seq({NULL} \cup TCBs)
  /\ confirmados \subseteq PIDs
  /\ despachados \in Seq(TCBs) /\ avisados \subseteq TCBs

\* The types of the kernel's globals and of its threads' locals.
TypeOK == TipoControl /\ TipoHeap /\ TipoReferencias

-----------------------------------------------------------------------------
(* Safety                                                                  *)

\* Every unit of a semaphore, and every thread that has taken one and not yet
\* popped, is backed by an element of the list the semaphore counts: ready_tcb,
\* exec_tcb and exit_tcb never take from an empty list (list_remove and
\* queue_pop would give NULL, which they dereference).  THREAD_JOIN alone takes
\* from ready_list without a semaphore: it finds it empty, and blocks NULL.
SemaforosRespaldados ==
  /\ sem_new + Hay(pc["ready"] = "sacar_new") <= Len(new_queue)
  /\ sem_ready + Hay(pc["exec"] \in {"sem_exec", "elegir"}) <= Len(ready_list)
  /\ sem_exit + Hay(pc["exit"] = "sacar_exit") <= Len(exit_queue)

\* The processes in flight: being created, in new_queue or READY with its post
\* made, or taken by exec_tcb and not yet dispatched.
Fichas ==
  Hay(pc["main"] \in EtiquetasCrear) + Hay(pc["ready"] \in EtiquetasCrear)
  + Hay(pc["exec"] \in EtiquetasCrear)
  + sem_new + Hay(pc["ready"] = "sacar_new")
  + sem_ready + Hay(pc["exec"] \in {"sem_exec", "elegir"})

\* Whatever sem_exec starts at, the kernel never has more than one process on
\* its way to the CPU, and none while exec_tcb serves a dispatched thread: only
\* process_create posts sem_ready, and each dispatch uses one post up.
UnaSolaFicha ==
  /\ Fichas <= 1
  /\ pc["exec"] \in EtiquetasAtender => Fichas = 0

\* What the CPU runs is always a main thread built by process_create, at most
\* once each: a TCB that thread_create queues in READY is never dispatched.
SoloCorrenPrincipales ==
  \A i \in DOMAIN despachados :
     /\ \E pid \in PIDs : despachados[i] = Principal(pid)
     /\ \A j \in 1..i-1 : despachados[j] # despachados[i]

\* sem_exec is only ever taken: the CPU gets at most as many threads as the
\* semaphore started with.
DespachoPresupuestado ==
  Len(despachados) + sem_exec + Hay(pc["exec"] = "elegir") = SemExecInicial

\* While exec_tcb serves a TCB its process is in process_list, so get_process
\* never returns the NULL that get_thread, send_pid_exit and thread_create
\* would dereference (process_create queues the TCB before it adds the PCB).
DespachadoRegistrado ==
  pc["exec"] \in EtiquetasAtender =>
     /\ tcb_exec \in TCBs
     /\ tcb[tcb_exec].PID \in process_list
     /\ EstaEn(TIDs[tcb[tcb_exec].PID], tcb_exec)

\* As long as Memoria has not died, a process that reached READY or the CPU is
\* one whose creation Memoria confirmed, FAILURE answers and retries included.
\* When it dies without an answer this is lost: see ReadySoloConRespuesta.
DespachadoConfirmado ==
  memoria = "viva" =>
     \A pid \in PIDs :
        \/ EstaEn(ready_list, Principal(pid))
        \/ EstaEn(despachados, Principal(pid))
        \/ pid \in process_list
        => pid \in confirmados

\* A TCB is in one place only - ready_list, exit_queue, blocked_queue, on the
\* CPU, or in exit_tcb's hands - once, and no list holds a freed TCB.
UnSoloLugar ==
  \A t \in TCBs :
     LET lugares == <<ready_list, exit_queue, blocked_queue,
                      IF pc["exec"] = "buffer_recv" THEN <<tcb_exec>> ELSE <<>>,
                      IF EnManos THEN <<tcb_salida>> ELSE <<>>>>
         donde == {x \in (DOMAIN lugares) \X TCBs :
                      x[2] \in DOMAIN lugares[x[1]] /\ lugares[x[1]][x[2]] = t}
     IN  /\ \A x, y \in donde : x = y
         /\ tcb[t].libre => donde = {}

\* get_thread and send_pid_exit read every TCB of a TIDs list, from which free()
\* takes no pointer out: while exec_tcb may look a thread up there, or exit_tcb
\* the one that waits for what it is about to take, none in that list is freed.
SinLeerLiberado ==
  \A pid \in PIDs :
     \/ pc["exec"] \in EtiquetasAtender \ {"log_exit"} /\ Pid = pid
     \/ /\ pc["exit"] = "sacar_exit" /\ exit_queue # <<>>
        /\ tcb[Head(exit_queue)].PID = pid
     => \A i \in DOMAIN TIDs[pid] : ~tcb[TIDs[pid][i]].libre

\* thread_cancel has returned for t, whose next step, or last, is free().
Acabado(t) == tcb[t].libre \/ (t = tcb_salida /\ pc["exit"] = "free")

\* What the kernel asks Memoria for is what Memoria can serve, get_thread being
\* NULL otherwise: a THREAD_CREATION names a process it confirmed and was not
\* told the end of; a THREAD_KILL, a main thread that ran, once; and no TCB is
\* freed that a living Memoria has not been told about.  (The module Memoria
\* takes its clients to be like this.)
PedidosLegales ==
  memoria = "viva" =>
    /\ pc["exec"] = "enviar_hilo" =>
          Pid \in confirmados /\ Principal(Pid) \notin avisados
    /\ pc["exit"] = "enviar_kill" =>
          /\ EstaEn(despachados, tcb_salida) /\ tcb_salida \notin avisados
          /\ \E pid \in confirmados : tcb_salida = Principal(pid)
    /\ \A t \in TCBs : tcb[t].libre => t \in avisados

-----------------------------------------------------------------------------
(* Actions                                                                 *)

\* PROCESS_EXIT is a dead end for exec_tcb: once inside send_pid_exit it never
\* gets past the sem_wait(&sem_ready) of the first TCB.
ProcessExitNuncaAvanza ==
  [][pc["exec"] = "process_exit" => pc'["exec"] = "process_exit"
                                    /\ por_salir' = por_salir]_vars

-----------------------------------------------------------------------------
(* The abstract specification                                              *)

\* exit_tcb has the TCB, or will.
EnSalida(t) ==
  \/ EstaEn(exit_queue, t)
  \/ tcb_salida = t /\ EnManos

\* The state of the process whose main TCB is t.
Vida(t) ==
  IF tcb[t].libre THEN "FIN"
  ELSE IF EnSalida(t) THEN "EXIT"
  ELSE IF EstaEn(ready_list, t) THEN "READY"
  ELSE IF ~EstaEn(despachados, t) THEN "NEW"
  ELSE IF tcb_exec = t /\ pc["exec"] \in EtiquetasAtender THEN "EXEC"
  ELSE "SUELTO"

Vidas == [pid \in PIDs |-> Vida(Principal(pid))]

Plan == INSTANCE Planificador WITH vida <- Vidas

\* The kernel implements Planificador: with its three threads, four lists and
\* four semaphores, a process is alone from READY until the CPU is done with
\* it, never comes back, and ends only through EXIT.
Planifica == Plan!Spec

-----------------------------------------------------------------------------
(* Liveness                                                                *)

\* However often Memoria refuses it, some process gets to the CPU, unless the
\* kernel ends.
PrimerDespacho == <>(despachados # <<>> \/ estado # "corriendo")

\* A process Memoria refused is taken out of new_queue and created again.
ReintentoDeNew ==
  new_queue # <<>> ~> (new_queue = <<>> \/ estado # "corriendo")

\* THREAD_EXIT reaches Memoria: exit_tcb sends the THREAD_KILL of the thread
\* and frees its TCB, unless Memoria died or the kernel ended.
ExitAvisaMemoria ==
  pc["exec"] = "post_exit" ~>
     \/ tcb_exec \in avisados /\ tcb[tcb_exec].libre
     \/ memoria = "caida" \/ estado # "corriendo"

-----------------------------------------------------------------------------
(* The inductive invariant behind the safety properties.  The first        *)
(* conjuncts count the one process in flight; the others say what the      *)
(* lists hold as long as there is one, or exec_tcb may still make one.     *)

\* Until planificar() no other thread exists.
Arranque ==
  pc["main"] # "readline" => \A h \in Hilos \ {"main"} : pc[h] = "sin_crear"

\* The PCB a creator is working on, and the main TCB of every PCB.
Construido ==
  /\ \A h \in Creadores :
        pc[h] \in EtiquetasCrear \ {"process_create"} => nuevo[h] \in PIDs
  /\ \A pid \in PIDs :
        /\ TIDs[pid] # <<>>
        /\ tcb[Principal(pid)].PID = pid /\ tcb[Principal(pid)].TID = 0

ColaNew ==
  Len(new_queue) = sem_new + Hay(pc["ready"] = "sacar_new")
                   + Hay(pc["main"] = "post_new") + Hay(pc["ready"] = "post_new")
                   + Hay(pc["exec"] = "post_new")

\* A process in flight is alone in ready_list, or has not reached it.
EnReady ==
  \/ sem_ready > 0 \/ pc["exec"] \in {"sem_exec", "elegir"}
  \/ \E h \in Creadores : pc[h] \in {"add_proc", "post_ready"}

ColaReady ==
  Fichas = 1 =>
     \/ ~EnReady /\ ready_list = <<>>
     \/ /\ EnReady
        /\ \E pid \in PIDs :
             /\ ready_list = <<Principal(pid)>>
             /\ \/ pid \in process_list
                \/ \E h \in Creadores : pc[h] = "add_proc" /\ nuevo[h] = pid

\* exec_tcb may still call process_create (or thread_create).
PuedeCrear == pc["exec"] \in {"buffer_recv", "thread_create", "enviar_hilo"}

Despachado ==
  /\ pc["exec"] \in EtiquetasAtender =>
        \E pid \in process_list : tcb_exec = Principal(pid)
  /\ PuedeCrear => ready_list = <<>>

\* exit_tcb has nothing to do until the last thread to run makes THREAD_EXIT,
\* and then nobody waits for that thread.
ColaExit ==
  /\ Fichas = 1 \/ PuedeCrear \/ pc["exec"] = "post_exit" =>
        /\ sem_exit = 0 /\ pc["exit"] \in {"sin_crear", "sem_exit"}
        /\ \A t \in TCBs : tcb[t].TID_wait = -1
  /\ Fichas = 1 \/ PuedeCrear => exit_queue = <<>>
  /\ pc["exec"] = "post_exit" => exit_queue = <<tcb_exec>>
  /\ sem_exit + Hay(pc["exit"] = "sacar_exit") > 0 =>
        /\ sem_exit + Hay(pc["exit"] = "sacar_exit") = 1
        /\ \E t \in TCBs : exit_queue = <<t>> /\ tcb[t].TID_wait = -1
  /\ EnManos => tcb_salida \in TCBs

\* A main thread on its way to the CPU has not been there.
SinRepetir ==
  /\ SoloCorrenPrincipales
  /\ \A h \in Creadores :
        pc[h] \in {"recv", "add_ready"} => ~EstaEn(despachados, Principal(nuevo[h]))
  /\ Fichas = 1 => \A i \in DOMAIN ready_list : ~EstaEn(despachados, ready_list[i])

IInv ==
  /\ TypeOK /\ UnaSolaFicha /\ Arranque /\ Construido
  /\ ColaNew /\ ColaReady /\ Despachado /\ ColaExit
  /\ SinRepetir /\ DespachoPresupuestado

-----------------------------------------------------------------------------
(* Where every TCB is, given IInv: inductive too, and what UnSoloLugar,    *)
(* DespachadoConfirmado and Planifica follow from.                         *)

\* A main TCB is the first of one process only; no other TCB is a main one.
PrincipalesPropios ==
  \A p, q \in PIDs : \A i \in DOMAIN TIDs[p] :
     TIDs[p][i] = Principal(q) => p = q /\ i = 1

\* What exec_tcb serves was dispatched, and when thread_create queues its TCB,
\* the last of the process, nothing else is queued and exit_tcb is idle.
EnCurso ==
  /\ pc["exec"] \in EtiquetasAtender => EstaEn(despachados, tcb_exec)
  /\ pc["exec"] = "add_hilo" =>
        /\ Len(TIDs[Pid]) > 1
        /\ ready_list = <<>> /\ exit_queue = <<>>
        /\ sem_exit = 0 /\ pc["exit"] \in {"sin_crear", "sem_exit"}

\* At most one TCB is queued, running or on its way out; what THREAD_JOIN
\* blocks is never a TCB.
UnoPorVez ==
  /\ Len(ready_list) <= 1 /\ Len(exit_queue) <= 1
  /\ ready_list # <<>> =>
        exit_queue = <<>> /\ ~EnManos /\ pc["exec"] # "buffer_recv"
  /\ exit_queue # <<>> => ~EnManos
  /\ blocked_queue \in Seq({NULL})

\* From the unit of sem_exit on, the kernel schedules nothing more.
Despedida ==
  /\ \/ sem_exit > 0 \/ pc["exit"] = "sacar_exit" \/ EnManos
     \/ \E t \in TCBs : tcb[t].libre
     => Fichas = 0 /\ pc["exec"] \in {"log_exit", "sem_ready"}
  /\ (\E t \in TCBs : tcb[t].libre) =>
        ready_list = <<>> /\ exit_queue = <<>> /\ sem_exit = 0
        /\ pc["exit"] = "sem_exit"

\* Memoria has confirmed what a creator is about to queue.
Confirmando ==
  /\ DespachadoConfirmado
  /\ memoria = "viva" =>
        \A h \in Creadores :
           pc[h] \in {"add_ready", "add_proc", "post_ready"} =>
              nuevo[h] \in confirmados

\* exit_tcb works for the thread exec_tcb dispatched last, and the TCBs it has
\* freed, or is about to free, are those it told a living Memoria about.
Avisos ==
  /\ tcb_exec # NULL =>
        \E pid \in PIDs : tcb_exec = Principal(pid) /\ EstaEn(despachados, tcb_exec)
  /\ sem_exit > 0 \/ pc["exit"] = "sacar_exit" => exit_queue = <<tcb_exec>>
  /\ EnManos => tcb_salida = tcb_exec
  /\ \A t \in TCBs :
        /\ t \in avisados => Acabado(t)
        /\ memoria = "viva" /\ Acabado(t) => t \in avisados

Reparto ==
  PrincipalesPropios /\ EnCurso /\ UnoPorVez /\ Despedida /\ Confirmando
  /\ Avisos

-----------------------------------------------------------------------------
(* What the comments of the source say and the code does not do.  Each is  *)
(* the property of a run that expects a violation.                         *)

\* operaciones_cpu.c:44: PROCESS_EXIT ends the PCB "enviando todos sus TCBs
\* asociados a la cola de EXIT".
ProcessExitEncolaTodo ==
  pc["exec"] = "process_exit" ~>
     \/ EstaEn(exit_queue, tcb_exec) \/ tcb_exec \in avisados
     \/ estado # "corriendo"

\* operaciones_kernel.c:171, "Log obligatorio": the line that reports the end
\* of the thread reads the PID and TID of a TCB that is still allocated.
LogLeeTcbVivo == pc["exec"] = "log_exit" => ~tcb[tcb_exec].libre

\* operaciones_memoria.c:40: "Se espera la respuesta positiva de memoria para
\* poder mandarlo a la cola de READY".
ReadySoloConRespuesta ==
  \A pid \in PIDs : EstaEn(ready_list, Principal(pid)) => pid \in confirmados

=============================================================================
