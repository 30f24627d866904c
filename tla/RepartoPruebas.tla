---------------------------- MODULE RepartoPruebas --------------------------
(***************************************************************************)
(* Proofs about where the kernel keeps each TCB, and of the refinement of  *)
(* Planificador, on top of the invariant that KernelPruebas establishes.   *)
(***************************************************************************)
EXTENDS KernelPruebas

USE DEF Creadores, Hilos, NULL, EnManos

\* What exit_tcb does.
PasoDeExit ==
  SemWaitExit \/ SacarExit \/ ConectarKill \/ EnviarKill \/ LiberarTcb

\* Which actions change each list and each place that holds a TCB.
Marco ==
  /\ \/ ready_list' = ready_list \/ Despachar \/ AddHilo
     \/ \E h \in Creadores : AddReady(h)
  /\ \/ exit_queue' = exit_queue
     \/ SacarExit \/ AtenderThreadCancel \/ AtenderThreadExit
  /\ blocked_queue' = blocked_queue \/ AtenderThreadJoin
  /\ UNCHANGED <<tcb_exec, despachados>> \/ Despachar
  /\ process_list' = process_list \/ \E h \in Creadores : AddProc(h)
  /\ confirmados \subseteq confirmados'
  /\ sem_exit' = sem_exit \/ SemWaitExit \/ PostExit
  /\ \/ pc'["exit"] = pc["exit"] /\ tcb_salida' = tcb_salida
     \/ PasoDeExit \/ Planificar
  /\ avisados' = avisados \/ EnviarKill
  /\ memoria' = "viva" => memoria = "viva"

\* Every step leaves the rest of the lists alone.
LEMMA MarcoPaso ==
  ASSUME IInv, Ajeno \/ PasoDeHilo
  PROVE  Marco
<1> USE DEF Marco, PasoDeExit, Paso, Motivo, semaforos, colas, locales, mensajes,
    IInv, TypeOK, TipoControl
<1>1. CASE Ajeno
  BY <1>1 DEF Ajeno
<1>2. CASE \E h \in Creadores : ProcessCreate(h)
  BY <1>2 DEF ProcessCreate, Alocar, RecvSuccess, RecvFailure, RecvSinRespuesta,
     AddReady, AddProc, PostReady, AddNew, PostNew
<1>3. CASE SemWaitReady
  BY <1>3, SoloElBucle DEF entorno
<1>4. CASE AtenderThreadJoin
  BY <1>4, JoinSimple
<1>5. CASE AtenderThreadCancel
  BY <1>5, CancelSimple
<1>6. CASE Planificar \/ SemWaitNew \/ SacarNew
  BY <1>6 DEF Planificar, SemWaitNew, SacarNew, entorno
<1>7. CASE SacarExit
  BY <1>7, SacarExitSimple
<1>8. CASE SemWaitExit \/ ConectarKill \/ EnviarKill \/ LiberarTcb
  BY <1>8 DEF SemWaitExit, ConectarKill, EnviarKill, LiberarTcb
<1>9. CASE ConectarCpu \/ SemWaitExec \/ Despachar
  BY <1>9 DEF ConectarCpu, SemWaitExec, Despachar
<1>10. CASE ConectarHilo \/ EnviarHilo \/ HandshakeFalla \/ AddHilo
  BY <1>10 DEF ConectarHilo, EnviarHilo, HandshakeFalla, AddHilo
<1>11. CASE PostExit \/ LogExit \/ RecvSinCpu
  BY <1>11 DEF PostExit, LogExit, RecvSinCpu
<1>12. CASE \/ AtenderProcessCreate \/ AtenderProcessExit \/ AtenderThreadCreate
            \/ AtenderTidInexistente \/ AtenderThreadExit \/ AtenderSinEfecto
  BY <1>12 DEF AtenderProcessCreate, AtenderProcessExit, AtenderThreadCreate,
     AtenderTidInexistente, AtenderThreadExit, AtenderSinEfecto
<1> QED
  BY <1>1, <1>2, <1>3, <1>4, <1>5, <1>6, <1>7, <1>8, <1>9, <1>10, <1>11, <1>12
  DEF PasoDeHilo

\* Every PCB has a main TCB in the heap.
LEMMA PrincipalEnHeap ==
  ASSUME IInv, NEW pid \in PIDs
  PROVE  TIDs[pid] \in Seq(TCBs) /\ TIDs[pid] # <<>> /\ Principal(pid) \in TCBs
<1>1. TIDs[pid] \in Seq(TCBs) /\ TIDs[pid] # <<>>
  BY DEF IInv, TypeOK, TipoHeap, Construido, PIDs
<1> QED
  BY <1>1 DEF Principal

\* Two processes never share their main TCB.
LEMMA PrincipalInyectivo ==
  ASSUME IInv, NEW p \in PIDs, NEW q \in PIDs, Principal(p) = Principal(q)
  PROVE  p = q
  BY DEF IInv, Construido

\* Only exit_tcb frees a TCB, the one it holds, and a new TCB is not free.
LEMMA LibresPaso ==
  ASSUME IInv, Ajeno \/ PasoDeHilo
  PROVE  /\ \A t \in TCBs : \/ tcb'[t].libre = tcb[t].libre
                            \/ LiberarTcb /\ t = tcb_salida
         /\ \A t \in TCBs' \ TCBs : ~tcb'[t].libre
<1>0. tcb \in Seq(TipoTcb) /\ TCBs = 1..Len(tcb) /\ TCBs' = 1..Len(tcb')
  BY DEF IInv, TypeOK, TipoHeap, TCBs
<1>1. CASE UNCHANGED heap
  BY <1>0, <1>1 DEF heap
<1>2. ASSUME NEW r, r.libre = FALSE, tcb' = Append(tcb, r)
      PROVE  /\ \A t \in TCBs : tcb'[t].libre = tcb[t].libre
             /\ \A t \in TCBs' \ TCBs : ~tcb'[t].libre
  <2>1. TCBs' = 1..Len(tcb)+1 /\ tcb'[Len(tcb)+1] = r
        /\ \A t \in TCBs : tcb'[t] = tcb[t]
    BY <1>0, <1>2
  <2> QED
    BY <1>0, <1>2, <2>1
<1>3. CASE \E h \in Creadores : Alocar(h)
  BY <1>2, <1>3 DEF Alocar
<1>4. CASE EnviarHilo
  BY <1>2, <1>4 DEF EnviarHilo
<1>5. ASSUME NEW u \in TCBs, NEW r, tcb' = [tcb EXCEPT ![u] = r]
      PROVE  TCBs' = TCBs /\ \A t \in TCBs : tcb'[t] = IF t = u THEN r ELSE tcb[t]
  <2>1. Len(tcb') = Len(tcb)
    BY <1>0, <1>5
  <2> QED
    BY <1>0, <1>5, <2>1
<1>6. CASE LiberarTcb
  <2>1. tcb_salida \in TCBs
    BY <1>6 DEF LiberarTcb, Paso, IInv, ColaExit
  <2>2. tcb' = [tcb EXCEPT ![tcb_salida] = [tcb[tcb_salida] EXCEPT !.libre = TRUE]]
    BY <1>6 DEF LiberarTcb
  <2> QED
    BY <1>5, <1>6, <2>1, <2>2, ZenonT(60)
<1>7. CASE AtenderThreadJoin
  <2>1. PICK u \in TCBs : tcb' = [tcb EXCEPT ![u].TID_wait = tcb[tcb_exec].TID]
    BY <1>7, JoinSimple
  <2> DEFINE r == [tcb[u] EXCEPT !.TID_wait = tcb[tcb_exec].TID]
  <2>2. tcb' = [tcb EXCEPT ![u] = r]
    BY <2>1
  <2>3. tcb[u] \in TipoTcb
    BY <1>0, <2>1
  <2>4. r.libre = tcb[u].libre
    BY <2>3 DEF TipoTcb
  <2> HIDE DEF r
  <2>5. TCBs' = TCBs /\ \A t \in TCBs : tcb'[t] = IF t = u THEN r ELSE tcb[t]
    BY <1>5, <2>1, <2>2
  <2> QED
    BY <2>4, <2>5
<1> QED
  BY <1>1, <1>3, <1>4, <1>6, <1>7, MarcoHeap

\* The TCB a thread_create adds is new, and so is the main TCB of a new process.
LEMMA PropiosPaso ==
  ASSUME IInv, Reparto, Ajeno \/ PasoDeHilo
  PROVE  PrincipalesPropios'
<1>0. /\ PrincipalesPropios /\ TipoHeap /\ HeapCrece
      /\ \A pid \in PIDs : Principal(pid)' = Principal(pid)
  BY TipoHeapPaso, ListaDeProcesosCrece DEF IInv, TypeOK, Reparto
<1>1. CASE TIDs' = TIDs
  BY <1>0, <1>1 DEF PrincipalesPropios, Principal, PIDs
<1>2. ASSUME NEW h \in Creadores, Alocar(h)
      PROVE  PrincipalesPropios'
  <2>1. TIDs' = Append(TIDs, <<Len(tcb) + 1>>)
    BY <1>2 DEF Alocar
  <2>2. PICK n \in Nat :
        /\ PIDs' = PIDs \cup {n} /\ n \notin PIDs
        /\ TIDs'[n] = <<Len(tcb) + 1>>
        /\ \A p \in PIDs : TIDs'[p] = TIDs[p]
    BY <1>0, <2>1 DEF PIDs, TipoHeap
  <2>3. ASSUME NEW p \in PIDs', NEW q \in PIDs', NEW i \in DOMAIN TIDs'[p],
               TIDs'[p][i] = Principal(q)'
        PROVE  p = q /\ i = 1
    <3>1. \A r \in PIDs : \A j \in DOMAIN TIDs[r] : TIDs[r][j] # Len(tcb) + 1
      BY <1>0, PrincipalEnHeap DEF TipoHeap, TCBs
    <3>2. \A r \in PIDs : Principal(r) # Len(tcb) + 1
      BY <1>0, PrincipalEnHeap DEF TipoHeap, TCBs
    <3>3. Principal(n)' = Len(tcb) + 1
      BY <2>2 DEF Principal
    <3>4. CASE p \in PIDs /\ q \in PIDs
      BY <1>0, <2>2, <2>3, <3>4 DEF PrincipalesPropios
    <3>5. CASE p \in PIDs /\ q = n
      BY <2>2, <2>3, <3>1, <3>3, <3>5
    <3>6. CASE p = n
      <4>1. i = 1 /\ TIDs'[p][i] = Len(tcb) + 1
        BY <2>2, <2>3, <3>6
      <4> QED
        BY <1>0, <2>2, <2>3, <3>2, <3>6, <4>1
    <3> QED
      BY <2>2, <3>4, <3>5, <3>6
  <2> QED
    BY <2>3 DEF PrincipalesPropios
<1>3. CASE EnviarHilo
  <2>1. Pid \in PIDs
    BY <1>3, SirveAUnPrincipal DEF EnviarHilo, Paso, EtiquetasAtender
  <2>2. PICK mio \in PIDs : mio = Pid
    BY <2>1
  <2>3. TIDs' = [TIDs EXCEPT ![mio] = Append(@, Len(tcb) + 1)]
    BY <1>3, <2>2 DEF EnviarHilo
  <2>4. PIDs' = PIDs
    BY <1>0, <2>3 DEF PIDs, TipoHeap
  <2>5. ASSUME NEW p \in PIDs, NEW q \in PIDs, NEW i \in DOMAIN TIDs'[p],
               TIDs'[p][i] = Principal(q)
        PROVE  p = q /\ i = 1
    <3>1. CASE p # mio
      <4>1. TIDs'[p] = TIDs[p]
        BY <1>0, <2>3, <3>1 DEF TipoHeap, PIDs
      <4> QED
        BY <1>0, <2>5, <4>1 DEF PrincipalesPropios
    <3>2. CASE p = mio
      <4>1. TIDs'[p] = Append(TIDs[p], Len(tcb) + 1)
        BY <1>0, <2>3, <3>2 DEF TipoHeap, PIDs
      <4>2. TIDs[p] \in Seq(TCBs)
        BY PrincipalEnHeap
      <4>3. CASE i \in DOMAIN TIDs[p]
        <5>1. TIDs'[p][i] = TIDs[p][i]
          BY <4>1, <4>2, <4>3
        <5> QED
          BY <1>0, <2>5, <4>3, <5>1 DEF PrincipalesPropios
      <4>4. CASE i \notin DOMAIN TIDs[p]
        <5>1. TIDs'[p][i] = Len(tcb) + 1
          BY <4>1, <4>2, <4>4, <2>5
        <5>2. Principal(q) # Len(tcb) + 1
          BY <1>0, PrincipalEnHeap DEF TipoHeap, TCBs
        <5> QED
          BY <2>5, <5>1, <5>2
      <4> QED
        BY <4>3, <4>4
    <3> QED
      BY <3>1, <3>2
  <2> QED
    BY <1>0, <2>4, <2>5 DEF PrincipalesPropios
<1>4. CASE LiberarTcb \/ AtenderThreadJoin \/ UNCHANGED heap
  BY <1>1, <1>4, JoinSimple DEF LiberarTcb, heap
<1> QED
  BY <1>2, <1>3, <1>4, MarcoHeap

-----------------------------------------------------------------------------
(* The steps that queue a TCB                                              *)

\* process_create queues its TCB when no list has one.
LEMMA AddReadySimple ==
  ASSUME IInv, NEW h \in Creadores, AddReady(h)
  PROVE  /\ Paso(h, "add_ready", "add_proc")
         /\ Fichas = 1 /\ ready_list = <<>> /\ nuevo[h] \in PIDs
         /\ ready_list' = <<Principal(nuevo[h])>>
         /\ UNCHANGED <<fallas, locales, heap, process_list, new_queue,
                        blocked_queue, exit_queue, semaforos, mensajes>>
         /\ pc["exec"] \notin EtiquetasAtender
         /\ \A k \in Creadores \ {h} : pc[k] \notin EtiquetasCrear
<1>1. /\ Paso(h, "add_ready", "add_proc")
      /\ ready_list' = Append(ready_list, Principal(nuevo[h]))
      /\ UNCHANGED <<fallas, locales, heap, process_list, new_queue,
                     blocked_queue, exit_queue, semaforos, mensajes>>
  BY DEF AddReady
<1>2. /\ Fichas = 1 /\ sem_ready = 0
      /\ pc["exec"] \notin {"sem_exec", "elegir"} \cup EtiquetasAtender
      /\ \A k \in Creadores \ {h} : pc[k] \notin EtiquetasCrear
  BY <1>1, Una DEF IInv, Paso, EtiquetasCrear
<1>3. ~EnReady
  BY <1>1, <1>2 DEF EnReady, Paso, EtiquetasCrear
<1>4. ready_list = <<>> /\ nuevo[h] \in PIDs
  BY <1>1, <1>2, <1>3 DEF IInv, ColaReady, Construido, Paso, EtiquetasCrear
<1> QED
  BY <1>1, <1>2, <1>4, AgregarAVacia

\* thread_create queues a TCB that is no main thread, when no list has one.
LEMMA AddHiloSimple ==
  ASSUME IInv, Reparto, AddHilo
  PROVE  \E t \in TCBs :
           /\ Paso("exec", "add_hilo", "sem_ready")
           /\ ready_list = <<>> /\ ready_list' = <<t>> /\ exit_queue = <<>>
           /\ sem_exit = 0 /\ pc["exit"] \in {"sin_crear", "sem_exit"}
           /\ \A pid \in PIDs : t # Principal(pid)
           /\ UNCHANGED <<fallas, locales, heap, process_list, new_queue,
                          blocked_queue, exit_queue, semaforos, mensajes>>
<1>1. /\ Paso("exec", "add_hilo", "sem_ready")
      /\ ready_list' = Append(ready_list, TIDs[Pid][Len(TIDs[Pid])])
      /\ UNCHANGED <<fallas, locales, heap, process_list, new_queue,
                     blocked_queue, exit_queue, semaforos, mensajes>>
  BY DEF AddHilo
<1>2. /\ Len(TIDs[Pid]) > 1 /\ ready_list = <<>> /\ exit_queue = <<>>
      /\ sem_exit = 0 /\ pc["exit"] \in {"sin_crear", "sem_exit"}
  BY <1>1 DEF Reparto, EnCurso, Paso
<1>3. PICK pid \in PIDs : pid = Pid
  BY <1>1, SirveAUnPrincipal DEF Paso, EtiquetasAtender
<1>4. TIDs[pid] \in Seq(TCBs)
  BY PrincipalEnHeap
<1>5. PICK n \in Nat : n = Len(TIDs[pid]) /\ n \in DOMAIN TIDs[pid] /\ n > 1
  BY <1>2, <1>3, <1>4
<1>6. TIDs[pid][n] \in TCBs /\ \A q \in PIDs : TIDs[pid][n] # Principal(q)
  BY <1>4, <1>5 DEF Reparto, PrincipalesPropios
<1> QED
  BY <1>1, <1>2, <1>3, <1>5, <1>6, AgregarAVacia

\* THREAD_CANCEL and THREAD_EXIT queue a TCB when no list has one: a TCB of the
\* process being served, which is a main TCB only if it is the one served.
LEMMA EncolaSimple ==
  ASSUME IInv, Reparto, AtenderThreadCancel \/ AtenderThreadExit
  PROVE  \E t \in TCBs :
           /\ \E hasta \in {"post_exit", "sem_ready"} :
                 Paso("exec", "buffer_recv", hasta)
           /\ ready_list = <<>> /\ ready_list' = <<>>
           /\ exit_queue = <<>> /\ exit_queue' = <<t>>
           /\ sem_exit = 0 /\ pc["exit"] \in {"sin_crear", "sem_exit"}
           /\ AtenderThreadExit => t = tcb_exec
           /\ \A pid \in PIDs : t = Principal(pid) => t = tcb_exec
           /\ UNCHANGED <<fallas, locales, heap, process_list, new_queue,
                          blocked_queue, semaforos, mensajes>>
<1>1. pc["exec"] = "buffer_recv" /\ PuedeCrear
  BY DEF AtenderThreadCancel, AtenderThreadExit, Motivo, Paso, PuedeCrear
<1>2. /\ ready_list = <<>> /\ exit_queue = <<>> /\ sem_exit = 0
      /\ pc["exit"] \in {"sin_crear", "sem_exit"}
  BY <1>1 DEF IInv, Despachado, ColaExit
<1>3. PICK pid \in PIDs : pid = Pid /\ tcb_exec = Principal(pid) /\ tcb_exec \in TCBs
  BY <1>1, SirveAUnPrincipal DEF EtiquetasAtender
<1>4. CASE AtenderThreadExit
  BY <1>2, <1>3, <1>4, AgregarAVacia DEF AtenderThreadExit, Motivo
<1>5. CASE AtenderThreadCancel
  <2>1. PICK t \in DOMAIN tcb, tid \in TidsPedidos :
          /\ Paso("exec", "buffer_recv", "sem_ready") /\ EsGetThread(Pid, tid, t)
          /\ ready_list' = Sin(ready_list, t) /\ exit_queue' = Append(exit_queue, t)
          /\ UNCHANGED <<fallas, locales, heap, process_list, new_queue,
                         blocked_queue, semaforos, mensajes>>
    BY <1>5 DEF AtenderThreadCancel, Motivo
  <2>2. ready_list' = <<>> /\ exit_queue' = <<t>>
    BY <1>2, <2>1, AgregarAVacia DEF Sin
  <2>3. \E i \in DOMAIN TIDs[pid] : TIDs[pid][i] = t
    BY <1>3, <2>1 DEF EsGetThread
  <2>4. \A q \in PIDs : t = Principal(q) => t = tcb_exec
    BY <1>3, <2>3 DEF Reparto, PrincipalesPropios
  <2>5. t \in TCBs
    BY <2>1 DEF IInv, TypeOK, TipoHeap, TCBs
  <2>6. ~AtenderThreadExit
    BY <2>1 DEF AtenderThreadExit, Motivo, Paso, IInv, TypeOK, TipoControl
  <2> QED
    BY <1>2, <2>1, <2>2, <2>4, <2>5, <2>6
<1> QED
  BY <1>4, <1>5

\* exit_tcb takes the only TCB queued, and nothing is being scheduled then.
LEMMA TomarExit ==
  ASSUME IInv, Reparto, SacarExit
  PROVE  \E t \in TCBs :
           /\ Paso("exit", "sacar_exit", "thread_cancel")
           /\ exit_queue = <<t>> /\ exit_queue' = <<>> /\ tcb_salida' = t
           /\ ready_list = <<>> /\ ready_list' = <<>> /\ sem_exit = 0
           /\ Fichas = 0 /\ pc["exec"] \in {"log_exit", "sem_ready"}
           /\ UNCHANGED <<blocked_queue, fallas, nuevo, tcb_exec, por_salir, heap,
                          process_list, new_queue, semaforos, mensajes>>
<1>1. /\ Paso("exit", "sacar_exit", "thread_cancel") /\ sem_exit = 0
      /\ exit_queue' = <<>> /\ tcb_salida' = Head(exit_queue)
      /\ UNCHANGED <<blocked_queue, ready_list, fallas, nuevo, tcb_exec, por_salir,
                     heap, process_list, new_queue, semaforos, mensajes>>
  BY SacarExitSimple DEF SacarExit
<1>2. PICK t \in TCBs : exit_queue = <<t>>
  BY <1>1 DEF IInv, ColaExit, Hay, TypeOK, TipoControl, Paso
<1>3. ready_list = <<>> /\ Fichas = 0 /\ pc["exec"] \in {"log_exit", "sem_ready"}
  BY <1>1, <1>2 DEF Reparto, UnoPorVez, Despedida, Paso
<1> QED
  BY <1>1, <1>2, <1>3

-----------------------------------------------------------------------------
(* The conjuncts of Reparto, step by step                                  *)

\* What exec_tcb serves was dispatched.
LEMMA EnCursoPaso ==
  ASSUME IInv, Reparto, Ajeno \/ PasoDeHilo
  PROVE  EnCurso'
<1>1. ASSUME pc'["exec"] \in EtiquetasAtender
      PROVE  EstaEn(despachados, tcb_exec)'
  <2>1. CASE Despachar
    <3>1. PICK t : tcb_exec' = t /\ despachados' = Append(despachados, t)
      BY <2>1, LoQueSeDespacha
    <3>2. PICK n \in Nat : n = Len(despachados) + 1
      BY DEF IInv, TypeOK, TipoReferencias
    <3>3. n \in DOMAIN despachados' /\ despachados'[n] = t
      BY <3>1, <3>2 DEF IInv, TypeOK, TipoReferencias
    <3> QED
      BY <3>1, <3>3 DEF EstaEn
  <2>2. CASE ~Despachar
    <3>1. pc["exec"] \in EtiquetasAtender /\ UNCHANGED <<tcb_exec, despachados>>
      BY <1>1, <2>2, PasosHaciaAtender, MarcoPaso DEF Marco
    <3> QED
      BY <3>1 DEF EstaEn, Reparto, EnCurso
  <2> QED
    BY <2>1, <2>2
<1>2. ASSUME pc'["exec"] = "add_hilo"
      PROVE  EnviarHilo \/ pc["exec"] = "add_hilo"
  <2> USE DEF IInv, TypeOK, TipoControl, Paso, Motivo
  <2>1. CASE Ajeno
    BY <1>2, <2>1 DEF Ajeno
  <2>2. CASE \E h \in Creadores : ProcessCreate(h)
    BY <1>2, <2>2 DEF ProcessCreate, Alocar, RecvSuccess, RecvFailure,
       RecvSinRespuesta, AddReady, AddProc, PostReady, AddNew, PostNew, Retorno
  <2>3. CASE SemWaitReady
    BY <1>2, <2>3, SoloElBucle
  <2>4. CASE PasoDeExit \/ Planificar \/ SemWaitNew \/ SacarNew
    BY <1>2, <2>4, SacarExitSimple DEF PasoDeExit, SemWaitExit, ConectarKill,
       EnviarKill, LiberarTcb, Planificar, SemWaitNew, SacarNew
  <2>5. CASE PasoDeHilo /\ ~(\E h \in Creadores : ProcessCreate(h))
             /\ ~SemWaitReady /\ ~PasoDeExit
    BY <1>2, <2>4, <2>5 DEF PasoDeHilo, PasoDeExit, ConectarCpu, SemWaitExec,
       Despachar, ConectarHilo, HandshakeFalla, AddHilo, PostExit,
       LogExit, RecvSinCpu, AtenderProcessCreate, AtenderProcessExit,
       AtenderThreadCreate, AtenderThreadJoin, AtenderThreadCancel,
       AtenderTidInexistente, AtenderThreadExit, AtenderSinEfecto
  <2> QED
    BY <2>1, <2>2, <2>3, <2>4, <2>5
<1>3. CASE EnviarHilo
  <2>1. pc["exec"] = "enviar_hilo" /\ PuedeCrear
    BY <1>3 DEF EnviarHilo, Paso, PuedeCrear
  <2>2. PICK pid \in PIDs : pid = Pid /\ tcb_exec \in TCBs
    BY <2>1, SirveAUnPrincipal DEF EtiquetasAtender
  <2>3. /\ TIDs' = [TIDs EXCEPT ![pid] = Append(@, Len(tcb) + 1)]
        /\ UNCHANGED <<tcb_exec, ready_list, exit_queue, sem_exit>>
        /\ pc'["exit"] = pc["exit"]
    BY <1>3, <2>2 DEF EnviarHilo, Paso, colas, locales, semaforos, IInv, TypeOK,
       TipoControl
  <2>4. Pid' = pid
    BY <2>2, <2>3, TipoHeapPaso DEF HeapCrece, Pid
  <2>5. Len(TIDs'[pid]) > 1
    <3>1. TIDs'[pid] = Append(TIDs[pid], Len(tcb) + 1)
      BY <2>3 DEF IInv, TypeOK, TipoHeap, PIDs
    <3>2. TIDs[pid] \in Seq(TCBs) /\ TIDs[pid] # <<>>
      BY PrincipalEnHeap
    <3> QED
      BY <3>1, <3>2
  <2> QED
    BY <1>1, <2>1, <2>3, <2>4, <2>5 DEF EnCurso, IInv, Despachado, ColaExit
<1>4. CASE pc["exec"] = "add_hilo" /\ pc'["exec"] = "add_hilo"
  <2>1. /\ Len(TIDs[Pid]) > 1 /\ ready_list = <<>> /\ exit_queue = <<>>
        /\ sem_exit = 0 /\ pc["exit"] \in {"sin_crear", "sem_exit"}
    BY <1>4 DEF Reparto, EnCurso
  <2>2. Fichas = 0 /\ \A h \in Creadores : pc[h] \notin EtiquetasCrear
    BY <1>4, Una DEF IInv, EtiquetasAtender
  <2>3. UNCHANGED <<heap, tcb_exec, ready_list, exit_queue, sem_exit>>
        /\ pc'["exit"] \in {"sin_crear", "sem_exit"}
    <3> USE DEF IInv, TypeOK, TipoControl, Paso, Motivo
    <3>1. CASE Ajeno
      BY <2>1, <3>1 DEF Ajeno, heap, colas, locales, semaforos
    <3>2. CASE \E h \in Creadores : ProcessCreate(h)
      BY <2>2, <3>2 DEF ProcessCreate, Alocar, RecvSuccess, RecvFailure,
         RecvSinRespuesta, AddReady, AddProc, PostReady, AddNew, PostNew,
         EtiquetasCrear
    <3>3. CASE SemWaitReady
      BY <1>4, <3>3, SoloElBucle
    <3>4. CASE Planificar \/ SemWaitNew \/ SacarNew
      BY <2>1, <3>4 DEF Planificar, SemWaitNew, SacarNew, heap, colas, locales,
         semaforos
    <3>5. CASE PasoDeExit
      BY <2>1, <3>5 DEF PasoDeExit, SemWaitExit, SacarExit, ConectarKill,
         EnviarKill, LiberarTcb
    <3>6. CASE PasoDeHilo
      BY <1>4, <3>2, <3>3, <3>4, <3>5, <3>6 DEF PasoDeHilo, PasoDeExit,
         ConectarCpu, SemWaitExec,
         Despachar, ConectarHilo, EnviarHilo, HandshakeFalla, AddHilo, PostExit,
         LogExit, RecvSinCpu, AtenderProcessCreate, AtenderProcessExit,
         AtenderThreadCreate, AtenderThreadJoin, AtenderThreadCancel,
         AtenderTidInexistente, AtenderThreadExit, AtenderSinEfecto
    <3> QED
      BY <3>1, <3>6
  <2> QED
    BY <1>1, <2>1, <2>3 DEF EnCurso, Pid, heap
<1> QED
  BY <1>1, <1>2, <1>3, <1>4 DEF EnCurso

\* exit_tcb comes to hold a TCB only by taking it from exit_queue.
LEMMA PasosHaciaManos ==
  ASSUME IInv, Ajeno \/ PasoDeHilo
  PROVE  /\ EnManos' => EnManos \/ SacarExit
         /\ pc'["exit"] = "sacar_exit" => pc["exit"] = "sacar_exit" \/ SemWaitExit
         /\ pc["exit"] = "sem_exit" => pc'["exit"] = "sem_exit" \/ SemWaitExit
<1>1. CASE pc'["exit"] = pc["exit"]
  BY <1>1
<1>2. CASE PasoDeExit
  BY <1>2 DEF PasoDeExit, SemWaitExit, ConectarKill, EnviarKill, LiberarTcb,
     SacarExit, Paso, IInv, TypeOK, TipoControl
<1>3. CASE Planificar
  BY <1>3 DEF Planificar
<1> QED
  BY <1>1, <1>2, <1>3, MarcoPaso DEF Marco

\* At most one TCB is queued.
LEMMA UnoPorVezPaso ==
  ASSUME IInv, Reparto, Ajeno \/ PasoDeHilo
  PROVE  UnoPorVez'
<1>0. UnoPorVez /\ Marco
  BY MarcoPaso DEF Reparto
<1>1. Len(ready_list') <= 1
  <2>1. CASE ready_list' = ready_list
    BY <1>0, <2>1 DEF UnoPorVez
  <2>2. ASSUME NEW t, ready_list' = <<t>>
        PROVE  Len(ready_list') <= 1
    BY <2>2
  <2> QED
    BY <1>0, <2>1, <2>2, AddReadySimple, AddHiloSimple, LoQueSeDespacha DEF Marco
<1>2. Len(exit_queue') <= 1
  <2>1. CASE exit_queue' = exit_queue
    BY <1>0, <2>1 DEF UnoPorVez
  <2>2. ASSUME NEW t, exit_queue' = <<t>>
        PROVE  Len(exit_queue') <= 1
    BY <2>2
  <2> QED
    BY <1>0, <2>1, <2>2, EncolaSimple, TomarExit DEF Marco
<1>3. ASSUME ready_list' # <<>>
      PROVE  exit_queue' = <<>> /\ ~EnManos' /\ pc'["exec"] # "buffer_recv"
  <2>1. CASE \E h \in Creadores : AddReady(h)
    <3>1. PICK h \in Creadores : /\ AddReady(h) /\ Fichas = 1
                                 /\ Paso(h, "add_ready", "add_proc")
                                 /\ pc["exec"] \notin EtiquetasAtender
                                 /\ exit_queue' = exit_queue
      BY <2>1, AddReadySimple DEF colas
    <3>2. exit_queue = <<>> /\ pc["exit"] \in {"sin_crear", "sem_exit"}
      BY <3>1 DEF IInv, ColaExit
    <3> QED
      BY <3>1, <3>2 DEF Paso, IInv, TypeOK, TipoControl, EtiquetasAtender
  <2>2. CASE AddHilo
    BY <2>2, AddHiloSimple DEF Paso, IInv, TypeOK, TipoControl
  <2>3. CASE ready_list' = ready_list
    <3>1. exit_queue = <<>> /\ ~EnManos /\ pc["exec"] # "buffer_recv"
      BY <1>0, <1>3, <2>3 DEF UnoPorVez
    <3>2. ~SacarExit /\ ~AtenderThreadCancel /\ ~AtenderThreadExit
      BY <1>3, <2>3, <3>1, TomarExit, EncolaSimple
    <3>3. ~PuedeCrear'
      BY <1>3, <2>3, LoQueSeDespacha, PasosHaciaAtender DEF IInv, Despachado
    <3> QED
      BY <1>0, <3>1, <3>2, <3>3, PasosHaciaManos DEF Marco, PuedeCrear
  <2> QED
    BY <1>0, <1>3, <2>1, <2>2, <2>3, LoQueSeDespacha DEF Marco
<1>4. ASSUME exit_queue' # <<>>
      PROVE  ~EnManos'
  <2>1. CASE AtenderThreadCancel \/ AtenderThreadExit
    BY <2>1, EncolaSimple DEF Paso, IInv, TypeOK, TipoControl
  <2>2. CASE exit_queue' = exit_queue
    BY <1>0, <1>4, <2>2, TomarExit, PasosHaciaManos DEF UnoPorVez
  <2> QED
    BY <1>0, <1>4, <2>1, <2>2, TomarExit DEF Marco
<1>5. blocked_queue' \in Seq({NULL})
  <2>1. CASE blocked_queue' = blocked_queue
    BY <1>0, <2>1 DEF UnoPorVez
  <2>2. CASE AtenderThreadJoin
    <3>1. blocked_queue' = Append(blocked_queue, NULL) /\ blocked_queue \in Seq({NULL})
      BY <1>0, <2>2, JoinSimple DEF UnoPorVez
    <3> QED
      BY <3>1
  <2> QED
    BY <1>0, <2>1, <2>2 DEF Marco
<1> QED
  BY <1>1, <1>2, <1>3, <1>4, <1>5 DEF UnoPorVez

\* The processes in flight can be counted.
LEMMA FichasNaturales == TipoControl => Fichas \in Nat
<1> SUFFICES ASSUME TipoControl
             PROVE  Fichas \in Nat
  OBVIOUS
<1>1. \A b : Hay(b) \in {0, 1}
  BY DEF Hay
<1>2. sem_new \in Nat /\ sem_ready \in Nat
  BY DEF TipoControl
<1> HIDE DEF Hay
<1> QED
  BY <1>1, <1>2 DEF Fichas

\* And so can those after a step.
LEMMA FichasNaturalesPrima == TipoControl' => (Fichas \in Nat)'
  BY FichasNaturales, PTL

\* With no process in flight and exec_tcb past its last thread, nothing more is
\* scheduled.
LEMMA NadaMas ==
  ASSUME IInv, Fichas = 0, pc["exec"] \in {"log_exit", "sem_ready"},
         Ajeno \/ PasoDeHilo
  PROVE  /\ Fichas' = 0 /\ pc'["exec"] \in {"log_exit", "sem_ready"}
         /\ Ajeno \/ PasoDeExit \/ LogExit \/ ConectarCpu \/ Planificar
<1>1. /\ sem_new = 0 /\ sem_ready = 0 /\ pc["ready"] # "sacar_new"
      /\ \A h \in Creadores : pc[h] \notin EtiquetasCrear
  BY DEF IInv, Fichas, Hay, TypeOK, TipoControl
<1> USE DEF IInv, TypeOK, TipoControl, Paso, Motivo
<1>2. ~(\E h \in Creadores : ProcessCreate(h))
  BY <1>1 DEF ProcessCreate, Alocar, RecvSuccess, RecvFailure, RecvSinRespuesta,
     AddReady, AddProc, PostReady, AddNew, PostNew, EtiquetasCrear
<1>3. ~SemWaitReady
  BY <1>1, SoloElBucle
<1>4. Ajeno \/ PasoDeExit \/ LogExit \/ ConectarCpu \/ Planificar
  BY <1>1, <1>2, <1>3 DEF PasoDeHilo, PasoDeExit, SemWaitNew, SacarNew,
     SemWaitExec, Despachar, ConectarHilo, EnviarHilo, HandshakeFalla, AddHilo,
     PostExit, RecvSinCpu, AtenderProcessCreate, AtenderProcessExit,
     AtenderThreadCreate, AtenderThreadJoin, AtenderThreadCancel,
     AtenderTidInexistente, AtenderThreadExit, AtenderSinEfecto
<1>5. pc'["exec"] \in {"log_exit", "sem_ready"}
  <2>1. ~Planificar
    BY DEF Planificar, Arranque
  <2> QED
    BY <1>4, <2>1 DEF Ajeno, PasoDeExit, SemWaitExit, SacarExit, ConectarKill,
       EnviarKill, LiberarTcb, LogExit, ConectarCpu
<1>6. Fichas' = 0
  <2>1. ~AtenderProcessCreate
    BY DEF AtenderProcessCreate
  <2>2. TipoControl' /\ UnaSolaFicha' /\ Fichas' # 1
    BY <2>1, FichasPaso, TipoControlPaso
  <2> HIDE DEF IInv, TypeOK, TipoControl, Paso, Motivo
  <2> QED
    BY <2>2, FichasNaturalesPrima DEF UnaSolaFicha
<1> QED
  BY <1>4, <1>5, <1>6

\* Once exit_tcb has something to do, nothing else has.
LEMMA DespedidaPaso ==
  ASSUME IInv, Reparto, Ajeno \/ PasoDeHilo
  PROVE  Despedida'
<1> DEFINE Sale == sem_exit > 0 \/ pc["exit"] = "sacar_exit" \/ EnManos
           Hueco == \E t \in TCBs : tcb[t].libre
<1>0. /\ UnoPorVez /\ Marco
      /\ Sale \/ Hueco => Fichas = 0 /\ pc["exec"] \in {"log_exit", "sem_ready"}
      /\ Hueco => /\ ready_list = <<>> /\ exit_queue = <<>> /\ sem_exit = 0
                  /\ pc["exit"] = "sem_exit"
  BY MarcoPaso DEF Reparto, Despedida
<1>1. Hueco' => Hueco \/ LiberarTcb
  BY LibresPaso
<1>2. LiberarTcb => EnManos /\ pc'["exit"] = "sem_exit"
  BY DEF LiberarTcb, Paso, IInv, TypeOK, TipoControl
<1>3. SemWaitExit => sem_exit > 0 /\ pc["exit"] = "sem_exit"
  BY DEF SemWaitExit, Paso
<1>4. SacarExit => pc["exit"] = "sacar_exit"
  BY DEF SacarExit, Paso
<1>5. Sale' => Sale \/ PostExit
  BY <1>0, <1>3, <1>4, PasosHaciaManos DEF Marco
<1>6. PostExit => pc["exec"] = "post_exit" /\ pc'["exec"] = "log_exit"
  BY DEF PostExit, Paso, IInv, TypeOK, TipoControl
<1>7. ASSUME Sale' \/ Hueco'
      PROVE  Fichas' = 0 /\ pc'["exec"] \in {"log_exit", "sem_ready"}
  <2>1. CASE Sale \/ Hueco
    BY <1>0, <2>1, NadaMas
  <2>2. CASE PostExit
    <3>1. Fichas = 0
      BY <1>6, <2>2, Una DEF IInv, EtiquetasAtender
    <3>2. ~AtenderProcessCreate
      BY <1>6, <2>2 DEF AtenderProcessCreate, Motivo, Paso
    <3>3. UnaSolaFicha' /\ Fichas' # 1 /\ Fichas' \in Nat
      BY <3>1, <3>2, FichasPaso, TipoControlPaso, FichasNaturalesPrima
    <3> QED
      BY <1>6, <2>2, <3>3 DEF UnaSolaFicha
  <2> QED
    BY <1>1, <1>2, <1>5, <1>7, <2>1, <2>2
<1>8. ASSUME Hueco'
      PROVE  /\ ready_list' = <<>> /\ exit_queue' = <<>> /\ sem_exit' = 0
             /\ pc'["exit"] = "sem_exit"
  <2>1. Fichas = 0 /\ pc["exec"] \in {"log_exit", "sem_ready"}
    BY <1>0, <1>1, <1>2, <1>8
  <2>2. /\ ~PostExit /\ ~AddHilo /\ ~AtenderThreadCancel /\ ~AtenderThreadExit
        /\ ~Despachar /\ ~Planificar /\ \A h \in Creadores : ~AddReady(h)
    <3>1. Ajeno \/ PasoDeExit \/ LogExit \/ ConectarCpu \/ Planificar
      BY <2>1, NadaMas
    <3>2. \A h \in Creadores : ~AddReady(h)
      BY <2>1, AddReadySimple
    <3> QED
      BY <2>1, <3>2 DEF PostExit, AddHilo, AtenderThreadCancel, AtenderThreadExit,
         Despachar, Motivo, Paso, Planificar, IInv, Arranque
  <2>3. CASE Hueco
    BY <1>0, <1>3, <1>4, <2>2, <2>3, PasosHaciaManos DEF Marco
  <2>4. CASE LiberarTcb
    <3>1. ready_list = <<>> /\ exit_queue = <<>>
      BY <1>0, <1>2, <2>4 DEF UnoPorVez
    <3>2. sem_exit = 0
      BY <1>2, <2>4, <3>1 DEF IInv, ColaExit, Hay, TypeOK, TipoControl
    <3>3. UNCHANGED <<ready_list, exit_queue, sem_exit>>
      BY <2>4 DEF LiberarTcb, colas, semaforos
    <3> QED
      BY <1>2, <2>4, <3>1, <3>2, <3>3
  <2> QED
    BY <1>1, <1>8, <2>3, <2>4
<1> QED
  BY <1>7, <1>8 DEF Despedida

\* A creator past Memoria's answer stays there by its own steps only.
LEMMA CreadorQuieto ==
  ASSUME IInv, Ajeno \/ PasoDeHilo, NEW h \in Creadores, ~ProcessCreate(h),
         pc'[h] \in EtiquetasCrear \ {"process_create"}
  PROVE  pc'[h] = pc[h] /\ nuevo'[h] = nuevo[h]
<1> USE DEF IInv, TypeOK, TipoControl, TipoReferencias, Paso, Motivo, locales
<1>1. ASSUME NEW k \in Creadores, k # h, ProcessCreate(k)
      PROVE  pc'[h] = pc[h] /\ nuevo'[h] = nuevo[h]
  BY <1>1 DEF ProcessCreate, Alocar, RecvSuccess, RecvFailure, RecvSinRespuesta,
     AddReady, AddProc, PostReady, AddNew, PostNew
<1>2. CASE Ajeno
  BY <1>2 DEF Ajeno
<1>3. CASE SemWaitReady
  BY <1>3, SoloElBucle DEF EtiquetasCrear
<1>4. CASE PasoDeExit
  BY <1>4, SacarExitSimple DEF PasoDeExit, SemWaitExit, ConectarKill, EnviarKill,
     LiberarTcb
<1>5. CASE PasoDeHilo /\ ~(\E k \in Creadores : ProcessCreate(k))
           /\ ~SemWaitReady /\ ~PasoDeExit
  BY <1>5, SMTT(20) DEF PasoDeHilo, PasoDeExit, Planificar, SemWaitNew, SacarNew,
     ConectarCpu, SemWaitExec, Despachar, ConectarHilo, EnviarHilo,
     HandshakeFalla, AddHilo, PostExit, LogExit, RecvSinCpu,
     AtenderProcessCreate, AtenderProcessExit, AtenderThreadCreate,
     AtenderThreadJoin, AtenderThreadCancel, AtenderTidInexistente,
     AtenderThreadExit, AtenderSinEfecto, EtiquetasCrear
<1> QED
  BY <1>1, <1>2, <1>3, <1>4, <1>5

\* What is queued, sent or registered has Memoria's SUCCESS behind it.
LEMMA ConfirmandoPaso ==
  ASSUME IInv, Reparto, Ajeno \/ PasoDeHilo
  PROVE  Confirmando'
<1> SUFFICES ASSUME memoria' = "viva"
             PROVE  Confirmando'
  BY DEF Confirmando, DespachadoConfirmado
<1> DEFINE Llego(pid) == \/ EstaEn(ready_list, Principal(pid))
                         \/ EstaEn(despachados, Principal(pid))
                         \/ pid \in process_list
           Etapas == {"add_ready", "add_proc", "post_ready"}
<1>0. /\ Marco /\ memoria = "viva" /\ TypeOK
      /\ \A pid \in PIDs : Llego(pid) => pid \in confirmados
      /\ \A h \in Creadores : pc[h] \in Etapas => nuevo[h] \in confirmados
      /\ \A pid \in PIDs : Principal(pid)' = Principal(pid)
  BY MarcoPaso, ListaDeProcesosCrece
  DEF Marco, Reparto, Confirmando, DespachadoConfirmado, IInv
<1>1. ASSUME NEW h \in Creadores, pc'[h] \in Etapas
      PROVE  nuevo'[h] \in confirmados'
  <2>1. CASE ProcessCreate(h)
    BY <1>0, <1>1, <2>1 DEF ProcessCreate, Alocar, RecvSuccess, RecvFailure,
       RecvSinRespuesta, AddReady, AddProc, PostReady, AddNew, PostNew, Retorno,
       Paso, locales, mensajes, TypeOK, TipoControl
  <2>2. CASE ~ProcessCreate(h)
    <3>1. pc'[h] = pc[h] /\ nuevo'[h] = nuevo[h]
      BY <1>1, <2>2, CreadorQuieto DEF EtiquetasCrear
    <3> QED
      BY <1>0, <1>1, <3>1 DEF Marco
  <2> QED
    BY <2>1, <2>2
<1>2. ASSUME NEW pid \in PIDs, Llego(pid)'
      PROVE  pid \in confirmados'
  <2>1. Llego(pid) => pid \in confirmados'
    BY <1>0 DEF Marco
  <2>2. ASSUME NEW h \in Creadores, AddReady(h) \/ AddProc(h), pid = nuevo[h]
        PROVE  pid \in confirmados'
    BY <1>0, <2>2 DEF AddReady, AddProc, Paso, Marco
  <2>3. CASE EstaEn(ready_list, Principal(pid))'
    <3>1. CASE ready_list' = ready_list
      BY <1>0, <2>1, <2>3, <3>1 DEF EstaEn
    <3>2. ASSUME NEW h \in Creadores, AddReady(h)
          PROVE  pid \in confirmados'
      <4>1. nuevo[h] \in PIDs /\ Principal(nuevo[h]) = Principal(pid)
        BY <1>0, <2>3, <3>2, AddReadySimple DEF EstaEn
      <4> QED
        BY <2>2, <3>2, <4>1, PrincipalInyectivo
    <3>3. ~AddHilo /\ ~Despachar
      BY <1>0, <2>3, AddHiloSimple, LoQueSeDespacha DEF EstaEn
    <3> QED
      BY <1>0, <3>1, <3>2, <3>3 DEF Marco
  <2>4. CASE EstaEn(despachados, Principal(pid))'
    <3>1. CASE despachados' = despachados
      BY <1>0, <2>1, <2>4, <3>1 DEF EstaEn
    <3>2. CASE Despachar
      <4>1. PICK q \in process_list :
              despachados' = Append(despachados, Principal(q))
        BY <3>2, LoQueSeDespacha
      <4>2. CASE Principal(q) = Principal(pid)
        BY <1>0, <2>1, <4>1, <4>2, PrincipalInyectivo DEF TypeOK, TipoReferencias
      <4>3. CASE Principal(q) # Principal(pid)
        <5>1. despachados \in Seq(TCBs)
          BY <1>0 DEF TypeOK, TipoReferencias
        <5>2. EstaEn(despachados, Principal(pid))
          BY <1>0, <2>4, <4>1, <4>3, <5>1 DEF EstaEn
        <5> QED
          BY <2>1, <5>2
      <4> QED
        BY <4>2, <4>3
    <3> QED
      BY <1>0, <3>1, <3>2 DEF Marco
  <2>5. CASE pid \in process_list'
    <3>1. ASSUME NEW h \in Creadores, AddProc(h)
          PROVE  pid \in process_list \/ pid = nuevo[h]
      BY <2>5, <3>1 DEF AddProc
    <3> QED
      BY <1>0, <2>1, <2>2, <2>5, <3>1 DEF Marco
  <2> QED
    BY <1>2, <2>3, <2>4, <2>5
<1>3. ASSUME NEW pid \in PIDs', pid \notin PIDs
      PROVE  ~Llego(pid)'
  <2>1. PICK h \in Creadores : Alocar(h)
    BY <1>3, MarcoHeap, JoinSimple, CambiarCampo
    DEF heap, LiberarTcb, EnviarHilo, PIDs, IInv, TypeOK, TipoHeap
  <2>2. /\ TIDs' = Append(TIDs, <<Len(tcb) + 1>>)
        /\ UNCHANGED <<ready_list, despachados, process_list>>
    BY <2>1 DEF Alocar, colas, mensajes
  <2>3. TIDs'[pid][1] = Len(tcb) + 1 /\ Len(tcb) + 1 \notin TCBs
    BY <1>0, <1>3, <2>2 DEF TypeOK, TipoHeap, PIDs, TCBs
  <2>4. Principal(pid)' = Len(tcb) + 1
    BY <2>3 DEF Principal
  <2>5. /\ ready_list \in Seq(TCBs) /\ despachados \in Seq(TCBs)
        /\ process_list \subseteq PIDs
    BY <1>0 DEF TypeOK, TipoReferencias
  <2>6. ~EstaEn(ready_list, Len(tcb) + 1) /\ ~EstaEn(despachados, Len(tcb) + 1)
    BY <2>3, <2>5 DEF EstaEn
  <2> QED
    BY <1>3, <2>2, <2>4, <2>5, <2>6 DEF EstaEn
<1> QED
  BY <1>1, <1>2, <1>3 DEF Confirmando, DespachadoConfirmado

\* exit_tcb goes on with the thread exec_tcb dispatched last, and frees what it
\* announced.
LEMMA AvisosPaso ==
  ASSUME IInv, Reparto, Ajeno \/ PasoDeHilo
  PROVE  Avisos'
<1>0. Avisos /\ UnoPorVez /\ Despedida /\ Marco
  BY MarcoPaso DEF Reparto
<1>1. SemWaitExit => sem_exit > 0 /\ exit_queue' = exit_queue
  BY DEF SemWaitExit, colas
<1>2. SacarExit => /\ pc["exit"] = "sacar_exit" /\ pc'["exit"] = "thread_cancel"
                   /\ sem_exit' = 0 /\ tcb_salida' = Head(exit_queue)
  BY SacarExitSimple DEF SacarExit, Paso, semaforos, IInv, TypeOK, TipoControl
<1>3. PostExit => exit_queue = <<tcb_exec>> /\ exit_queue' = exit_queue
  BY DEF PostExit, Paso, colas, IInv, ColaExit
<1>4. Despachar => /\ sem_exit = 0 /\ pc["exit"] \in {"sin_crear", "sem_exit"}
                   /\ UNCHANGED <<sem_exit, exit_queue>> /\ pc'["exit"] = pc["exit"]
  <2>1. Despachar => Fichas = 1
    BY Una DEF Despachar, Paso, IInv
  <2> QED
    BY <2>1 DEF Despachar, Paso, semaforos, IInv, ColaExit, TypeOK, TipoControl
<1>5. ASSUME tcb_exec' # NULL
      PROVE  (\E pid \in PIDs : tcb_exec = Principal(pid) /\ EstaEn(despachados, tcb_exec))'
  <2>0. PIDs \subseteq PIDs' /\ \A pid \in PIDs : Principal(pid)' = Principal(pid)
    BY TipoHeapPaso, ListaDeProcesosCrece DEF HeapCrece, PIDs, IInv, TypeOK, TipoHeap
  <2>1. CASE UNCHANGED <<tcb_exec, despachados>>
    BY <1>0, <1>5, <2>0, <2>1 DEF Avisos, EstaEn
  <2>2. CASE Despachar
    <3>1. PICK pid \in process_list : tcb_exec' = Principal(pid)
      BY <2>2, LoQueSeDespacha
    <3>2. despachados' = Append(despachados, tcb_exec') /\ despachados \in Seq(TCBs)
      BY <2>2 DEF Despachar, IInv, TypeOK, TipoReferencias
    <3>3. pid \in PIDs
      BY <3>1 DEF IInv, TypeOK, TipoReferencias
    <3>4. tcb_exec' \in TCBs
      BY <3>1, <3>3, PrincipalEnHeap
    <3>5. PICK n \in Nat : n = Len(despachados) + 1
      BY <3>2
    <3>6. n \in DOMAIN despachados' /\ despachados'[n] = tcb_exec'
      BY <3>2, <3>4, <3>5
    <3>7. EstaEn(despachados, tcb_exec)'
      BY <3>6 DEF EstaEn
    <3> QED
      BY <2>0, <3>1, <3>3, <3>7
  <2> QED
    BY <1>0, <2>1, <2>2 DEF Marco
<1>6. ASSUME sem_exit' > 0 \/ pc'["exit"] = "sacar_exit"
      PROVE  exit_queue' = <<tcb_exec'>>
  <2>1. exit_queue = <<tcb_exec>>
    BY <1>0, <1>1, <1>3, <1>6, PasosHaciaManos DEF Marco, Avisos
  <2>2. ~SacarExit /\ ~AtenderThreadCancel /\ ~AtenderThreadExit
    BY <1>2, <1>6, <2>1, EncolaSimple
  <2>3. ~Despachar
    BY <1>4, <1>6
  <2> QED
    BY <1>0, <2>1, <2>2, <2>3 DEF Marco
<1>7. ASSUME EnManos'
      PROVE  tcb_salida' = tcb_exec'
  <2>1. ~Despachar
    BY <1>4, <1>7
  <2>2. CASE SacarExit
    BY <1>0, <1>2, <2>1, <2>2 DEF Marco, Avisos
  <2>3. CASE ~SacarExit
    <3>1. EnManos /\ tcb_salida' = tcb_salida
      BY <1>0, <1>7, <2>3, PasosHaciaManos DEF Marco, PasoDeExit, SemWaitExit,
         ConectarKill, EnviarKill, LiberarTcb, locales, Planificar
    <3> QED
      BY <1>0, <2>1, <3>1 DEF Marco, Avisos
  <2> QED
    BY <2>2, <2>3
<1>8. ASSUME NEW t \in TCBs'
      PROVE  /\ t \in avisados' => Acabado(t)'
             /\ memoria' = "viva" /\ Acabado(t)' => t \in avisados'
  <2>0. /\ \A u \in TCBs : tcb'[u].libre = tcb[u].libre \/ (LiberarTcb /\ u = tcb_salida)
        /\ t \in TCBs \/ ~tcb'[t].libre
    BY LibresPaso
  <2>1. ASSUME LiberarTcb
        PROVE  /\ pc["exit"] = "free" /\ pc'["exit"] = "sem_exit"
               /\ tcb_salida \in TCBs /\ tcb'[tcb_salida].libre /\ avisados' = avisados
    <3>1. /\ pc["exit"] = "free" /\ pc'["exit"] = "sem_exit" /\ avisados' = avisados
          /\ tcb' = [tcb EXCEPT ![tcb_salida].libre = TRUE]
      BY <2>1 DEF LiberarTcb, Paso, mensajes, IInv, TypeOK, TipoControl
    <3>2. tcb \in Seq(TipoTcb) /\ tcb_salida \in TCBs
      BY <3>1 DEF IInv, ColaExit, TypeOK, TipoHeap
    <3> QED
      BY <3>1, <3>2 DEF TipoTcb, TCBs
  <2>2. ASSUME EnviarKill
        PROVE  /\ pc["exit"] = "enviar_kill" /\ pc'["exit"] = "free"
               /\ tcb_salida' = tcb_salida /\ tcb_salida \in TCBs
               /\ avisados' = IF memoria = "viva" THEN avisados \cup {tcb_salida}
                                                 ELSE avisados
    BY <2>2 DEF EnviarKill, Paso, locales, IInv, ColaExit, TypeOK, TipoControl
  <2>3. ASSUME ~LiberarTcb, ~EnviarKill
        PROVE  Acabado(t)' <=> t \in TCBs /\ Acabado(t)
    <3>1. /\ pc'["exit"] = "free" <=> pc["exit"] = "free"
          /\ pc["exit"] = "free" => tcb_salida' = tcb_salida
      BY <1>0, <2>3, SacarExitSimple DEF Marco, PasoDeExit, SemWaitExit,
         ConectarKill, SacarExit, Planificar, Paso, IInv, TypeOK, TipoControl, Arranque
    <3>2. pc["exit"] = "free" => tcb_salida \in TCBs
      BY DEF IInv, ColaExit
    <3> QED
      BY <2>0, <2>3, <3>1, <3>2 DEF Acabado
  <2>4. t \in avisados => t \in TCBs
    BY DEF IInv, TypeOK, TipoReferencias
  <2>5. CASE LiberarTcb
    BY <1>0, <2>0, <2>1, <2>4, <2>5 DEF Acabado, Avisos, Marco
  <2>6. CASE EnviarKill
    BY <1>0, <2>0, <2>1, <2>2, <2>4, <2>6 DEF Acabado, Avisos, Marco
  <2>7. CASE ~LiberarTcb /\ ~EnviarKill
    BY <1>0, <2>3, <2>4, <2>7 DEF Avisos, Marco
  <2> QED
    BY <2>5, <2>6, <2>7
<1> QED
  BY <1>5, <1>6, <1>7, <1>8 DEF Avisos

-----------------------------------------------------------------------------
(* The invariant and what follows from it                                  *)

\* With no TCB there is nothing to place.
LEMMA RepartoInicial == Init => Reparto
<1> SUFFICES ASSUME Init
             PROVE  Reparto
  OBVIOUS
<1>1. \A h \in Hilos : pc[h] = IF h = "main" THEN "process_create" ELSE "sin_crear"
  BY DEF Init
<1>2. TCBs = {} /\ PIDs = {}
  BY DEF Init, TCBs, PIDs
<1>3. PrincipalesPropios /\ EnCurso
  BY <1>1, <1>2 DEF PrincipalesPropios, EnCurso, EtiquetasAtender
<1>4. UnoPorVez
  BY DEF Init, UnoPorVez
<1>5. Despedida /\ Confirmando /\ Avisos
  BY <1>1, <1>2 DEF Init, Despedida, Confirmando, DespachadoConfirmado, Avisos
<1> QED
  BY <1>3, <1>4, <1>5 DEF Reparto

\* Every step keeps it, given the kernel's global invariant.
LEMMA RepartoPaso == IInv /\ Reparto /\ [Next]_vars => Reparto'
<1> SUFFICES ASSUME IInv, Reparto, [Next]_vars
             PROVE  Reparto'
  OBVIOUS
<1>1. Ajeno \/ PasoDeHilo
  BY Casos DEF IInv
<1> QED
  BY <1>1, PropiosPaso, EnCursoPaso, UnoPorVezPaso, DespedidaPaso, ConfirmandoPaso,
     AvisosPaso DEF Reparto

\* Where the TCBs are, in every reachable state.
THEOREM Repartido == Spec => []Reparto
  BY RepartoInicial, RepartoPaso, Invariante, PTL DEF Spec

\* While Memoria lives, what reached READY or the CPU is what it confirmed,
\* whatever it refused before and however often process_create was retried.
THEOREM Confirmado == Spec => []DespachadoConfirmado
<1>1. Reparto => DespachadoConfirmado
  BY DEF Reparto, Confirmando
<1> QED
  BY <1>1, Repartido, PTL

\* The kernel asks Memoria only for what it can serve: threads of processes that
\* are confirmed and not over, one kill for each thread that ran, and no TCB is
\* freed behind its back.
THEOREM Pedidos == Spec => []PedidosLegales
<1>1. ASSUME IInv, Reparto, memoria = "viva", pc["exec"] = "enviar_hilo"
      PROVE  Pid \in confirmados /\ Principal(Pid) \notin avisados
  <2>1. /\ Pid \in PIDs /\ Pid \in process_list /\ Principal(Pid) \in TCBs
    BY <1>1, SirveAUnPrincipal, PrincipalEnHeap DEF EtiquetasAtender, IInv, TypeOK, TipoReferencias
  <2>2. ~Acabado(Principal(Pid))
    BY <1>1, <2>1 DEF Acabado, Reparto, Despedida, IInv, ColaExit, PuedeCrear
  <2> QED
    BY <1>1, <2>1, <2>2 DEF Reparto, Confirmando, DespachadoConfirmado, Avisos
<1>2. ASSUME IInv, Reparto, memoria = "viva", pc["exit"] = "enviar_kill"
      PROVE  /\ EstaEn(despachados, tcb_salida) /\ tcb_salida \notin avisados
             /\ \E pid \in confirmados : tcb_salida = Principal(pid)
  <2>1. tcb_salida \in TCBs /\ tcb_salida = tcb_exec
    BY <1>2 DEF Reparto, Avisos, IInv, ColaExit
  <2>2. PICK pid \in PIDs : tcb_exec = Principal(pid) /\ EstaEn(despachados, tcb_exec)
    BY <2>1, <1>2 DEF Reparto, Avisos, TCBs
  <2>3. ~Acabado(tcb_salida)
    BY <1>2, <2>1 DEF Acabado, Reparto, Despedida
  <2> QED
    BY <1>2, <2>1, <2>2, <2>3 DEF Reparto, Confirmando, DespachadoConfirmado, Avisos
<1>3. IInv /\ Reparto => PedidosLegales
  BY <1>1, <1>2 DEF PedidosLegales, Reparto, Avisos, Acabado
<1> QED
  BY <1>3, Invariante, Repartido, PTL

\* No list holds a TCB another list or thread has, nor one that was freed.
THEOREM UnLugar == Spec => []UnSoloLugar
<1>1. ASSUME IInv, Reparto, NEW t \in TCBs
      PROVE  LET lugares == <<ready_list, exit_queue, blocked_queue,
                      IF pc["exec"] = "buffer_recv" THEN <<tcb_exec>> ELSE <<>>,
                      IF EnManos THEN <<tcb_salida>> ELSE <<>>>>
                 donde == {x \in (DOMAIN lugares) \X TCBs :
                      x[2] \in DOMAIN lugares[x[1]] /\ lugares[x[1]][x[2]] = t}
             IN  /\ \A x, y \in donde : x = y
                 /\ tcb[t].libre => donde = {}
  <2> DEFINE lugares == <<ready_list, exit_queue, blocked_queue,
                      IF pc["exec"] = "buffer_recv" THEN <<tcb_exec>> ELSE <<>>,
                      IF EnManos THEN <<tcb_salida>> ELSE <<>>>>
             donde == {x \in (DOMAIN lugares) \X TCBs :
                      x[2] \in DOMAIN lugares[x[1]] /\ lugares[x[1]][x[2]] = t}
             Ocupa(a) == \/ a = 1 /\ ready_list # <<>>
                         \/ a = 2 /\ exit_queue # <<>>
                         \/ a = 4 /\ pc["exec"] = "buffer_recv"
                         \/ a = 5 /\ EnManos
  <2>1. /\ DOMAIN lugares = 1..5
        /\ lugares[1] = ready_list /\ lugares[2] = exit_queue
        /\ lugares[3] = blocked_queue
        /\ lugares[4] = IF pc["exec"] = "buffer_recv" THEN <<tcb_exec>> ELSE <<>>
        /\ lugares[5] = IF EnManos THEN <<tcb_salida>> ELSE <<>>
    OBVIOUS
  <2>2. /\ ready_list \in Seq(TCBs) /\ Len(ready_list) <= 1
        /\ exit_queue \in Seq(TCBs) /\ Len(exit_queue) <= 1
        /\ blocked_queue \in Seq({NULL}) /\ t # NULL
    BY <1>1 DEF IInv, TypeOK, TipoReferencias, Reparto, UnoPorVez, TCBs
  <2> HIDE DEF lugares
  <2>3. ASSUME NEW x \in donde
        PROVE  x = <<x[1], 1>> /\ Ocupa(x[1])
    <3>1. PICK a \in 1..5, b \in TCBs : x = <<a, b>>
      BY <2>1
    <3>2. b \in DOMAIN lugares[a] /\ lugares[a][b] = t
      BY <3>1
    <3>3. CASE a \in {1, 2}
      BY <2>1, <2>2, <3>1, <3>2, <3>3 DEF TCBs
    <3>4. CASE a = 3
      BY <2>1, <2>2, <3>2, <3>4
    <3>5. CASE a \in {4, 5}
      BY <2>1, <3>1, <3>2, <3>5
    <3> QED
      BY <3>1, <3>3, <3>4, <3>5
  <2>4. \A a, b : Ocupa(a) /\ Ocupa(b) => a = b
    <3>1. pc["exec"] = "buffer_recv" => exit_queue = <<>> /\ ~EnManos
      BY <1>1 DEF IInv, ColaExit, PuedeCrear
    <3> QED
      BY <1>1, <3>1 DEF Reparto, UnoPorVez
  <2>5. tcb[t].libre => \A a : ~Ocupa(a)
    BY <1>1 DEF Reparto, Despedida
  <2> HIDE DEF Ocupa
  <2>6. \A x, y \in donde : x = y
    BY <2>3, <2>4
  <2>7. tcb[t].libre => donde = {}
    BY <2>3, <2>5
  <2> QED
    BY <2>6, <2>7 DEF lugares
<1>2. IInv /\ Reparto => UnSoloLugar
  BY <1>1 DEF UnSoloLugar
<1> QED
  BY <1>2, Invariante, Repartido, PTL

\* Whoever may look a thread up in a TIDs list finds no freed TCB there: the
\* first free() comes when exec_tcb has nobody left to serve.
THEOREM TidsVivos == Spec => []SinLeerLiberado
<1>1. ASSUME IInv, Reparto, NEW pid \in PIDs, NEW i \in DOMAIN TIDs[pid],
             tcb[TIDs[pid][i]].libre
      PROVE  pc["exec"] \in {"log_exit", "sem_ready"} /\ pc["exit"] = "sem_exit"
  <2>1. TIDs[pid][i] \in TCBs
    BY <1>1 DEF IInv, TypeOK, TipoHeap, PIDs
  <2> QED
    BY <1>1, <2>1 DEF Reparto, Despedida
<1>2. IInv /\ Reparto => SinLeerLiberado
  BY <1>1 DEF SinLeerLiberado, EtiquetasAtender
<1> QED
  BY <1>2, Invariante, Repartido, PTL

-----------------------------------------------------------------------------
(* The refinement of Planificador                                          *)

\* exec_tcb is serving t.
Sirve(t) == tcb_exec = t /\ pc["exec"] \in EtiquetasAtender

\* A step that does not move t, but may end what exec_tcb does for it.
Mismo(t) ==
  /\ tcb'[t].libre = tcb[t].libre
  /\ EnSalida(t)' <=> EnSalida(t)
  /\ EstaEn(ready_list, t)' <=> EstaEn(ready_list, t)
  /\ EstaEn(despachados, t)' <=> EstaEn(despachados, t)
  /\ Sirve(t)' => Sirve(t)

Principales == {Principal(pid) : pid \in PIDs}

\* A TCB that does not move keeps its state, or the kernel forgets it.
LEMMA MismoSuelta ==
  ASSUME NEW t, Mismo(t)
  PROVE  \/ Vida(t)' = Vida(t)
         \/ Vida(t) = "EXEC" /\ Vida(t)' = "SUELTO" /\ Sirve(t)
  BY DEF Mismo, Vida, Sirve

\* What the state of a process is after a step, its main TCB being what it was.
LEMMA VidaDelPrincipal ==
  ASSUME IInv, Ajeno \/ PasoDeHilo, NEW pid \in PIDs, NEW t, t = Principal(pid)
  PROVE  /\ t \in TCBs /\ t \in Principales
         /\ pid \in PIDs' /\ Vidas[pid] = Vida(t) /\ Vidas'[pid] = Vida(t)'
<1>1. t \in TCBs /\ t \in Principales
  BY PrincipalEnHeap DEF Principales
<1>2. Principal(pid)' = t
  BY ListaDeProcesosCrece
<1>3. pid \in PIDs'
  BY TipoHeapPaso DEF HeapCrece, PIDs
<1> QED
  BY <1>1, <1>2, <1>3 DEF Vidas

\* No process moves.
LEMMA CambiaNinguna ==
  ASSUME PIDs' = PIDs, \A q \in PIDs : Vidas'[q] = Vidas[q]
  PROVE  Vidas' = Vidas
<1>1. /\ Vidas = [q \in PIDs |-> Vidas[q]]
      /\ Vidas' = [q \in PIDs' |-> Vidas'[q]]
  BY DEF Vidas
<1> QED
  BY <1>1

\* One process moves.
LEMMA CambiaUna ==
  ASSUME PIDs' = PIDs, NEW p \in PIDs, NEW d, NEW h, Vidas[p] = d, Vidas'[p] = h,
         \A q \in PIDs \ {p} : Vidas'[q] = Vidas[q]
  PROVE  Plan!Pasa(p, d, h)
<1>1. /\ Vidas = [q \in PIDs |-> Vidas[q]] /\ DOMAIN Vidas = PIDs
      /\ Vidas' = [q \in PIDs' |-> Vidas'[q]]
  BY DEF Vidas
<1>2. Vidas' = [Vidas EXCEPT ![p] = h]
  BY <1>1
<1> QED
  BY <1>1, <1>2 DEF Plan!Pasa, Plan!En

\* When no main TCB moves, at most the one served is forgotten.
LEMMA SueltaPaso ==
  ASSUME IInv, Ajeno \/ PasoDeHilo, PIDs' = PIDs,
         \A t \in Principales : Mismo(t)
  PROVE  [Plan!Next]_Vidas
<1>1. ASSUME NEW pid \in PIDs
      PROVE  \/ Vidas'[pid] = Vidas[pid]
             \/ /\ Vidas[pid] = "EXEC" /\ Vidas'[pid] = "SUELTO"
                /\ tcb_exec = Principal(pid)
  <2>1. PICK t : t = Principal(pid)
    OBVIOUS
  <2>2. t \in Principales /\ Vidas[pid] = Vida(t) /\ Vidas'[pid] = Vida(t)'
    BY <2>1, VidaDelPrincipal
  <2> QED
    BY <2>1, <2>2, MismoSuelta DEF Sirve
<1>2. CASE \A q \in PIDs : Vidas'[q] = Vidas[q]
  BY <1>2, CambiaNinguna
<1>3. ASSUME NEW p \in PIDs, Vidas'[p] # Vidas[p]
      PROVE  Plan!Next
  <2>1. \A q \in PIDs \ {p} : Vidas'[q] = Vidas[q]
    BY <1>1, <1>3, PrincipalInyectivo
  <2>2. Plan!Pasa(p, "EXEC", "SUELTO")
    BY <1>1, <1>3, <2>1, CambiaUna
  <2>3. p \in DOMAIN Vidas
    BY DEF Vidas
  <2> QED
    BY <2>2, <2>3 DEF Plan!Next, Plan!Soltar
<1> QED
  BY <1>2, <1>3

\* Most steps move no TCB.
LEMMA SinNovedad ==
  ASSUME IInv, Reparto, Ajeno \/ PasoDeHilo, NEW t \in TCBs,
         \A h \in Creadores : ~AddReady(h),
         ~Despachar, ~AtenderThreadCancel, ~AtenderThreadExit,
         t \in Principales, LiberarTcb => t # tcb_salida
  PROVE  Mismo(t)
<1>0. Marco
  BY MarcoPaso
<1>1. tcb'[t].libre = tcb[t].libre
  BY LibresPaso
<1>2. EstaEn(ready_list, t)' <=> EstaEn(ready_list, t)
  <2>1. CASE ready_list' = ready_list
    BY <2>1 DEF EstaEn
  <2>2. CASE AddHilo
    BY <2>2, AddHiloSimple DEF EstaEn, Principales
  <2> QED
    BY <1>0, <2>1, <2>2 DEF Marco
<1>3. EstaEn(despachados, t)' <=> EstaEn(despachados, t)
  BY <1>0 DEF EstaEn, Marco
<1>4. Sirve(t)' => Sirve(t)
  BY PasosHaciaAtender DEF Sirve
<1>5. EnSalida(t)' <=> EnSalida(t)
  <2>1. CASE SacarExit
    <3>1. PICK u : /\ Paso("exit", "sacar_exit", "thread_cancel")
                   /\ exit_queue = <<u>> /\ exit_queue' = <<>> /\ tcb_salida' = u
      BY <2>1, TomarExit
    <3>2. EnManos' /\ ~EnManos
      BY <3>1 DEF Paso, IInv, TypeOK, TipoControl
    <3>3. EstaEn(exit_queue, t) <=> t = u
      BY <3>1 DEF EstaEn
    <3> QED
      BY <3>1, <3>2, <3>3 DEF EnSalida, EstaEn
  <2>2. CASE ~SacarExit
    <3>1. EstaEn(exit_queue, t)' <=> EstaEn(exit_queue, t)
      BY <1>0, <2>2 DEF Marco, EstaEn
    <3>2. CASE pc'["exit"] = pc["exit"] /\ tcb_salida' = tcb_salida
      BY <3>1, <3>2 DEF EnSalida
    <3>3. CASE ConectarKill \/ EnviarKill \/ SemWaitExit
      BY <3>1, <3>3 DEF ConectarKill, EnviarKill, SemWaitExit, EnSalida, Paso, locales,
         IInv, TypeOK, TipoControl
    <3>4. CASE LiberarTcb
      BY <3>1, <3>4 DEF LiberarTcb, EnSalida, Paso, locales
    <3>5. CASE Planificar
      BY <3>1, <3>5 DEF Planificar, EnSalida, IInv, Arranque
    <3> QED
      BY <1>0, <2>2, <3>2, <3>3, <3>4, <3>5 DEF Marco, PasoDeExit
  <2> QED
    BY <2>1, <2>2
<1> QED
  BY <1>1, <1>2, <1>3, <1>4, <1>5 DEF Mismo

\* process_create makes a process.
LEMMA AlocarRefina ==
  ASSUME IInv, Reparto, NEW h \in Creadores, Alocar(h)
  PROVE  Plan!Next
<1>1. PasoDeHilo /\ TypeOK
  BY DEF PasoDeHilo, ProcessCreate, IInv
<1>2. /\ Paso(h, "process_create", "recv")
      /\ tcb' = Append(tcb, [PID |-> Len(TIDs) + 1, TID |-> 0, TID_wait |-> -1,
                             libre |-> FALSE])
      /\ TIDs' = Append(TIDs, <<Len(tcb) + 1>>)
      /\ UNCHANGED <<tcb_exec, tcb_salida, ready_list, exit_queue, despachados>>
  BY DEF Alocar, colas, mensajes
<1>3. pc["exec"] \notin EtiquetasAtender /\ pc'["exit"] = pc["exit"]
  BY <1>1, <1>2, Una DEF IInv, Paso, EtiquetasCrear, TypeOK, TipoControl
<1>4. PICK n \in Nat, m \in Nat :
        /\ n = Len(TIDs) + 1 /\ PIDs' = 1..n /\ PIDs = 1..(n - 1)
        /\ m = Len(tcb) + 1 /\ m \notin TCBs /\ m \in TCBs' /\ m # 0
        /\ TIDs'[n] = <<m>>
  <2>1. Len(TIDs) \in Nat /\ Len(tcb) \in Nat
    BY <1>1 DEF TypeOK, TipoHeap
  <2>2. PICK n \in Nat, m \in Nat : n = Len(TIDs) + 1 /\ m = Len(tcb) + 1
    BY <2>1
  <2>3. Len(TIDs') = n /\ Len(tcb') = m /\ TIDs'[n] = <<m>>
    BY <1>1, <1>2, <2>2 DEF TypeOK, TipoHeap
  <2>4. /\ PIDs' = 1..n /\ PIDs = 1..(n - 1)
        /\ m \notin TCBs /\ m \in TCBs' /\ m # 0
    BY <2>1, <2>2, <2>3 DEF PIDs, TCBs
  <2> QED
    BY <2>2, <2>3, <2>4
<1>5. Principal(n)' = m
  BY <1>4 DEF Principal
<1>6. Vida(m)' = "NEW"
  <2>1. ~tcb'[m].libre
    BY <1>1, <1>4, LibresPaso
  <2>2. ~EstaEn(exit_queue, m) /\ ~EstaEn(ready_list, m) /\ ~EstaEn(despachados, m)
        /\ tcb_salida # m
    BY <1>1, <1>4 DEF TypeOK, TipoReferencias, EstaEn
  <2> QED
    BY <1>2, <2>1, <2>2 DEF Vida, EnSalida, EstaEn
<1>7. ASSUME NEW q \in PIDs
      PROVE  Vidas'[q] = Vidas[q]
  <2>1. PICK t : t = Principal(q)
    OBVIOUS
  <2>2. /\ t \in TCBs /\ t \in Principales
        /\ Vidas[q] = Vida(t) /\ Vidas'[q] = Vida(t)'
    BY <1>1, <2>1, VidaDelPrincipal
  <2>3. /\ ~LiberarTcb /\ ~Despachar /\ ~AtenderThreadCancel /\ ~AtenderThreadExit
        /\ \A k \in Creadores : ~AddReady(k)
    <3>1. nuevo' # nuevo
      <4>1. nuevo'[h] = n /\ nuevo[h] # n
        BY <1>1, <1>4 DEF Alocar, TypeOK, TipoReferencias
      <4> QED
        BY <4>1
    <3> QED
      BY <3>1 DEF LiberarTcb, Despachar, AtenderThreadCancel, AtenderThreadExit,
         AddReady, locales
  <2>4. Mismo(t)
    BY <1>1, <2>2, <2>3, SinNovedad
  <2> QED
    BY <1>3, <2>2, <2>4, MismoSuelta DEF Sirve
<1>8. Vidas' = Append(Vidas, "NEW")
  <2>1. /\ Vidas = [q \in 1..(n - 1) |-> Vidas[q]]
        /\ Vidas' = [q \in 1..n |-> Vidas'[q]]
    BY <1>4 DEF Vidas
  <2>2. Vidas'[n] = "NEW"
    BY <1>4, <1>5, <1>6 DEF Vidas
  <2>3. n - 1 \in Nat
    BY <1>1, <1>4 DEF TypeOK, TipoHeap
  <2>4. Len(Vidas) = n - 1
    BY <2>1, <2>3
  <2>5. Append(Vidas, "NEW") = [q \in 1..n |-> IF q = n THEN "NEW" ELSE Vidas[q]]
    BY <2>1, <2>3, <2>4
  <2> QED
    BY <1>4, <1>7, <2>1, <2>2, <2>5
<1> QED
  BY <1>8 DEF Plan!Next, Plan!Crear

\* process_create puts the process in READY, where and on the CPU nobody is.
LEMMA AddReadyRefina ==
  ASSUME IInv, Reparto, NEW h \in Creadores, AddReady(h), PIDs' = PIDs
  PROVE  Plan!Next
<1>1. PasoDeHilo /\ TypeOK
  BY DEF PasoDeHilo, ProcessCreate, IInv
<1>2. PICK p \in PIDs, t \in TCBs : p = nuevo[h] /\ t = Principal(p)
  BY AddReadySimple, PrincipalEnHeap
<1>3. /\ Paso(h, "add_ready", "add_proc") /\ Fichas = 1
      /\ ready_list = <<>> /\ ready_list' = <<t>>
      /\ UNCHANGED <<tcb_exec, tcb_salida, tcb, exit_queue, despachados>>
      /\ pc["exec"] \notin EtiquetasAtender
  BY <1>2, AddReadySimple DEF locales, heap, colas, mensajes
<1>4. /\ pc'["exec"] \notin EtiquetasAtender /\ pc'["exit"] = pc["exit"]
  BY <1>1, <1>3 DEF Paso, TypeOK, TipoControl, EtiquetasAtender
<1>5. exit_queue = <<>> /\ ~EnManos /\ ~EstaEn(despachados, t)
  BY <1>2, <1>3 DEF IInv, ColaExit, SinRepetir, Paso
<1>6. t \in TCBs /\ ~tcb[t].libre
  BY <1>1, <1>2, <1>3, VidaDelPrincipal DEF Reparto, Despedida
<1>7. Vida(t) = "NEW" /\ Vida(t)' = "READY"
  BY <1>3, <1>4, <1>5, <1>6 DEF Vida, EnSalida, EstaEn
<1>8. \A u : Vida(u) \notin {"READY", "EXEC"}
  BY <1>3 DEF Vida, EstaEn
<1>9. \A u : u # t => Vida(u)' = Vida(u)
  BY <1>3, <1>4 DEF Vida, EnSalida, EstaEn
<1>10. \A q \in PIDs : Vidas[q] \notin {"READY", "EXEC"}
  BY <1>8 DEF Vidas
<1>11. ASSUME NEW q \in PIDs, q # p
       PROVE  Vidas'[q] = Vidas[q]
  <2>1. PICK u : u = Principal(q) /\ u # t
    BY <1>2, <1>11, PrincipalInyectivo
  <2> QED
    BY <1>1, <1>9, <2>1, VidaDelPrincipal
<1>12. Plan!Pasa(p, "NEW", "READY")
  BY <1>1, <1>2, <1>7, <1>11, VidaDelPrincipal, CambiaUna
<1>13. p \in DOMAIN Vidas /\ DOMAIN Vidas = PIDs
  BY DEF Vidas
<1>14. Plan!En("READY") \cup Plan!En("EXEC") = {}
  BY <1>10, <1>13 DEF Plan!En
<1> QED
  BY <1>12, <1>13, <1>14 DEF Plan!Next, Plan!Aceptar

\* exec_tcb sends the process to the CPU.
LEMMA DespacharRefina ==
  ASSUME IInv, Reparto, Despachar, PIDs' = PIDs
  PROVE  Plan!Next
<1>1. PasoDeHilo /\ TypeOK
  BY DEF PasoDeHilo, IInv
<1>2. PICK p \in PIDs, t \in TCBs :
        /\ t = Principal(p) /\ ready_list = <<t>> /\ ready_list' = <<>>
        /\ tcb_exec' = t /\ despachados' = Append(despachados, t)
  BY <1>1, LoQueSeDespacha, PrincipalEnHeap DEF TypeOK, TipoReferencias
<1>3. /\ pc["exec"] = "elegir" /\ pc' = [pc EXCEPT !["exec"] = "buffer_recv"]
      /\ UNCHANGED <<tcb_salida, tcb, exit_queue>>
  BY DEF Despachar, Paso, heap
<1>4. /\ pc'["exec"] = "buffer_recv" /\ pc'["exit"] = pc["exit"]
  BY <1>1, <1>3 DEF TypeOK, TipoControl
<1>5. exit_queue = <<>> /\ ~EnManos
  BY <1>2 DEF Reparto, UnoPorVez
<1>6. t \in TCBs /\ ~tcb[t].libre
  BY <1>1, <1>2, VidaDelPrincipal DEF Reparto, Despedida
<1>7. \A u : EstaEn(despachados', u) <=> u = t \/ EstaEn(despachados, u)
  <2>1. despachados \in Seq(TCBs)
    BY <1>1 DEF TypeOK, TipoReferencias
  <2>2. PICK n \in Nat :
          /\ DOMAIN despachados = 1..n /\ DOMAIN despachados' = 1..(n + 1)
          /\ despachados'[n + 1] = t
          /\ \A i \in 1..n : despachados'[i] = despachados[i]
    BY <1>2, <2>1
  <2> QED
    BY <2>2 DEF EstaEn
<1>8. Vida(t) = "READY" /\ Vida(t)' = "EXEC"
  BY <1>2, <1>3, <1>4, <1>5, <1>6, <1>7 DEF Vida, EnSalida, EstaEn, EtiquetasAtender
<1>9. \A u : u # t => Vida(u)' = Vida(u)
  <2>1. \A u : u # t => ~EstaEn(ready_list, u)
    BY <1>2 DEF EstaEn
  <2> QED
    BY <1>2, <1>3, <1>4, <1>5, <1>7, <2>1 DEF Vida, EnSalida, EstaEn, EtiquetasAtender
<1>10. ASSUME NEW q \in PIDs, q # p
       PROVE  Vidas'[q] = Vidas[q]
  <2>1. PICK u : u = Principal(q) /\ u # t
    BY <1>2, <1>10, PrincipalInyectivo
  <2> QED
    BY <1>1, <1>9, <2>1, VidaDelPrincipal
<1>11. Plan!Pasa(p, "READY", "EXEC") /\ p \in DOMAIN Vidas
  BY <1>1, <1>2, <1>8, <1>10, VidaDelPrincipal, CambiaUna DEF Vidas
<1> QED
  BY <1>11 DEF Plan!Next, Plan!Despachar

\* THREAD_EXIT, or THREAD_CANCEL of itself, sends the process to EXIT; another
\* THREAD_CANCEL only loses it.
LEMMA EncolaRefina ==
  ASSUME IInv, Reparto, AtenderThreadCancel \/ AtenderThreadExit, PIDs' = PIDs
  PROVE  [Plan!Next]_Vidas
<1>1. PasoDeHilo /\ TypeOK
  BY DEF PasoDeHilo, IInv
<1>2. PICK t \in TCBs :
        /\ \E hasta \in {"post_exit", "sem_ready"} :
              Paso("exec", "buffer_recv", hasta)
        /\ ready_list = <<>> /\ ready_list' = <<>>
        /\ exit_queue = <<>> /\ exit_queue' = <<t>>
        /\ pc["exit"] \in {"sin_crear", "sem_exit"}
        /\ AtenderThreadExit => t = tcb_exec
        /\ \A pid \in PIDs : t = Principal(pid) => t = tcb_exec
        /\ UNCHANGED <<tcb_exec, tcb_salida, tcb, despachados>>
  BY EncolaSimple DEF locales, heap, mensajes
<1>3. /\ pc["exec"] = "buffer_recv" /\ pc'["exec"] \in {"post_exit", "sem_ready"}
      /\ pc'["exit"] = pc["exit"] /\ ~EnManos /\ ~EnManos'
  BY <1>1, <1>2 DEF Paso, TypeOK, TipoControl
<1>4. PICK p \in PIDs, u \in TCBs : u = Principal(p) /\ u = tcb_exec
  BY <1>3, SirveAUnPrincipal DEF EtiquetasAtender
<1>5. \A v : v # t => Mismo(v)
  BY <1>2, <1>3 DEF Mismo, EnSalida, EstaEn, Sirve, EtiquetasAtender
<1>6. CASE t # u
  <2>1. \A v \in Principales : Mismo(v)
    BY <1>2, <1>4, <1>5, <1>6 DEF Principales
  <2> QED
    BY <1>1, <2>1, SueltaPaso
<1>7. CASE t = u
  <2>1. ~tcb[u].libre /\ EstaEn(despachados, u)
    BY <1>3, <1>4 DEF Reparto, EnCurso, Despedida, EtiquetasAtender
  <2>2. Vida(u) = "EXEC" /\ Vida(u)' = "EXIT"
    BY <1>2, <1>3, <1>4, <1>7, <2>1 DEF Vida, EnSalida, EstaEn, EtiquetasAtender
  <2>3. ASSUME NEW q \in PIDs, q # p
        PROVE  Vidas'[q] = Vidas[q]
    <3>1. PICK v \in TCBs : v = Principal(q) /\ v # u
      BY <1>4, <2>3, PrincipalInyectivo, PrincipalEnHeap
    <3>2. Mismo(v) /\ ~Sirve(v)
      BY <1>4, <1>5, <1>7, <3>1 DEF Sirve
    <3> QED
      BY <1>1, <3>1, <3>2, MismoSuelta, VidaDelPrincipal
  <2>4. Plan!Pasa(p, "EXEC", "EXIT") /\ p \in DOMAIN Vidas
    BY <1>1, <1>4, <2>2, <2>3, VidaDelPrincipal, CambiaUna DEF Vidas
  <2> QED
    BY <2>4 DEF Plan!Next, Plan!Salir
<1> QED
  BY <1>6, <1>7

\* exit_tcb frees the TCB: if it is a main one, its process has ended.
LEMMA LiberarRefina ==
  ASSUME IInv, Reparto, LiberarTcb, PIDs' = PIDs
  PROVE  [Plan!Next]_Vidas
<1>1. PasoDeHilo /\ TypeOK
  BY DEF PasoDeHilo, IInv
<1>2. pc["exit"] = "free" /\ EnManos /\ UNCHANGED TIDs
  BY DEF LiberarTcb, Paso
<1>3. PICK t \in TCBs : t = tcb_salida
  BY <1>2 DEF IInv, ColaExit
<1>4. \A v \in Principales \ {t} : Mismo(v)
  <2>1. /\ ~Despachar /\ ~AtenderThreadCancel /\ ~AtenderThreadExit
        /\ \A k \in Creadores : ~AddReady(k)
    BY <1>2, LoQueSeDespacha, AddReadySimple, EncolaSimple
    DEF IInv, ColaExit, Reparto, Despedida, Despachar, Paso
  <2>2. Principales \subseteq TCBs
    BY PrincipalEnHeap DEF Principales
  <2> QED
    BY <1>1, <1>3, <2>1, <2>2, SinNovedad
<1>5. CASE t \notin Principales
  BY <1>1, <1>4, <1>5, SueltaPaso
<1>6. CASE t \in Principales
  <2>1. PICK p \in PIDs : t = Principal(p)
    BY <1>6 DEF Principales
  <2>2. ~tcb[t].libre /\ Fichas = 0 /\ pc["exec"] \in {"log_exit", "sem_ready"}
    BY <1>2 DEF Reparto, Despedida
  <2>3. Vida(t) = "EXIT"
    BY <1>2, <1>3, <2>2 DEF Vida, EnSalida
  <2>4. tcb'[t].libre
    <3>1. tcb' = [tcb EXCEPT ![t] = [tcb[t] EXCEPT !.libre = TRUE]]
      BY <1>3 DEF LiberarTcb
    <3>2. tcb \in Seq(TipoTcb) /\ t \in DOMAIN tcb /\ tcb[t] \in TipoTcb
      BY <1>1 DEF TypeOK, TipoHeap, TCBs
    <3>3. tcb'[t] = [tcb[t] EXCEPT !.libre = TRUE]
      BY <3>1, <3>2
    <3> QED
      BY <3>2, <3>3 DEF TipoTcb
  <2>5. Vida(t)' = "FIN"
    BY <2>4 DEF Vida
  \* The kernel may have forgotten no other process: exec_tcb does not move.
  <2>6. ASSUME NEW q \in PIDs, q # p
        PROVE  Vidas'[q] = Vidas[q]
    <3>1. PICK v \in TCBs : v = Principal(q) /\ v # t
      BY <2>1, <2>6, PrincipalInyectivo, PrincipalEnHeap
    <3>2. Mismo(v) /\ tcb_exec' = tcb_exec /\ pc'["exec"] = pc["exec"]
      BY <1>1, <1>4, <3>1 DEF LiberarTcb, Paso, locales, Principales, TypeOK,
         TipoControl
    <3>3. Vida(v)' = Vida(v)
      BY <3>2 DEF Mismo, Vida
    <3> QED
      BY <1>1, <3>1, <3>3, VidaDelPrincipal
  <2>7. Plan!Pasa(p, "EXIT", "FIN") /\ p \in DOMAIN Vidas
    BY <1>1, <2>1, <2>3, <2>5, <2>6, VidaDelPrincipal, CambiaUna DEF Vidas
  <2> QED
    BY <2>7 DEF Plan!Next, Plan!Terminar
<1> QED
  BY <1>5, <1>6

\* A process is made by process_create only.
LEMMA SoloAlocar ==
  ASSUME IInv, Ajeno \/ PasoDeHilo, \A h \in Creadores : ~Alocar(h)
  PROVE  PIDs' = PIDs
<1>1. TIDs \in Seq(Seq(TCBs))
  BY DEF IInv, TypeOK, TipoHeap
<1>2. CASE TIDs' = TIDs
  BY <1>2 DEF PIDs
<1>3. CASE EnviarHilo
  <2>1. \E lista : TIDs' = [TIDs EXCEPT ![Pid] = lista]
    BY <1>3 DEF EnviarHilo
  <2>2. Len(TIDs') = Len(TIDs)
    BY <1>1, <2>1
  <2> QED
    BY <2>2 DEF PIDs
<1> QED
  BY <1>2, <1>3, MarcoHeap, JoinSimple DEF heap, LiberarTcb

\* Every step of the kernel is a step of the abstract scheduler, or none.
LEMMA PasoRefina ==
  ASSUME IInv, Reparto, [Next]_vars
  PROVE  [Plan!Next]_Vidas
<1>1. Ajeno \/ PasoDeHilo
  BY Casos DEF IInv
<1>2. CASE \E h \in Creadores : Alocar(h)
  BY <1>2, AlocarRefina
<1>3. CASE \A h \in Creadores : ~Alocar(h)
  <2>1. PIDs' = PIDs
    BY <1>1, <1>3, SoloAlocar
  <2>2. CASE \E h \in Creadores : AddReady(h)
    BY <2>1, <2>2, AddReadyRefina
  <2>3. CASE Despachar
    BY <2>1, <2>3, DespacharRefina
  <2>4. CASE AtenderThreadCancel \/ AtenderThreadExit
    BY <2>1, <2>4, EncolaRefina
  <2>5. CASE LiberarTcb
    BY <2>1, <2>5, LiberarRefina
  <2>6. CASE /\ ~Despachar /\ ~AtenderThreadCancel /\ ~AtenderThreadExit
             /\ ~LiberarTcb /\ \A h \in Creadores : ~AddReady(h)
    <3>1. \A t \in Principales : t \in TCBs
      BY PrincipalEnHeap DEF Principales
    <3> QED
      BY <1>1, <2>1, <2>6, <3>1, SinNovedad, SueltaPaso
  <2> QED
    BY <2>2, <2>3, <2>4, <2>5, <2>6
<1> QED
  BY <1>2, <1>3

\* Before process_create has run there is no process.
LEMMA InicioRefina == Init => Plan!Init
<1> SUFFICES ASSUME Init
             PROVE  Vidas = <<>>
  BY DEF Plan!Init
<1>1. PIDs = {}
  BY DEF Init, PIDs
<1> QED
  BY <1>1 DEF Vidas

\* The kernel, its threads, lists and semaphores, implements Planificador.
THEOREM Implementa == Spec => Planifica
<1>1. Spec => Plan!Init /\ [][Plan!Next]_Vidas
  BY InicioRefina, PasoRefina, Invariante, Repartido, PTL DEF Spec
<1> QED
  BY <1>1 DEF Planifica, Plan!Spec

=============================================================================
