---------------------------- MODULE KernelPruebas ---------------------------
(***************************************************************************)
(* Proofs about the kernel process, for every initial value of sem_exec,   *)
(* every number of refusals, every set of syscalls and both algorithms.    *)
(***************************************************************************)
EXTENDS KernelProps, TLAPS

USE DEF Creadores, Hilos, NULL, EnManos

\* A step that moves no thread: the process dies, a peer dies, or nothing
\* happens.
Ajeno ==
  /\ UNCHANGED <<pc, fallas, locales, heap, colas, semaforos, mensajes>>
  /\ estado' \in {"corriendo", "terminado", "abortado"}
  /\ memoria' \in {"viva", "caida"} /\ cpu' \in {"viva", "caida"}
  /\ memoria' = "viva" => memoria = "viva"

\* The steps of the threads.
PasoDeHilo ==
  \/ \E h \in Creadores : ProcessCreate(h)
  \/ Planificar \/ SemWaitNew \/ SacarNew
  \/ SemWaitExit \/ SacarExit \/ ConectarKill
  \/ EnviarKill \/ LiberarTcb \/ ConectarCpu
  \/ SemWaitReady \/ SemWaitExec \/ Despachar
  \/ ConectarHilo \/ EnviarHilo \/ HandshakeFalla
  \/ AddHilo \/ PostExit \/ LogExit
  \/ RecvSinCpu \/ AtenderProcessCreate \/ AtenderProcessExit
  \/ AtenderThreadCreate \/ AtenderThreadJoin \/ AtenderThreadCancel
  \/ AtenderTidInexistente \/ AtenderThreadExit \/ AtenderSinEfecto

\* Every step of the specification is one of the above.
LEMMA Casos ==
  ASSUME TypeOK, [Next]_vars
  PROVE  Ajeno \/ PasoDeHilo
<1>1. CASE UNCHANGED vars
  BY <1>1 DEF Ajeno, TypeOK, TipoControl, vars, entorno
<1>2. CASE Next
  BY <1>2 DEF Ajeno, PasoDeHilo, TypeOK, TipoControl, Next, HiloMain, HiloReady, HiloExit,
     HiloExec, LlegaMotivo, AbortaSinMemoria, SacarNewFalla, AbortaSinCpu,
     DespacharNull, LeerStringFalla, FallaSinCpu, FinMain, Morir, MemoriaCae,
     CpuCae, Corriendo, entorno
<1> QED
  BY <1>1, <1>2

\* What one process in flight excludes.
LEMMA Una ==
  ASSUME TypeOK, UnaSolaFicha
  PROVE
    /\ \A h \in Creadores : pc[h] \in EtiquetasCrear =>
         /\ Fichas = 1 /\ sem_new = 0 /\ sem_ready = 0
         /\ pc["ready"] # "sacar_new"
         /\ pc["exec"] \notin {"sem_exec", "elegir"} \cup EtiquetasAtender
         /\ \A k \in Creadores \ {h} : pc[k] \notin EtiquetasCrear
    /\ sem_ready > 0 \/ pc["exec"] \in {"sem_exec", "elegir"} =>
         /\ Fichas = 1 /\ sem_new = 0 /\ pc["ready"] # "sacar_new"
         /\ sem_ready = 0 \/ pc["exec"] \notin {"sem_exec", "elegir"}
         /\ pc["exec"] \notin EtiquetasAtender
         /\ \A k \in Creadores : pc[k] \notin EtiquetasCrear
    /\ sem_new > 0 \/ pc["ready"] = "sacar_new" =>
         /\ Fichas = 1 /\ sem_ready = 0
         /\ pc["exec"] \notin {"sem_exec", "elegir"} \cup EtiquetasAtender
         /\ \A k \in Creadores : pc[k] \notin EtiquetasCrear
    /\ pc["exec"] \in EtiquetasAtender =>
         /\ Fichas = 0 /\ sem_new = 0 /\ sem_ready = 0
         /\ pc["ready"] # "sacar_new"
         /\ \A k \in Creadores : pc[k] \notin EtiquetasCrear
  BY DEF TypeOK, TipoControl, UnaSolaFicha, Fichas, Hay, EtiquetasCrear,
     EtiquetasAtender

\* The branch of SemWaitReady inside PROCESS_EXIT is never taken.
LEMMA SoloElBucle ==
  ASSUME IInv, SemWaitReady
  PROVE  /\ pc["exec"] = "sem_ready" /\ pc' = [pc EXCEPT !["exec"] = "sem_exec"]
         /\ sem_ready > 0 /\ sem_ready' = sem_ready - 1
         /\ UNCHANGED <<estado, entorno, locales, heap, colas, sem_new, sem_exec,
                        sem_exit, mensajes>>
<1>1. pc["exec"] = "sem_ready"
  BY Una DEF IInv, SemWaitReady, EtiquetasAtender
<1> QED
  BY <1>1 DEF SemWaitReady, locales, colas

\* Nobody waits for the thread exit_tcb takes, which is the only one queued.
LEMMA SacarExitSimple ==
  ASSUME IInv, SacarExit
  PROVE  /\ Paso("exit", "sacar_exit", "thread_cancel")
         /\ Fichas # 1 /\ ~PuedeCrear /\ pc["exec"] # "post_exit" /\ sem_exit = 0
         /\ exit_queue' = <<>> /\ tcb_salida' \in TCBs
         /\ UNCHANGED <<blocked_queue, ready_list, fallas, nuevo, tcb_exec,
                        por_salir, heap, process_list, new_queue, semaforos,
                        mensajes>>
<1>1. Paso("exit", "sacar_exit", "thread_cancel")
  BY DEF SacarExit
<1>2. PICK t \in TCBs : exit_queue = <<t>> /\ tcb[t].TID_wait = -1
  BY <1>1 DEF IInv, ColaExit, Hay, TypeOK, TipoControl, Paso
<1>3. Fichas # 1 /\ ~PuedeCrear /\ pc["exec"] # "post_exit" /\ sem_exit = 0
  BY <1>1 DEF IInv, ColaExit, Hay, TypeOK, TipoControl, Paso
<1>4. Head(exit_queue) = t /\ Tail(exit_queue) = <<>>
  BY <1>2
<1> QED
  BY <1>1, <1>2, <1>3, <1>4 DEF SacarExit

\* THREAD_CANCEL finds ready_list empty.
LEMMA CancelSimple ==
  ASSUME IInv, AtenderThreadCancel
  PROVE  \E t \in TCBs :
           /\ Paso("exec", "buffer_recv", "sem_ready")
           /\ ready_list = <<>> /\ ready_list' = <<>>
           /\ exit_queue' = Append(exit_queue, t)
           /\ UNCHANGED <<fallas, locales, heap, process_list, new_queue,
                          blocked_queue, semaforos, mensajes>>
<1>1. PICK t \in DOMAIN tcb :
        /\ Paso("exec", "buffer_recv", "sem_ready")
        /\ ready_list' = Sin(ready_list, t) /\ exit_queue' = Append(exit_queue, t)
        /\ UNCHANGED <<fallas, locales, heap, process_list, new_queue,
                       blocked_queue, semaforos, mensajes>>
  BY DEF AtenderThreadCancel, Motivo
<1>2. ready_list = <<>>
  BY <1>1 DEF IInv, Despachado, PuedeCrear, Paso
<1>3. Sin(ready_list, t) = <<>>
  BY <1>2 DEF Sin
<1>4. DOMAIN tcb = TCBs
  BY DEF IInv, TypeOK, TipoHeap, TCBs
<1> QED
  BY <1>1, <1>2, <1>3, <1>4

\* THREAD_JOIN finds ready_list empty, and marks one TCB.
LEMMA JoinSimple ==
  ASSUME IInv, AtenderThreadJoin
  PROVE  \E t \in TCBs :
           /\ Paso("exec", "buffer_recv", "sem_ready")
           /\ tcb' = [tcb EXCEPT ![t].TID_wait = tcb[tcb_exec].TID]
           /\ ready_list = <<>> /\ ready_list' = <<>>
           /\ blocked_queue' = Append(blocked_queue, NULL)
           /\ UNCHANGED <<fallas, locales, TIDs, process_list, new_queue,
                          exit_queue, semaforos, mensajes>>
<1>1. PICK t \in DOMAIN tcb :
        /\ Paso("exec", "buffer_recv", "sem_ready")
        /\ tcb' = [tcb EXCEPT ![t].TID_wait = tcb[tcb_exec].TID]
        /\ blocked_queue' = Append(blocked_queue,
                     IF ready_list = <<>> THEN NULL ELSE Head(ready_list))
        /\ ready_list' = IF ready_list = <<>> THEN <<>> ELSE Tail(ready_list)
        /\ UNCHANGED <<fallas, locales, TIDs, process_list, new_queue,
                       exit_queue, semaforos, mensajes>>
  BY DEF AtenderThreadJoin, Motivo
<1>2. ready_list = <<>>
  BY <1>1 DEF IInv, Despachado, PuedeCrear, Paso
<1>4. DOMAIN tcb = TCBs
  BY DEF IInv, TypeOK, TipoHeap, TCBs
<1> QED
  BY <1>1, <1>2, <1>4

\* What a step does to the main TCBs: the heap only grows, and a field of an
\* old TCB changes only when it is freed or waited for.
LEMMA CambiarCampo ==
  ASSUME NEW S, NEW s \in Seq(S), NEW i \in 1..Len(s), NEW e \in S
  PROVE  /\ [s EXCEPT ![i] = e] \in Seq(S)
         /\ Len([s EXCEPT ![i] = e]) = Len(s)
         /\ \A j \in 1..Len(s) : [s EXCEPT ![i] = e][j] = IF j = i THEN e ELSE s[j]
<1> DEFINE r == [s EXCEPT ![i] = e]
<1>1. r \in [1..Len(s) -> S]
  OBVIOUS
<1>2. DOMAIN r = 1..Len(s) /\ Len(s) \in Nat
  OBVIOUS
<1>3. r \in Seq(S)
  BY <1>1, <1>2 
<1>4. Len(r) = Len(s)
  BY <1>2, <1>3
<1> QED
  BY <1>3, <1>4

\* Appending to an empty list gives a list of one element.
LEMMA AgregarAVacia ==
  ASSUME NEW e
  PROVE  Append(<<>>, e) = <<e>>
  OBVIOUS

\* list_add puts the new element last and keeps the others.
LEMMA AgregarAlFinal ==
  ASSUME NEW S, NEW s \in Seq(S), NEW e \in S, s # <<>>
  PROVE  /\ Append(s, e) \in Seq(S) /\ Append(s, e) # <<>>
         /\ Append(s, e)[1] = s[1]
  OBVIOUS

\* A list of old TCBs is a list of TCBs once the heap has grown.
LEMMA SeqMayor ==
  ASSUME NEW m \in Nat, NEW n \in Nat, m <= n
  PROVE  /\ Seq(1..m) \subseteq Seq(1..n)
         /\ Seq({0} \cup 1..m) \subseteq Seq({0} \cup 1..n)
         /\ Seq(Seq(1..m)) \subseteq Seq(Seq(1..n))
<1>1. ASSUME NEW S, NEW T, S \subseteq T
      PROVE  Seq(S) \subseteq Seq(T)
  BY <1>1
<1>2. 1..m \subseteq 1..n
  OBVIOUS
<1> QED
  BY <1>1, <1>2

\* The process in flight stays the only one, and only PROCESS_CREATE makes a new
\* one when there is none.
LEMMA FichasPaso ==
  ASSUME IInv, Ajeno \/ PasoDeHilo
  PROVE  UnaSolaFicha' /\ (Fichas' = 1 => Fichas = 1 \/ AtenderProcessCreate)
<1> USE DEF IInv, Paso, Motivo, semaforos, colas, heap, locales, mensajes,
            UnaSolaFicha, Fichas, Hay, Arranque, EtiquetasCrear,
            EtiquetasAtender, TypeOK, TipoControl
<1>1. CASE Ajeno
  BY <1>1 DEF Ajeno
<1>2. ASSUME NEW h \in Creadores, ProcessCreate(h)
      PROVE  UnaSolaFicha' /\ (Fichas' = 1 => Fichas = 1 \/ AtenderProcessCreate)
  <2>1. CASE Alocar(h) \/ RecvSuccess(h)
    BY <2>1, SMTT(20) DEF Alocar, RecvSuccess
  <2>2. CASE RecvFailure(h) \/ RecvSinRespuesta(h)
    BY <2>2 DEF RecvFailure, RecvSinRespuesta
  <2>3. CASE AddReady(h) \/ AddProc(h)
    BY <2>3 DEF AddReady, AddProc
  <2>4. CASE PostReady(h)
    <3>1. CASE h = "main"
      <4>1. /\ pc["main"] = "post_ready" /\ pc' = [pc EXCEPT !["main"] = "planificar"]
            /\ sem_ready' = sem_ready + 1 /\ sem_new' = sem_new
        BY <2>4, <3>1 DEF PostReady, Retorno
      <4> QED
        BY <4>1
    <3>2. CASE h = "ready"
      <4>1. /\ pc["ready"] = "post_ready" /\ pc' = [pc EXCEPT !["ready"] = "sem_new"]
            /\ sem_ready' = sem_ready + 1 /\ sem_new' = sem_new
        BY <2>4, <3>2 DEF PostReady, Retorno
      <4> QED
        BY <4>1
    <3>3. CASE h = "exec"
      <4>1. /\ pc["exec"] = "post_ready" /\ pc' = [pc EXCEPT !["exec"] = "sem_ready"]
            /\ sem_ready' = sem_ready + 1 /\ sem_new' = sem_new
        BY <2>4, <3>3 DEF PostReady, Retorno
      <4> QED
        BY <4>1
    <3> QED
      BY <3>1, <3>2, <3>3
  <2>5. CASE AddNew(h)
    BY <2>5 DEF AddNew
  <2>6. CASE PostNew(h)
    <3>1. CASE h = "main"
      BY <2>6, <3>1 DEF PostNew, Retorno
    <3>2. CASE h = "ready"
      BY <2>6, <3>2 DEF PostNew, Retorno
    <3>3. CASE h = "exec"
      BY <2>6, <3>3 DEF PostNew, Retorno
    <3> QED
      BY <3>1, <3>2, <3>3
  <2> QED
    BY <1>2, <2>1, <2>2, <2>3, <2>4, <2>5, <2>6 DEF ProcessCreate
<1>3. CASE Planificar
  BY <1>3 DEF Planificar
<1>4. CASE SemWaitNew
  BY <1>4 DEF SemWaitNew
<1>5. CASE SacarNew
  BY <1>5 DEF SacarNew
<1>6. CASE SemWaitExit
  BY <1>6 DEF SemWaitExit
<1>7. CASE SacarExit
  BY <1>7, SacarExitSimple
<1>8. CASE ConectarKill \/ EnviarKill
  BY <1>8 DEF ConectarKill, EnviarKill
<1>9. CASE LiberarTcb \/ ConectarCpu
  BY <1>9 DEF LiberarTcb, ConectarCpu
<1>10. CASE SemWaitReady
  <2>1. /\ pc["exec"] = "sem_ready" /\ pc' = [pc EXCEPT !["exec"] = "sem_exec"]
        /\ sem_ready > 0 /\ sem_ready' = sem_ready - 1 /\ sem_new' = sem_new
    BY <1>10, SoloElBucle
  <2> QED
    BY <2>1
<1>11. CASE SemWaitExec
  BY <1>11 DEF SemWaitExec
<1>12. CASE Despachar
  BY <1>12 DEF Despachar
<1>13. CASE ConectarHilo \/ EnviarHilo
  BY <1>13 DEF ConectarHilo, EnviarHilo
<1>14. CASE HandshakeFalla \/ AddHilo
  BY <1>14 DEF HandshakeFalla, AddHilo
<1>15. CASE PostExit \/ LogExit
  BY <1>15 DEF PostExit, LogExit
<1>16. CASE RecvSinCpu
  BY <1>16 DEF RecvSinCpu
<1>17. CASE AtenderProcessCreate
  BY <1>17 DEF AtenderProcessCreate
<1>18. CASE AtenderProcessExit \/ AtenderThreadCreate
  BY <1>18 DEF AtenderProcessExit, AtenderThreadCreate
<1>19. CASE AtenderThreadJoin
  BY <1>19, JoinSimple
<1>20. CASE AtenderThreadCancel
  BY <1>20, CancelSimple
<1>21. CASE AtenderTidInexistente \/ AtenderThreadExit
  BY <1>21 DEF AtenderTidInexistente, AtenderThreadExit
<1>22. CASE AtenderSinEfecto
  BY <1>22 DEF AtenderSinEfecto
<1> QED
  BY <1>1, <1>2, <1>3, <1>4, <1>5, <1>6, <1>7, <1>8, <1>9, <1>10, <1>11, <1>12,
     <1>13, <1>14, <1>15, <1>16, <1>17, <1>18, <1>19, <1>20, <1>21, <1>22 DEF PasoDeHilo

\* main starts the other threads, and only then do they move.
LEMMA ArranquePaso ==
  ASSUME IInv, Ajeno \/ PasoDeHilo
  PROVE  Arranque'
<1> USE DEF IInv, Paso, Motivo, semaforos, colas, heap, locales, mensajes,
            Arranque, EtiquetasCrear, EtiquetasAtender, TypeOK, TipoControl
<1>1. CASE Ajeno
  BY <1>1 DEF Ajeno
<1>2. ASSUME NEW h \in Creadores, ProcessCreate(h)
      PROVE  Arranque'
  <2>1. CASE Alocar(h) \/ RecvSuccess(h)
    BY <2>1 DEF Alocar, RecvSuccess
  <2>2. CASE RecvFailure(h) \/ RecvSinRespuesta(h)
    BY <2>2 DEF RecvFailure, RecvSinRespuesta
  <2>3. CASE AddReady(h) \/ AddProc(h)
    BY <2>3 DEF AddReady, AddProc
  <2>4. CASE PostReady(h)
    <3>1. CASE h = "main"
      BY <2>4, <3>1 DEF PostReady, Retorno
    <3>2. CASE h = "ready"
      BY <2>4, <3>2 DEF PostReady, Retorno
    <3>3. CASE h = "exec"
      BY <2>4, <3>3 DEF PostReady, Retorno
    <3> QED
      BY <3>1, <3>2, <3>3
  <2>5. CASE AddNew(h)
    BY <2>5 DEF AddNew
  <2>6. CASE PostNew(h)
    <3>1. CASE h = "main"
      BY <2>6, <3>1 DEF PostNew, Retorno
    <3>2. CASE h = "ready"
      BY <2>6, <3>2 DEF PostNew, Retorno
    <3>3. CASE h = "exec"
      BY <2>6, <3>3 DEF PostNew, Retorno
    <3> QED
      BY <3>1, <3>2, <3>3
  <2> QED
    BY <1>2, <2>1, <2>2, <2>3, <2>4, <2>5, <2>6 DEF ProcessCreate
<1>3. CASE Planificar \/ SemWaitNew
  BY <1>3 DEF Planificar, SemWaitNew
<1>4. CASE SacarNew \/ SemWaitExit
  BY <1>4 DEF SacarNew, SemWaitExit
<1>5. CASE SacarExit
  BY <1>5, SacarExitSimple
<1>6. CASE ConectarKill \/ EnviarKill
  BY <1>6 DEF ConectarKill, EnviarKill
<1>7. CASE LiberarTcb \/ ConectarCpu
  BY <1>7 DEF LiberarTcb, ConectarCpu
<1>8. CASE SemWaitReady
  BY <1>8, SoloElBucle
<1>9. CASE SemWaitExec \/ Despachar
  BY <1>9 DEF SemWaitExec, Despachar
<1>10. CASE ConectarHilo \/ EnviarHilo
  BY <1>10 DEF ConectarHilo, EnviarHilo
<1>11. CASE HandshakeFalla \/ AddHilo
  BY <1>11 DEF HandshakeFalla, AddHilo
<1>12. CASE PostExit \/ LogExit
  BY <1>12 DEF PostExit, LogExit
<1>13. CASE RecvSinCpu \/ AtenderProcessCreate
  BY <1>13 DEF RecvSinCpu, AtenderProcessCreate
<1>14. CASE AtenderProcessExit \/ AtenderThreadCreate
  BY <1>14 DEF AtenderProcessExit, AtenderThreadCreate
<1>15. CASE AtenderThreadJoin
  BY <1>15, JoinSimple
<1>16. CASE AtenderThreadCancel
  BY <1>16, CancelSimple
<1>17. CASE AtenderTidInexistente \/ AtenderThreadExit
  BY <1>17 DEF AtenderTidInexistente, AtenderThreadExit
<1>18. CASE AtenderSinEfecto
  BY <1>18 DEF AtenderSinEfecto
<1> QED
  BY <1>1, <1>2, <1>3, <1>4, <1>5, <1>6, <1>7, <1>8, <1>9, <1>10, <1>11, <1>12,
     <1>13, <1>14, <1>15, <1>16, <1>17, <1>18 DEF PasoDeHilo

\* Each dispatch uses up one unit of sem_exec.
LEMMA PresupuestoPaso ==
  ASSUME IInv, Ajeno \/ PasoDeHilo
  PROVE  DespachoPresupuestado'
<1> USE DEF IInv, Paso, Motivo, semaforos, colas, heap, locales, mensajes,
            DespachoPresupuestado, Arranque, Hay, TipoReferencias, TypeOK,
            TipoControl
<1>1. CASE Ajeno
  BY <1>1 DEF Ajeno
<1>2. ASSUME NEW h \in Creadores, ProcessCreate(h)
      PROVE  DespachoPresupuestado'
  <2>1. CASE Alocar(h) \/ RecvSuccess(h)
    BY <2>1 DEF Alocar, RecvSuccess
  <2>2. CASE RecvFailure(h) \/ RecvSinRespuesta(h)
    BY <2>2 DEF RecvFailure, RecvSinRespuesta
  <2>3. CASE AddReady(h) \/ AddProc(h)
    BY <2>3 DEF AddReady, AddProc
  <2>4. CASE PostReady(h)
    <3>1. CASE h = "main"
      BY <2>4, <3>1 DEF PostReady, Retorno
    <3>2. CASE h = "ready"
      BY <2>4, <3>2 DEF PostReady, Retorno
    <3>3. CASE h = "exec"
      BY <2>4, <3>3 DEF PostReady, Retorno
    <3> QED
      BY <3>1, <3>2, <3>3
  <2>5. CASE AddNew(h)
    BY <2>5 DEF AddNew
  <2>6. CASE PostNew(h)
    <3>1. CASE h = "main"
      BY <2>6, <3>1 DEF PostNew, Retorno
    <3>2. CASE h = "ready"
      BY <2>6, <3>2 DEF PostNew, Retorno
    <3>3. CASE h = "exec"
      BY <2>6, <3>3 DEF PostNew, Retorno
    <3> QED
      BY <3>1, <3>2, <3>3
  <2> QED
    BY <1>2, <2>1, <2>2, <2>3, <2>4, <2>5, <2>6 DEF ProcessCreate
<1>3. CASE Planificar
  BY <1>3 DEF Planificar
<1>4. CASE SemWaitNew
  BY <1>4 DEF SemWaitNew
<1>5. CASE SacarNew
  BY <1>5 DEF SacarNew
<1>6. CASE SemWaitExit
  BY <1>6 DEF SemWaitExit
<1>7. CASE SacarExit
  BY <1>7, SacarExitSimple
<1>8. CASE ConectarKill \/ EnviarKill
  BY <1>8 DEF ConectarKill, EnviarKill
<1>9. CASE LiberarTcb \/ ConectarCpu
  BY <1>9 DEF LiberarTcb, ConectarCpu
<1>10. CASE SemWaitReady
  BY <1>10, SoloElBucle
<1>11. CASE SemWaitExec
  BY <1>11 DEF SemWaitExec
<1>12. CASE Despachar
  BY <1>12 DEF Despachar
<1>13. CASE ConectarHilo \/ EnviarHilo
  BY <1>13 DEF ConectarHilo, EnviarHilo
<1>14. CASE HandshakeFalla \/ AddHilo
  BY <1>14 DEF HandshakeFalla, AddHilo
<1>15. CASE PostExit \/ LogExit
  BY <1>15 DEF PostExit, LogExit
<1>16. CASE RecvSinCpu
  BY <1>16 DEF RecvSinCpu
<1>17. CASE AtenderProcessCreate
  BY <1>17 DEF AtenderProcessCreate
<1>18. CASE AtenderProcessExit \/ AtenderThreadCreate
  BY <1>18 DEF AtenderProcessExit, AtenderThreadCreate
<1>19. CASE AtenderThreadJoin
  BY <1>19, JoinSimple
<1>20. CASE AtenderThreadCancel
  BY <1>20, CancelSimple
<1>21. CASE AtenderTidInexistente \/ AtenderThreadExit
  BY <1>21 DEF AtenderTidInexistente, AtenderThreadExit
<1>22. CASE AtenderSinEfecto
  BY <1>22 DEF AtenderSinEfecto
<1> QED
  BY <1>1, <1>2, <1>3, <1>4, <1>5, <1>6, <1>7, <1>8, <1>9, <1>10, <1>11, <1>12,
     <1>13, <1>14, <1>15, <1>16, <1>17, <1>18, <1>19, <1>20, <1>21, <1>22 DEF PasoDeHilo

\* sem_new counts new_queue exactly.
LEMMA ColaNewPaso ==
  ASSUME IInv, Ajeno \/ PasoDeHilo
  PROVE  ColaNew'
<1> USE DEF IInv, Paso, Motivo, semaforos, colas, heap, locales, mensajes,
            ColaNew, Arranque, Construido, Hay, EtiquetasCrear,
            TipoReferencias, TypeOK, TipoControl
<1>1. CASE Ajeno
  BY <1>1 DEF Ajeno
<1>2. ASSUME NEW h \in Creadores, ProcessCreate(h)
      PROVE  ColaNew'
  <2>1. CASE Alocar(h) \/ RecvSuccess(h)
    BY <2>1 DEF Alocar, RecvSuccess
  <2>2. CASE RecvFailure(h) \/ RecvSinRespuesta(h)
    BY <2>2 DEF RecvFailure, RecvSinRespuesta
  <2>3. CASE AddReady(h) \/ AddProc(h)
    BY <2>3 DEF AddReady, AddProc
  <2>4. CASE PostReady(h)
    <3>1. CASE h = "main"
      BY <2>4, <3>1 DEF PostReady, Retorno
    <3>2. CASE h = "ready"
      BY <2>4, <3>2 DEF PostReady, Retorno
    <3>3. CASE h = "exec"
      BY <2>4, <3>3 DEF PostReady, Retorno
    <3> QED
      BY <3>1, <3>2, <3>3
  <2>5. CASE AddNew(h)
    BY <2>5 DEF AddNew
  <2>6. CASE PostNew(h)
    <3>1. CASE h = "main"
      BY <2>6, <3>1 DEF PostNew, Retorno
    <3>2. CASE h = "ready"
      BY <2>6, <3>2 DEF PostNew, Retorno
    <3>3. CASE h = "exec"
      BY <2>6, <3>3 DEF PostNew, Retorno
    <3> QED
      BY <3>1, <3>2, <3>3
  <2> QED
    BY <1>2, <2>1, <2>2, <2>3, <2>4, <2>5, <2>6 DEF ProcessCreate
<1>3. CASE Planificar
  BY <1>3 DEF Planificar
<1>4. CASE SemWaitNew
  BY <1>4 DEF SemWaitNew
<1>5. CASE SacarNew
  BY <1>5 DEF SacarNew
<1>6. CASE SemWaitExit
  BY <1>6 DEF SemWaitExit
<1>7. CASE SacarExit
  BY <1>7, SacarExitSimple
<1>8. CASE ConectarKill \/ EnviarKill
  BY <1>8 DEF ConectarKill, EnviarKill
<1>9. CASE LiberarTcb \/ ConectarCpu
  BY <1>9 DEF LiberarTcb, ConectarCpu
<1>10. CASE SemWaitReady
  BY <1>10, SoloElBucle
<1>11. CASE SemWaitExec
  BY <1>11 DEF SemWaitExec
<1>12. CASE Despachar
  BY <1>12 DEF Despachar
<1>13. CASE ConectarHilo \/ EnviarHilo
  BY <1>13 DEF ConectarHilo, EnviarHilo
<1>14. CASE HandshakeFalla \/ AddHilo
  BY <1>14 DEF HandshakeFalla, AddHilo
<1>15. CASE PostExit \/ LogExit
  BY <1>15 DEF PostExit, LogExit
<1>16. CASE RecvSinCpu
  BY <1>16 DEF RecvSinCpu
<1>17. CASE AtenderProcessCreate
  BY <1>17 DEF AtenderProcessCreate
<1>18. CASE AtenderProcessExit \/ AtenderThreadCreate
  BY <1>18 DEF AtenderProcessExit, AtenderThreadCreate
<1>19. CASE AtenderThreadJoin
  BY <1>19, JoinSimple
<1>20. CASE AtenderThreadCancel
  BY <1>20, CancelSimple
<1>21. CASE AtenderTidInexistente \/ AtenderThreadExit
  BY <1>21 DEF AtenderTidInexistente, AtenderThreadExit
<1>22. CASE AtenderSinEfecto
  BY <1>22 DEF AtenderSinEfecto
<1> QED
  BY <1>1, <1>2, <1>3, <1>4, <1>5, <1>6, <1>7, <1>8, <1>9, <1>10, <1>11, <1>12,
     <1>13, <1>14, <1>15, <1>16, <1>17, <1>18, <1>19, <1>20, <1>21, <1>22 DEF PasoDeHilo

\* Only four actions touch the heap.
LEMMA MarcoHeap ==
  ASSUME IInv, Ajeno \/ PasoDeHilo
  PROVE  \/ UNCHANGED heap
         \/ \E h \in Creadores : Alocar(h)
         \/ LiberarTcb \/ EnviarHilo \/ AtenderThreadJoin
<1>1. CASE Ajeno
  BY <1>1 DEF Ajeno
<1>2. CASE \E h \in Creadores : ProcessCreate(h)
  BY <1>2 DEF ProcessCreate, RecvSuccess, RecvFailure, RecvSinRespuesta,
     AddReady, AddProc, PostReady, AddNew, PostNew
<1>3. CASE SemWaitReady
  BY <1>3, SoloElBucle
<1>4. CASE SacarExit
  BY <1>4, SacarExitSimple
<1>5. CASE PasoDeHilo
  BY <1>2, <1>3, <1>4, <1>5 DEF PasoDeHilo, Planificar, SemWaitNew, SacarNew,
     SemWaitExit, ConectarKill, EnviarKill, ConectarCpu, SemWaitExec, Despachar,
     ConectarHilo, HandshakeFalla, AddHilo, PostExit, LogExit, RecvSinCpu,
     AtenderProcessCreate, AtenderProcessExit, AtenderThreadCreate,
     AtenderThreadCancel, AtenderTidInexistente, AtenderThreadExit,
     AtenderSinEfecto
<1> QED
  BY <1>1, <1>5

\* The TCB the CPU runs, and the PCB it belongs to.
LEMMA SirveAUnPrincipal ==
  ASSUME IInv, pc["exec"] \in EtiquetasAtender
  PROVE  /\ tcb_exec \in TCBs /\ Pid \in PIDs /\ Pid \in process_list
         /\ tcb_exec = Principal(Pid) /\ tcb[tcb_exec].TID = 0
<1>1. PICK pid \in process_list : tcb_exec = Principal(pid)
  BY DEF IInv, Despachado
<1>2. pid \in PIDs
  BY DEF IInv, TypeOK, TipoReferencias
<1>3. TIDs[pid] \in Seq(TCBs) /\ TIDs[pid] # <<>> /\ tcb[tcb_exec].PID = pid
      /\ tcb[tcb_exec].TID = 0
  BY <1>1, <1>2 DEF IInv, TypeOK, TipoHeap, Construido, PIDs
<1>4. tcb_exec \in TCBs
  BY <1>1, <1>3 DEF Principal
<1> QED
  BY <1>1, <1>2, <1>3, <1>4 DEF Pid

\* The heap keeps its type and only grows: a TCB keeps its PID and TID and a
\* process its main TCB, and TID_wait is written by THREAD_JOIN alone.
HeapCrece ==
  /\ Len(tcb) \in Nat /\ Len(tcb') \in Nat /\ Len(tcb) <= Len(tcb')
  /\ Len(TIDs) \in Nat /\ Len(TIDs') \in Nat /\ Len(TIDs) <= Len(TIDs')
  /\ \A t \in TCBs :
        /\ tcb'[t].PID = tcb[t].PID /\ tcb'[t].TID = tcb[t].TID
        /\ tcb'[t].TID_wait = tcb[t].TID_wait \/ AtenderThreadJoin
  /\ \A pid \in PIDs : TIDs'[pid] # <<>> /\ TIDs'[pid][1] = TIDs[pid][1]

\* The heap keeps its type and never loses a PCB or a TCB.
LEMMA TipoHeapPaso ==
  ASSUME IInv, Ajeno \/ PasoDeHilo
  PROVE  TipoHeap' /\ HeapCrece
<1> USE DEF TCBs, PIDs
<1>0. TipoHeap /\ \A pid \in PIDs : TIDs[pid] \in Seq(TCBs) /\ TIDs[pid] # <<>>
  BY DEF IInv, TypeOK, TipoHeap, Construido
<1>1. CASE UNCHANGED heap
  BY <1>0, <1>1 DEF heap, TipoHeap, HeapCrece
<1>2. ASSUME NEW h \in Creadores, Alocar(h)
      PROVE  TipoHeap' /\ HeapCrece
  <2> DEFINE nuevo_tcb == [PID |-> Len(TIDs) + 1, TID |-> 0, TID_wait |-> -1,
                           libre |-> FALSE]
  <2>1. tcb' = Append(tcb, nuevo_tcb) /\ TIDs' = Append(TIDs, <<Len(tcb) + 1>>)
    BY <1>2 DEF Alocar
  <2>2. nuevo_tcb \in TipoTcb
    BY <1>0 DEF TipoTcb, TipoHeap
  <2>3. tcb' \in Seq(TipoTcb) /\ Len(tcb') = Len(tcb) + 1
        /\ \A t \in TCBs : tcb'[t] = tcb[t]
    BY <1>0, <2>1, <2>2 DEF TipoHeap
  <2>4. <<Len(tcb) + 1>> \in Seq(1..Len(tcb'))
    BY <1>0, <2>3 DEF TipoHeap
  <2>5. TIDs \in Seq(Seq(1..Len(tcb')))
    BY <1>0, <2>3, SeqMayor DEF TipoHeap
  <2>6. TIDs' \in Seq(Seq(1..Len(tcb'))) /\ Len(TIDs') = Len(TIDs) + 1
        /\ \A pid \in PIDs : TIDs'[pid] = TIDs[pid]
    BY <2>1, <2>4, <2>5
  <2> QED
    BY <1>0, <2>3, <2>6, SMTT(20) DEF TipoHeap, HeapCrece
<1>3. ASSUME NEW t \in TCBs, NEW r \in TipoTcb, tcb' = [tcb EXCEPT ![t] = r],
             r.PID = tcb[t].PID, r.TID = tcb[t].TID, TIDs' = TIDs,
             r.TID_wait = tcb[t].TID_wait \/ AtenderThreadJoin
      PROVE  TipoHeap' /\ HeapCrece
  <2>1. tcb' \in Seq(TipoTcb) /\ Len(tcb') = Len(tcb)
        /\ \A u \in TCBs : tcb'[u] = IF u = t THEN r ELSE tcb[u]
    BY <1>0, <1>3, CambiarCampo DEF TipoHeap
  <2> QED
    BY <1>0, <1>3, <2>1 DEF TipoHeap, HeapCrece
<1>4. CASE LiberarTcb
  <2>1. tcb_salida \in TCBs /\ tcb[tcb_salida] \in TipoTcb
    BY <1>0, <1>4 DEF LiberarTcb, Paso, IInv, ColaExit, TipoHeap
  <2>2. [tcb[tcb_salida] EXCEPT !.libre = TRUE] \in TipoTcb
    BY <2>1 DEF TipoTcb
  <2>3. tcb' = [tcb EXCEPT ![tcb_salida] = [tcb[tcb_salida] EXCEPT !.libre = TRUE]]
        /\ TIDs' = TIDs
    BY <1>4, <2>1 DEF LiberarTcb
  <2> QED
    BY <1>3, <2>1, <2>2, <2>3 DEF TipoTcb
<1>5. CASE AtenderThreadJoin
  <2>1. PICK t \in TCBs : /\ tcb' = [tcb EXCEPT ![t].TID_wait = tcb[tcb_exec].TID]
                          /\ TIDs' = TIDs
    BY <1>5, JoinSimple
  <2>2. pc["exec"] = "buffer_recv"
    BY <1>5 DEF AtenderThreadJoin, Motivo, Paso
  <2>3. tcb[tcb_exec].TID = 0 /\ tcb[t] \in TipoTcb
    BY <1>0, <2>2, SirveAUnPrincipal DEF TipoHeap, EtiquetasAtender
  <2>4. [tcb[t] EXCEPT !.TID_wait = 0] \in TipoTcb
    BY <2>3 DEF TipoTcb
  <2>5. tcb' = [tcb EXCEPT ![t] = [tcb[t] EXCEPT !.TID_wait = 0]]
    BY <2>1, <2>3
  <2> QED
    BY <1>3, <1>5, <2>1, <2>3, <2>4, <2>5 DEF TipoTcb
<1>6. CASE EnviarHilo
  <2>1. PICK pid \in Basura, tid \in Basura, espera \in Basura \cup {-1} :
          tcb' = Append(tcb, [PID |-> pid, TID |-> tid, TID_wait |-> espera,
                              libre |-> FALSE])
    BY <1>6 DEF EnviarHilo
  <2>2. [PID |-> pid, TID |-> tid, TID_wait |-> espera, libre |-> FALSE] \in TipoTcb
    BY KernelAssumption DEF TipoTcb
  <2>3. tcb' \in Seq(TipoTcb) /\ Len(tcb') = Len(tcb) + 1
        /\ \A t \in TCBs : tcb'[t] = tcb[t]
    BY <1>0, <2>1, <2>2 DEF TipoHeap
  <2>4. Pid \in PIDs
    BY <1>6, SirveAUnPrincipal DEF EnviarHilo, Paso, EtiquetasAtender
  <2> DEFINE lista == Append(TIDs[Pid], Len(tcb) + 1)
  <2>5. TIDs' = [TIDs EXCEPT ![Pid] = lista]
    BY <1>6 DEF EnviarHilo
  <2>6. TIDs \in Seq(Seq(1..Len(tcb')))
    BY <1>0, <2>3, SeqMayor DEF TipoHeap
  <2>7. TIDs[Pid] \in Seq(1..Len(tcb'))
    BY <2>4, <2>6
  <2>8. lista \in Seq(1..Len(tcb')) /\ lista # <<>> /\ lista[1] = TIDs[Pid][1]
    <3>1. Len(tcb) + 1 \in 1..Len(tcb')
      BY <1>0, <2>3 DEF TipoHeap
    <3>2. TIDs[Pid] # <<>>
      BY <1>0, <2>4
    <3> HIDE DEF TCBs, PIDs
    <3> QED
      BY <2>7, <3>1, <3>2, AgregarAlFinal
  <2>9. TIDs' \in Seq(Seq(1..Len(tcb'))) /\ Len(TIDs') = Len(TIDs)
        /\ \A q \in PIDs : TIDs'[q] = IF q = Pid THEN lista ELSE TIDs[q]
    BY <2>4, <2>5, <2>6, <2>8, CambiarCampo
  <2>10. \A q \in PIDs : TIDs'[q] # <<>> /\ TIDs'[q][1] = TIDs[q][1]
    BY <1>0, <2>8, <2>9
  <2>11. TipoHeap'
    BY <2>3, <2>9 DEF TipoHeap
  <2> QED
    BY <1>0, <2>3, <2>9, <2>10, <2>11 DEF TipoHeap, HeapCrece
<1> QED
  BY <1>1, <1>2, <1>4, <1>5, <1>6, MarcoHeap

\* A PCB keeps its main TCB, with TID 0, and a creator keeps its PCB.
LEMMA ConstruidoPaso ==
  ASSUME IInv, Ajeno \/ PasoDeHilo
  PROVE  Construido'
<1> USE DEF TCBs, PIDs, Principal
<1>1. TipoHeap /\ TipoHeap' /\ HeapCrece
  BY TipoHeapPaso DEF IInv, TypeOK
<1>2. ASSUME NEW pid \in PIDs
      PROVE  /\ TIDs'[pid] # <<>> /\ tcb'[TIDs'[pid][1]].PID = pid
             /\ tcb'[TIDs'[pid][1]].TID = 0
  <2>1. TIDs[pid] \in Seq(TCBs) /\ TIDs[pid] # <<>>
    BY <1>1 DEF IInv, Construido, TipoHeap
  <2>2. TIDs[pid][1] \in TCBs
    BY <2>1
  <2> QED
    BY <1>1, <2>1, <2>2 DEF IInv, Construido, HeapCrece
<1>3. ASSUME NEW pid \in PIDs', pid \notin PIDs
      PROVE  /\ TIDs'[pid] # <<>> /\ tcb'[TIDs'[pid][1]].PID = pid
             /\ tcb'[TIDs'[pid][1]].TID = 0
  <2>1. PICK h \in Creadores : Alocar(h)
    BY <1>1, <1>3, MarcoHeap, JoinSimple DEF heap, LiberarTcb, EnviarHilo, TipoHeap
  <2>2. /\ tcb' = Append(tcb, [PID |-> Len(TIDs) + 1, TID |-> 0, TID_wait |-> -1,
                               libre |-> FALSE])
        /\ TIDs' = Append(TIDs, <<Len(tcb) + 1>>)
    BY <2>1 DEF Alocar
  <2>3. pid = Len(TIDs) + 1 /\ TIDs'[pid] = <<Len(tcb) + 1>>
    BY <1>1, <1>3, <2>2 DEF TipoHeap
  <2> QED
    BY <1>1, <2>2, <2>3 DEF TipoHeap
<1>4. \A h \in Creadores :
        pc'[h] \in EtiquetasCrear \ {"process_create"} => nuevo'[h] \in PIDs'
  <2>1. \A h \in Creadores :
          pc[h] \in EtiquetasCrear \ {"process_create"} => nuevo[h] \in PIDs'
    BY <1>1 DEF IInv, Construido, HeapCrece
  <2>2. CASE \E h \in Creadores : Alocar(h)
    <3>1. PICK h \in Creadores : Alocar(h)
      BY <2>2
    <3>2. /\ pc' = [pc EXCEPT ![h] = "recv"]
          /\ nuevo' = [nuevo EXCEPT ![h] = Len(TIDs) + 1]
          /\ TIDs' = Append(TIDs, <<Len(tcb) + 1>>)
      BY <3>1 DEF Alocar, Paso
    <3>3. Len(TIDs) + 1 \in PIDs'
      BY <1>1, <3>2 DEF TipoHeap
    <3>4. \A k \in Creadores : nuevo'[k] = IF k = h THEN Len(TIDs) + 1 ELSE nuevo[k]
      BY <3>2 DEF IInv, TypeOK, TipoReferencias
    <3>5. \A k \in Creadores \ {h} : pc'[k] = pc[k]
      BY <3>2 DEF IInv, TypeOK, TipoControl
    <3> QED
      BY <2>1, <3>3, <3>4, <3>5
  <2>3. CASE Ajeno
    BY <2>1, <2>3 DEF Ajeno, locales
  <2>4. CASE \E h \in Creadores : ProcessCreate(h) /\ ~Alocar(h)
    BY <2>1, <2>4 DEF ProcessCreate, RecvSuccess, RecvFailure, RecvSinRespuesta,
       AddReady, AddProc, PostReady, AddNew, PostNew, Paso, EtiquetasCrear, Retorno,
       locales, IInv, TypeOK, TipoControl
  <2>5. CASE SemWaitReady
    BY <2>1, <2>5, SoloElBucle DEF IInv, TypeOK, TipoControl, EtiquetasCrear, locales
  <2>6. CASE SacarExit
    BY <2>1, <2>6, SacarExitSimple DEF IInv, TypeOK, TipoControl, EtiquetasCrear, Paso
  <2>7. CASE PasoDeHilo /\ ~(\E h \in Creadores : ProcessCreate(h))
             /\ ~SemWaitReady /\ ~SacarExit
    BY <2>1, <2>7 DEF PasoDeHilo, Planificar, SemWaitNew, SacarNew,
       SemWaitExit, ConectarKill, EnviarKill, LiberarTcb, ConectarCpu, SemWaitExec,
       Despachar, ConectarHilo, EnviarHilo, HandshakeFalla, AddHilo, PostExit,
       LogExit, RecvSinCpu, AtenderProcessCreate, AtenderProcessExit,
       AtenderThreadCreate, AtenderThreadJoin, AtenderThreadCancel,
       AtenderTidInexistente, AtenderThreadExit, AtenderSinEfecto, Motivo, Paso,
       EtiquetasCrear, locales, IInv, TypeOK, TipoControl
  <2> QED
    BY <2>2, <2>3, <2>4, <2>5, <2>6, <2>7 DEF PasoDeHilo
<1> QED
  BY <1>2, <1>3, <1>4 DEF Construido

\* The control state keeps its type.
LEMMA TipoControlPaso ==
  ASSUME IInv, Ajeno \/ PasoDeHilo
  PROVE  TipoControl'
<1> USE DEF IInv, Paso, Motivo, semaforos, TypeOK, TipoControl, Etiquetas,
            EtiquetasCrear, EtiquetasAtender, EtiquetasBucle, EtiquetasExit
<1>1. CASE Ajeno
  BY <1>1 DEF Ajeno
<1>2. ASSUME NEW h \in Creadores, ProcessCreate(h)
      PROVE  TipoControl'
  <2>1. CASE Alocar(h) \/ RecvSuccess(h)
    BY <2>1 DEF Alocar, RecvSuccess
  <2>2. CASE RecvFailure(h) \/ RecvSinRespuesta(h)
    BY <2>2 DEF RecvFailure, RecvSinRespuesta
  <2>3. CASE AddReady(h) \/ AddProc(h)
    BY <2>3 DEF AddReady, AddProc
  <2>4. CASE PostReady(h)
    <3>1. CASE h = "main"
      BY <2>4, <3>1 DEF PostReady, Retorno
    <3>2. CASE h = "ready"
      BY <2>4, <3>2 DEF PostReady, Retorno
    <3>3. CASE h = "exec"
      BY <2>4, <3>3 DEF PostReady, Retorno
    <3> QED
      BY <3>1, <3>2, <3>3
  <2>5. CASE AddNew(h)
    BY <2>5 DEF AddNew
  <2>6. CASE PostNew(h)
    <3>1. CASE h = "main"
      BY <2>6, <3>1 DEF PostNew, Retorno
    <3>2. CASE h = "ready"
      BY <2>6, <3>2 DEF PostNew, Retorno
    <3>3. CASE h = "exec"
      BY <2>6, <3>3 DEF PostNew, Retorno
    <3> QED
      BY <3>1, <3>2, <3>3
  <2> QED
    BY <1>2, <2>1, <2>2, <2>3, <2>4, <2>5, <2>6 DEF ProcessCreate
<1>3. CASE Planificar
  <2>1. pc' = [h \in Hilos |-> CASE h = "main" -> "readline" [] h = "ready" -> "sem_new"
                            [] h = "exit" -> "sem_exit"
                            [] h = "exec" -> "crear_conexion"]
    BY <1>3 DEF Planificar
  <2>2. {"readline", "sem_new", "sem_exit", "crear_conexion"} \subseteq Etiquetas
    OBVIOUS
  <2>3. pc' \in [Hilos -> Etiquetas]
    BY <2>1, <2>2
  <2> QED
    BY <1>3, <2>3 DEF Planificar, entorno
<1>4. CASE SemWaitNew \/ SacarNew
  BY <1>4 DEF SemWaitNew, SacarNew
<1>5. CASE SemWaitExit
  BY <1>5 DEF SemWaitExit
<1>6. CASE SacarExit
  BY <1>6, SacarExitSimple
<1>7. CASE ConectarKill \/ EnviarKill
  BY <1>7 DEF ConectarKill, EnviarKill
<1>8. CASE LiberarTcb \/ ConectarCpu
  BY <1>8 DEF LiberarTcb, ConectarCpu
<1>9. CASE SemWaitReady
  <2>1. /\ pc["exec"] = "sem_ready" /\ pc' = [pc EXCEPT !["exec"] = "sem_exec"]
        /\ sem_ready > 0 /\ sem_ready' = sem_ready - 1
        /\ UNCHANGED <<estado, memoria, cpu, fallas, sem_new, sem_exec, sem_exit>>
    BY <1>9, SoloElBucle DEF entorno
  <2> QED
    BY <2>1
<1>10. CASE SemWaitExec \/ Despachar
  BY <1>10 DEF SemWaitExec, Despachar
<1>11. CASE ConectarHilo \/ EnviarHilo
  BY <1>11 DEF ConectarHilo, EnviarHilo
<1>12. CASE HandshakeFalla \/ AddHilo
  BY <1>12 DEF HandshakeFalla, AddHilo
<1>13. CASE PostExit \/ LogExit
  BY <1>13 DEF PostExit, LogExit
<1>14. CASE RecvSinCpu \/ AtenderProcessCreate
  BY <1>14 DEF RecvSinCpu, AtenderProcessCreate
<1>15. CASE AtenderProcessExit \/ AtenderThreadCreate
  BY <1>15 DEF AtenderProcessExit, AtenderThreadCreate
<1>16. CASE AtenderThreadJoin
  BY <1>16, JoinSimple
<1>17. CASE AtenderThreadCancel
  BY <1>17, CancelSimple
<1>18. CASE AtenderTidInexistente \/ AtenderThreadExit
  BY <1>18 DEF AtenderTidInexistente, AtenderThreadExit
<1>19. CASE AtenderSinEfecto
  BY <1>19 DEF AtenderSinEfecto
<1> QED
  BY <1>1, <1>2, <1>3, <1>4, <1>5, <1>6, <1>7, <1>8, <1>9, <1>10, <1>11, <1>12,
     <1>13, <1>14, <1>15, <1>16, <1>17, <1>18, <1>19 DEF PasoDeHilo

\* Every list and every local pointer keeps pointing into the heap.
LEMMA TipoReferenciasPaso ==
  ASSUME IInv, Ajeno \/ PasoDeHilo
  PROVE  TipoReferencias'
<1> DEFINE P == PIDs'
           T == TCBs'
<1>0. HeapCrece /\ TypeOK
  BY TipoHeapPaso DEF IInv
<1>1. /\ nuevo \in [Creadores -> {NULL} \cup P]
      /\ tcb_exec \in {NULL} \cup T /\ tcb_salida \in {NULL} \cup T
      /\ process_list \subseteq P /\ confirmados \subseteq P /\ avisados \subseteq T
  <2>1. PIDs \subseteq P /\ TCBs \subseteq T
    BY <1>0 DEF HeapCrece, TCBs, PIDs
  <2> HIDE DEF P, T
  <2> QED
    BY <1>0, <2>1 DEF TypeOK, TipoReferencias
<1>2. /\ por_salir \in Seq(T) /\ ready_list \in Seq(T) /\ exit_queue \in Seq(T)
      /\ despachados \in Seq(T) /\ blocked_queue \in Seq({NULL} \cup T)
      /\ new_queue \in Seq(P)
  BY <1>0, SeqMayor DEF HeapCrece, TypeOK, TipoReferencias, TCBs, PIDs
<1>3. \A h \in Creadores : pc[h] \in EtiquetasCrear \ {"process_create"} =>
         nuevo[h] \in P /\ Principal(nuevo[h]) \in T
  <2>1. PIDs \subseteq P /\ TCBs \subseteq T
    BY <1>0 DEF HeapCrece, TCBs, PIDs
  <2>2. \A pid \in PIDs : TIDs[pid] \in Seq(TCBs) /\ TIDs[pid] # <<>>
    BY DEF IInv, Construido, TypeOK, TipoHeap, PIDs
  <2>3. \A pid \in PIDs : Principal(pid) \in TCBs
    BY <2>2 DEF Principal
  <2> HIDE DEF P, T
  <2> QED
    BY <2>1, <2>3 DEF IInv, Construido
<1>4. pc["exec"] \in EtiquetasAtender => Pid \in PIDs /\ tcb_exec \in T
  BY <1>0, SirveAUnPrincipal DEF HeapCrece, TCBs
<1>5. pc["exit"] \in {"thread_cancel", "enviar_kill", "free"} => tcb_salida \in T
  BY <1>0 DEF IInv, ColaExit, HeapCrece, TCBs
<1>6. TCBs \subseteq T
  BY <1>0 DEF HeapCrece, TCBs
<1>7. \A pid \in PIDs : TIDs[pid] \in Seq(T) /\ TIDs[pid] # <<>>
  BY <1>0, SeqMayor, SMTT(20) DEF IInv, TypeOK, TipoHeap, Construido, HeapCrece, TCBs, PIDs
<1> HIDE DEF P, T
<1> DEFINE Meta ==
             /\ nuevo' \in [Creadores -> {NULL} \cup P]
             /\ tcb_exec' \in {NULL} \cup T /\ tcb_salida' \in {NULL} \cup T
             /\ process_list' \subseteq P /\ confirmados' \subseteq P
             /\ avisados' \subseteq T
             /\ por_salir' \in Seq(T) /\ ready_list' \in Seq(T)
             /\ exit_queue' \in Seq(T) /\ despachados' \in Seq(T)
             /\ blocked_queue' \in Seq({NULL} \cup T) /\ new_queue' \in Seq(P)
<1> SUFFICES Meta
  BY DEF TipoReferencias, P, T
<1> USE <1>1, <1>2 DEF colas, locales, mensajes, Paso, Motivo, EtiquetasCrear, EtiquetasAtender
<1>8. CASE Ajeno
  BY <1>8 DEF Ajeno
<1>9. ASSUME NEW h \in Creadores, Alocar(h)
      PROVE  nuevo' \in [Creadores -> {NULL} \cup P]
  <2>1. nuevo' = [nuevo EXCEPT ![h] = Len(TIDs) + 1] /\ Len(TIDs') = Len(TIDs) + 1
    BY <1>0, <1>9 DEF Alocar, TypeOK, TipoHeap
  <2>2. Len(TIDs) + 1 \in P
    BY <1>0, <2>1 DEF P, PIDs, HeapCrece
  <2> QED
    BY <2>1, <2>2
<1>10. ASSUME NEW h \in Creadores, ProcessCreate(h)
       PROVE  Meta
  <2>1. CASE Alocar(h)
    BY <1>9, <2>1 DEF Alocar
  <2>2. CASE RecvSuccess(h)
    BY <1>3, <2>2 DEF RecvSuccess
  <2>3. CASE AddReady(h)
    BY <1>3, <2>3 DEF AddReady
  <2>4. CASE AddProc(h)
    BY <1>3, <2>4 DEF AddProc
  <2>5. CASE AddNew(h)
    BY <1>3, <2>5 DEF AddNew
  <2> QED
    BY <1>10, <2>1, <2>2, <2>3, <2>4, <2>5 DEF ProcessCreate, RecvFailure,
       RecvSinRespuesta, PostReady, PostNew
<1>11. CASE SemWaitReady
  BY <1>11, SoloElBucle
<1>12. CASE SacarExit
  BY <1>6, <1>12, SacarExitSimple
<1>13. CASE AtenderThreadJoin
  <2>1. UNCHANGED <<locales, process_list, new_queue, exit_queue, mensajes>>
        /\ ready_list' = <<>> /\ blocked_queue' = Append(blocked_queue, NULL)
    BY <1>13, JoinSimple
  <2> QED
    BY <2>1
<1>14. CASE AtenderThreadCancel
  <2>1. PICK t \in TCBs :
          /\ UNCHANGED <<locales, process_list, new_queue, blocked_queue, mensajes>>
          /\ ready_list' = <<>> /\ exit_queue' = Append(exit_queue, t)
    BY <1>14, CancelSimple
  <2> QED
    BY <1>6, <2>1
<1>15. CASE AddHilo
  <2>1. Pid \in PIDs /\ TIDs[Pid] \in Seq(T) /\ TIDs[Pid] # <<>>
    BY <1>4, <1>7, <1>15 DEF AddHilo
  <2>2. TIDs[Pid][Len(TIDs[Pid])] \in T
    BY <2>1
  <2> QED
    BY <1>15, <2>2 DEF AddHilo
<1>16. CASE AtenderProcessExit
  <2>1. Pid \in PIDs /\ TIDs[Pid] \in Seq(T)
    BY <1>4, <1>7, <1>16 DEF AtenderProcessExit
  <2> QED
    BY <1>16, <2>1 DEF AtenderProcessExit
<1>17. CASE Despachar
  BY <1>17 DEF Despachar
<1>18. CASE AtenderThreadExit
  BY <1>4, <1>18 DEF AtenderThreadExit
<1>19. CASE EnviarKill
  BY <1>5, <1>19 DEF EnviarKill
<1>20. CASE SacarNew
  BY <1>20 DEF SacarNew
<1>21. CASE UNCHANGED <<locales, colas, mensajes>>
  BY <1>21
<1>22. CASE PasoDeHilo
  BY <1>10, <1>11, <1>12, <1>13, <1>14, <1>15, <1>16, <1>17, <1>18, <1>19, <1>20,
     <1>21, <1>22 DEF PasoDeHilo, Planificar, SemWaitNew, SemWaitExit, ConectarKill,
     LiberarTcb, ConectarCpu, SemWaitExec, ConectarHilo, EnviarHilo,
     HandshakeFalla, PostExit, LogExit, RecvSinCpu, AtenderProcessCreate,
     AtenderThreadCreate, AtenderTidInexistente, AtenderSinEfecto
<1> QED
  BY <1>8, <1>22

\* With a process in flight exit_tcb is idle and exec_tcb serves nobody.
LEMMA PasosConFicha ==
  ASSUME IInv, Fichas = 1, Ajeno \/ PasoDeHilo
  PROVE  \/ Ajeno
         \/ \E h \in Creadores : ProcessCreate(h)
         \/ Planificar \/ SemWaitNew \/ SacarNew
         \/ ConectarCpu \/ SemWaitReady \/ SemWaitExec \/ Despachar
<1>1. pc["exit"] \in {"sin_crear", "sem_exit"} /\ sem_exit = 0
  BY DEF IInv, ColaExit
<1>2. pc["exec"] \notin EtiquetasAtender
  BY Una DEF IInv
<1> QED
  BY <1>1, <1>2 DEF PasoDeHilo, SemWaitExit, SacarExit, ConectarKill, EnviarKill,
     LiberarTcb, ConectarHilo, EnviarHilo, HandshakeFalla, AddHilo, PostExit,
     LogExit, RecvSinCpu, AtenderProcessCreate, AtenderProcessExit,
     AtenderThreadCreate, AtenderThreadJoin, AtenderThreadCancel,
     AtenderTidInexistente, AtenderThreadExit, AtenderSinEfecto, Motivo, Paso,
     EtiquetasAtender

\* While exec_tcb serves a thread that may still create one, or is about to
\* post its exit, no other thread of the kernel moves.
LEMMA PasosAlAtender ==
  ASSUME IInv, PuedeCrear \/ pc["exec"] = "post_exit", Ajeno \/ PasoDeHilo
  PROVE  \/ Ajeno
         \/ ConectarHilo \/ EnviarHilo \/ HandshakeFalla \/ RecvSinCpu
         \/ AtenderProcessCreate \/ AtenderProcessExit \/ AtenderThreadCreate
         \/ AtenderThreadJoin \/ AtenderThreadCancel \/ AtenderTidInexistente
         \/ AtenderThreadExit \/ AtenderSinEfecto
         \/ PostExit
<1>1. pc["exit"] \in {"sin_crear", "sem_exit"} /\ sem_exit = 0
  BY DEF IInv, ColaExit
<1>2. /\ pc["exec"] \in EtiquetasAtender
      /\ \A h \in Creadores : pc[h] \notin EtiquetasCrear
      /\ sem_new = 0 /\ pc["ready"] # "sacar_new"
  BY Una DEF IInv, PuedeCrear, EtiquetasAtender
<1>3. pc["main"] # "planificar"
  BY <1>2 DEF IInv, Arranque, EtiquetasAtender
<1>4. ASSUME NEW h \in Creadores, ProcessCreate(h)
      PROVE  FALSE
  BY <1>2, <1>4 DEF ProcessCreate, Alocar, RecvSuccess, RecvFailure,
     RecvSinRespuesta, AddReady, AddProc, PostReady, AddNew, PostNew, Paso,
     EtiquetasCrear
<1>5. ~SemWaitReady
  BY <1>2, SoloElBucle DEF EtiquetasAtender
<1> QED
  BY <1>1, <1>2, <1>3, <1>4, <1>5 DEF PasoDeHilo, Planificar, SemWaitNew, SacarNew,
     SemWaitExit, SacarExit, ConectarKill, EnviarKill, LiberarTcb, ConectarCpu,
     SemWaitExec, Despachar, AddHilo, LogExit, Paso, PuedeCrear

\* How exec_tcb comes to serve a thread, and to a point where it may create.
LEMMA PasosHaciaAtender ==
  ASSUME IInv, Ajeno \/ PasoDeHilo
  PROVE  /\ pc'["exec"] \in EtiquetasAtender =>
              \/ Despachar
              \/ pc["exec"] \in EtiquetasAtender /\ tcb_exec' = tcb_exec
         /\ PuedeCrear' => Despachar \/ PuedeCrear
         /\ pc'["exec"] = "post_exit" => AtenderThreadExit \/ pc["exec"] = "post_exit"
<1> USE DEF IInv, TypeOK, TipoControl, EtiquetasAtender, PuedeCrear, Paso, Motivo,
    locales
<1>1. CASE Ajeno
  BY <1>1 DEF Ajeno
<1>2. ASSUME NEW h \in Creadores, ProcessCreate(h)
      PROVE  pc'["exec"] \notin EtiquetasAtender
  BY <1>2, Una DEF ProcessCreate, Alocar, RecvSuccess, RecvFailure, EtiquetasCrear,
     RecvSinRespuesta, AddReady, AddProc, PostReady, AddNew, PostNew, Retorno
<1>3. CASE SemWaitReady
  BY <1>3, SoloElBucle
<1>4. CASE SacarExit
  BY <1>4, SacarExitSimple
<1>5. CASE \/ Planificar \/ SemWaitNew \/ SacarNew \/ SemWaitExit \/ ConectarKill
           \/ EnviarKill \/ LiberarTcb \/ ConectarCpu \/ SemWaitExec
  BY <1>5 DEF Planificar, SemWaitNew, SacarNew, SemWaitExit, ConectarKill,
     EnviarKill, LiberarTcb, ConectarCpu, SemWaitExec
<1>6. CASE \/ ConectarHilo \/ EnviarHilo \/ HandshakeFalla \/ AddHilo \/ PostExit
           \/ LogExit \/ RecvSinCpu
  BY <1>6 DEF ConectarHilo, EnviarHilo, HandshakeFalla, AddHilo, PostExit, LogExit,
     RecvSinCpu
<1>7. CASE \/ AtenderProcessCreate \/ AtenderProcessExit \/ AtenderThreadCreate
           \/ AtenderThreadExit \/ AtenderSinEfecto
  BY <1>7 DEF AtenderProcessCreate, AtenderProcessExit, AtenderThreadCreate,
     AtenderThreadExit, AtenderSinEfecto
<1>8. CASE AtenderThreadJoin \/ AtenderThreadCancel \/ AtenderTidInexistente
  BY <1>8 DEF AtenderThreadJoin, AtenderThreadCancel, AtenderTidInexistente
<1>9. CASE Despachar
  BY <1>9 DEF Despachar
<1> QED
  BY <1>1, <1>2, <1>3, <1>4, <1>5, <1>6, <1>7, <1>8, <1>9 DEF PasoDeHilo

\* process_list never loses a PCB, and a process keeps its main TCB.
LEMMA ListaDeProcesosCrece ==
  ASSUME IInv, Ajeno \/ PasoDeHilo
  PROVE  /\ process_list \subseteq process_list'
         /\ \A pid \in PIDs : Principal(pid)' = Principal(pid)
<1>1. \A pid \in PIDs : Principal(pid)' = Principal(pid)
  BY TipoHeapPaso DEF HeapCrece, Principal
<1>2. process_list \subseteq process_list'
  <2>1. CASE UNCHANGED process_list
    BY <2>1
  <2>2. ASSUME NEW h \in Creadores, AddProc(h)
        PROVE  process_list \subseteq process_list'
    BY <2>2 DEF AddProc
  <2>3. ASSUME NEW h \in Creadores, ProcessCreate(h), ~AddProc(h)
        PROVE  UNCHANGED process_list
    BY <2>3 DEF ProcessCreate, Alocar, RecvSuccess, RecvFailure, RecvSinRespuesta,
       AddReady, PostReady, AddNew, PostNew, colas
  <2>4. CASE SemWaitReady
    BY <2>4, SoloElBucle DEF colas
  <2>5. ASSUME Ajeno \/ PasoDeHilo, ~SemWaitReady,
               \A h \in Creadores : ~ProcessCreate(h)
        PROVE  UNCHANGED process_list
    BY <2>5 DEF Ajeno, PasoDeHilo, Planificar, SemWaitNew, SacarNew, SemWaitExit,
       SacarExit, ConectarKill, EnviarKill, LiberarTcb, ConectarCpu, SemWaitExec,
       Despachar, ConectarHilo, EnviarHilo, HandshakeFalla, AddHilo, PostExit,
       LogExit, RecvSinCpu, AtenderProcessCreate, AtenderProcessExit,
       AtenderThreadCreate, AtenderThreadJoin, AtenderThreadCancel,
       AtenderTidInexistente, AtenderThreadExit, AtenderSinEfecto, colas
  <2> QED
    BY <2>1, <2>2, <2>3, <2>4, <2>5
<1> QED
  BY <1>1, <1>2

\* The TCB exec_tcb is about to dispatch is alone in ready_list and its process
\* is registered.
LEMMA LoQueSeDespacha ==
  ASSUME IInv, Despachar
  PROVE  \E pid \in process_list :
           /\ ready_list = <<Principal(pid)>> /\ ready_list' = <<>>
           /\ tcb_exec' = Principal(pid)
           /\ despachados' = Append(despachados, Principal(pid))
<1>1. pc["exec"] = "elegir"
  BY DEF Despachar, Paso
<1>2. Fichas = 1 /\ \A k \in Creadores : pc[k] \notin EtiquetasCrear
  BY <1>1, Una DEF IInv
<1>3. PICK pid \in PIDs : /\ ready_list = <<Principal(pid)>>
                          /\ \/ pid \in process_list
                             \/ \E h \in Creadores : pc[h] = "add_proc" /\ nuevo[h] = pid
  BY <1>1, <1>2 DEF IInv, ColaReady, EnReady
<1>4. pid \in process_list
  BY <1>2, <1>3 DEF EtiquetasCrear
<1>5. Head(ready_list) = Principal(pid) /\ Tail(ready_list) = <<>>
  BY <1>3
<1> QED
  BY <1>3, <1>4, <1>5 DEF Despachar

\* What the CPU runs is the main thread of a registered process, and
\* ready_list is empty wherever exec_tcb may still create.
LEMMA DespachadoPaso ==
  ASSUME IInv, Ajeno \/ PasoDeHilo
  PROVE  Despachado'
<1>1. /\ process_list \subseteq process_list' /\ process_list \subseteq PIDs
      /\ \A pid \in PIDs : Principal(pid)' = Principal(pid)
  BY ListaDeProcesosCrece DEF IInv, TypeOK, TipoReferencias
<1>2. ASSUME pc'["exec"] \in EtiquetasAtender
      PROVE  \E pid \in process_list' : tcb_exec' = Principal(pid)'
  <2>1. CASE Despachar
    BY <1>1, <2>1, LoQueSeDespacha
  <2>2. CASE pc["exec"] \in EtiquetasAtender /\ tcb_exec' = tcb_exec
    BY <1>1, <2>2 DEF IInv, Despachado
  <2> QED
    BY <1>2, <2>1, <2>2, PasosHaciaAtender
<1>3. ASSUME PuedeCrear'
      PROVE  ready_list' = <<>>
  <2>1. CASE Despachar
    BY <2>1, LoQueSeDespacha
  <2>2. CASE PuedeCrear
    <3>1. ready_list = <<>>
      BY <2>2 DEF IInv, Despachado
    <3>2. ~(EnviarHilo \/ HandshakeFalla \/ RecvSinCpu \/ AtenderThreadJoin
            \/ AtenderThreadCancel \/ AtenderTidInexistente \/ AtenderSinEfecto
            \/ AtenderThreadExit \/ PostExit \/ AtenderProcessCreate)
      BY <1>3 DEF PuedeCrear, EnviarHilo, HandshakeFalla, RecvSinCpu,
         AtenderThreadJoin, AtenderThreadCancel, AtenderTidInexistente,
         AtenderSinEfecto, AtenderThreadExit, PostExit, AtenderProcessCreate,
         Motivo, Paso, IInv, TypeOK, TipoControl
    <3>3. Ajeno \/ ConectarHilo \/ AtenderThreadCreate \/ AtenderProcessExit
      BY <2>2, <3>2, PasosAlAtender
    <3> QED
      BY <3>1, <3>3 DEF Ajeno, ConectarHilo, AtenderThreadCreate,
         AtenderProcessExit, colas
  <2> QED
    BY <1>3, <2>1, <2>2, PasosHaciaAtender
<1> QED
  BY <1>2, <1>3 DEF Despachado

\* The process in flight is alone in ready_list from add_ready to Despachar.
LEMMA ColaReadyPaso ==
  ASSUME IInv, Ajeno \/ PasoDeHilo
  PROVE  ColaReady'
<1> SUFFICES ASSUME Fichas' = 1
             PROVE  \/ ~EnReady' /\ ready_list' = <<>>
                    \/ /\ EnReady'
                       /\ \E pid \in PIDs' :
                            /\ ready_list' = <<Principal(pid)'>>
                            /\ \/ pid \in process_list'
                               \/ \E h \in Creadores : /\ pc'[h] = "add_proc"
                                                       /\ nuevo'[h] = pid
  BY DEF ColaReady
<1>1. TypeOK /\ TipoControl' /\ UnaSolaFicha /\ UnaSolaFicha'
  BY FichasPaso, TipoControlPaso DEF IInv
<1>2. /\ process_list \subseteq process_list' /\ PIDs \subseteq PIDs'
      /\ \A pid \in PIDs : Principal(pid)' = Principal(pid)
  BY ListaDeProcesosCrece, TipoHeapPaso DEF HeapCrece, PIDs
<1> USE DEF EnReady, Paso, TypeOK, TipoControl, semaforos, colas, locales
<1>3. CASE AtenderProcessCreate
  <2>1. pc["exec"] = "buffer_recv" /\ ready_list' = ready_list
    BY <1>3 DEF AtenderProcessCreate, Motivo
  <2>2. ready_list = <<>>
    BY <2>1 DEF IInv, Despachado, PuedeCrear
  <2>3. sem_ready = 0 /\ \A h \in Creadores : pc[h] \notin EtiquetasCrear
    BY <1>1, <2>1, Una DEF EtiquetasAtender
  <2>4. ~EnReady'
    BY <1>3, <2>3 DEF AtenderProcessCreate, Motivo, EtiquetasCrear
  <2> QED
    BY <2>1, <2>2, <2>4
<1>4. CASE Fichas = 1
  <2>1. \/ ~EnReady /\ ready_list = <<>>
        \/ /\ EnReady
           /\ \E pid \in PIDs :
                /\ ready_list = <<Principal(pid)>>
                /\ \/ pid \in process_list
                   \/ \E h \in Creadores : pc[h] = "add_proc" /\ nuevo[h] = pid
    BY <1>4 DEF IInv, ColaReady
  <2>2. CASE Ajeno
    BY <1>2, <2>1, <2>2 DEF Ajeno
  <2>3. ASSUME NEW h \in Creadores, ProcessCreate(h)
        PROVE  \/ ~EnReady' /\ ready_list' = <<>>
               \/ /\ EnReady'
                  /\ \E pid \in PIDs' :
                       /\ ready_list' = <<Principal(pid)'>>
                       /\ \/ pid \in process_list'
                          \/ \E k \in Creadores : /\ pc'[k] = "add_proc"
                                                  /\ nuevo'[k] = pid
    <3>1. /\ sem_ready = 0 /\ pc["exec"] \notin {"sem_exec", "elegir"}
          /\ \A k \in Creadores \ {h} : pc[k] \notin EtiquetasCrear
      BY <1>1, <2>3, Una DEF ProcessCreate, Alocar, RecvSuccess, RecvFailure,
         RecvSinRespuesta, AddReady, AddProc, PostReady, AddNew, PostNew,
         EtiquetasCrear
    <3>2. CASE Alocar(h) \/ RecvSuccess(h) \/ RecvFailure(h) \/ RecvSinRespuesta(h)
               \/ AddNew(h)
      <4>1. pc[h] \in EtiquetasCrear \ {"add_proc", "post_ready"}
            /\ pc'[h] \in EtiquetasCrear \ {"add_proc", "post_ready"}
            /\ (\A k \in Creadores \ {h} : pc'[k] = pc[k])
            /\ ready_list' = ready_list /\ sem_ready' = sem_ready
        BY <1>1, <3>2 DEF Alocar, RecvSuccess, RecvFailure, RecvSinRespuesta,
           AddNew, EtiquetasCrear
      <4>2. ~EnReady /\ ~EnReady'
        BY <3>1, <4>1 DEF EtiquetasCrear
      <4> QED
        BY <2>1, <4>1, <4>2
    <3>3. CASE PostNew(h)
      <4>1. pc[h] = "post_new" /\ ready_list' = ready_list /\ sem_ready' = sem_ready
            /\ pc' = [pc EXCEPT ![h] = Retorno[h]]
        BY <3>3 DEF PostNew
      <4>2. Retorno[h] \in {"planificar", "sem_new", "sem_ready"}
        BY DEF Retorno
      <4>3. ~EnReady /\ ~EnReady'
        BY <3>1, <4>1, <4>2 DEF EtiquetasCrear
      <4> QED
        BY <2>1, <4>1, <4>3
    <3>4. CASE AddReady(h)
      <4>1. ready_list = <<>>
        BY <2>1, <3>1, <3>4 DEF AddReady, EtiquetasCrear
      <4>2. pc'[h] = "add_proc" /\ nuevo' = nuevo
            /\ ready_list' = <<Principal(nuevo[h])>>
        BY <1>1, <3>4, <4>1, AgregarAVacia DEF AddReady
      <4>3. nuevo[h] \in PIDs
        BY <3>4 DEF AddReady, IInv, Construido, EtiquetasCrear
      <4> QED
        BY <1>2, <4>2, <4>3
    <3>5. CASE AddProc(h)
      <4>1. PICK pid \in PIDs :
              /\ ready_list = <<Principal(pid)>>
              /\ \/ pid \in process_list
                 \/ \E k \in Creadores : pc[k] = "add_proc" /\ nuevo[k] = pid
        BY <2>1, <3>5 DEF AddProc
      <4>2. pid \in process_list'
        BY <3>1, <3>5, <4>1 DEF AddProc, EtiquetasCrear
      <4>3. EnReady' /\ ready_list' = ready_list
        BY <3>5 DEF AddProc
      <4> QED
        BY <1>2, <4>1, <4>2, <4>3
    <3>6. CASE PostReady(h)
      <4>1. PICK pid \in PIDs :
              /\ ready_list = <<Principal(pid)>>
              /\ \/ pid \in process_list
                 \/ \E k \in Creadores : pc[k] = "add_proc" /\ nuevo[k] = pid
        BY <2>1, <3>6 DEF PostReady
      <4>2. pid \in process_list'
        BY <1>2, <3>1, <3>6, <4>1 DEF PostReady, EtiquetasCrear
      <4>3. EnReady' /\ ready_list' = ready_list
        BY <3>1, <3>6 DEF PostReady
      <4> QED
        BY <1>2, <4>1, <4>2, <4>3
    <3> QED
      BY <2>3, <3>2, <3>3, <3>4, <3>5, <3>6 DEF ProcessCreate
  <2>4. CASE Planificar \/ SemWaitNew \/ SacarNew \/ ConectarCpu \/ SemWaitExec
    <3>1. ready_list' = ready_list /\ process_list' = process_list /\ nuevo' = nuevo
      BY <2>4 DEF Planificar, SemWaitNew, SacarNew, ConectarCpu, SemWaitExec
    <3>2. EnReady' <=> EnReady
      BY <2>4 DEF Planificar, SemWaitNew, SacarNew, ConectarCpu, SemWaitExec, IInv,
         Arranque
    <3>3. \A h \in Creadores : pc[h] = "add_proc" => pc'[h] = "add_proc"
      BY <2>4 DEF Planificar, SemWaitNew, SacarNew, ConectarCpu, SemWaitExec, IInv,
         Arranque
    <3> QED
      BY <1>2, <2>1, <3>1, <3>2, <3>3
  <2>5. CASE SemWaitReady
    <3>1. /\ pc["exec"] = "sem_ready" /\ pc' = [pc EXCEPT !["exec"] = "sem_exec"]
          /\ sem_ready > 0 /\ UNCHANGED <<ready_list, process_list, nuevo>>
      BY <2>5, SoloElBucle
    <3> QED
      <4>1. EnReady /\ EnReady'
        BY <1>1, <3>1
      <4>2. \A h \in Creadores : pc[h] = "add_proc" => pc'[h] = "add_proc"
        BY <1>1, <3>1
      <4> QED
        BY <1>2, <2>1, <3>1, <4>1, <4>2
  <2>6. CASE Despachar
    <3>1. pc'["exec"] = "buffer_recv"
      BY <1>1, <2>6 DEF Despachar
    <3>2. Fichas' = 0
      BY <1>1, <3>1 DEF UnaSolaFicha, EtiquetasAtender
    <3> QED
      BY <3>2
  <2> QED
    BY <1>4, <2>2, <2>3, <2>4, <2>5, <2>6, PasosConFicha
<1> QED
  BY <1>3, <1>4, FichasPaso

\* exit_tcb stays idle until a THREAD_EXIT, and then finds exactly the thread
\* that made it, for which nobody waits.
LEMMA ColaExitPaso ==
  ASSUME IInv, Ajeno \/ PasoDeHilo
  PROVE  ColaExit'
<1> DEFINE Antes == Fichas = 1 \/ PuedeCrear \/ pc["exec"] = "post_exit"
           Ocioso == /\ sem_exit = 0 /\ pc["exit"] \in {"sin_crear", "sem_exit"}
                     /\ \A t \in TCBs : tcb[t].TID_wait = -1
<1>1. TypeOK /\ TipoControl' /\ TipoHeap' /\ HeapCrece /\ UnaSolaFicha
  BY TipoControlPaso, TipoHeapPaso DEF IInv
<1> USE DEF Paso, Motivo, TypeOK, TipoControl, semaforos, colas, locales
<1>2. Antes' => Antes
  <2>1. AtenderProcessCreate \/ AtenderThreadExit => PuedeCrear
    BY DEF AtenderProcessCreate, AtenderThreadExit, PuedeCrear
  <2>2. Despachar => Fichas = 1
    BY <1>1, Una DEF Despachar
  <2> QED
    BY <2>1, <2>2, FichasPaso, PasosHaciaAtender DEF PuedeCrear
<1>3. Antes => Ocioso
  BY DEF IInv, ColaExit
\* Before the last thread to run posts its exit.
<1>4. ASSUME Antes'
      PROVE  /\ Ocioso'
             /\ pc'["exec"] # "post_exit" => exit_queue' = <<>>
             /\ pc'["exec"] = "post_exit" => exit_queue' = <<tcb_exec'>>
  <2>1. Antes /\ Ocioso
    BY <1>2, <1>3, <1>4
  <2>2. /\ pc["exec"] # "post_exit" => exit_queue = <<>>
        /\ pc["exec"] = "post_exit" => exit_queue = <<tcb_exec>>
    BY <2>1 DEF IInv, ColaExit
  <2>3. ~AtenderThreadJoin /\ ~EnviarHilo /\ ~AtenderThreadCancel
    <3>1. ASSUME AtenderThreadJoin \/ EnviarHilo \/ AtenderThreadCancel
          PROVE  /\ pc'["exec"] \in {"sem_ready", "add_hilo"} /\ Fichas = 0
                 /\ ~AtenderProcessCreate
      BY <1>1, <3>1, Una DEF AtenderThreadJoin, EnviarHilo, AtenderThreadCancel,
         AtenderProcessCreate, EtiquetasAtender
    <3> QED
      BY <1>4, <3>1, FichasPaso DEF PuedeCrear
  <2>4. ~PostExit
    <3>1. ASSUME PostExit
          PROVE  pc'["exec"] = "log_exit" /\ Fichas = 0 /\ ~AtenderProcessCreate
      BY <1>1, <3>1, Una DEF PostExit, AtenderProcessCreate, EtiquetasAtender
    <3> QED
      BY <1>4, <3>1, FichasPaso DEF PuedeCrear
  <2>5. \A t \in TCBs' : tcb'[t].TID_wait = -1
    <3>1. CASE \E h \in Creadores : Alocar(h)
      BY <1>1, <2>1, <3>1 DEF Alocar, TCBs, TipoHeap
    <3>2. CASE LiberarTcb
      BY <2>1, <3>2 DEF LiberarTcb
    <3>3. CASE UNCHANGED heap
      BY <2>1, <3>3 DEF heap, TCBs
    <3> QED
      BY <2>3, <3>1, <3>2, <3>3, MarcoHeap
  <2>6. ASSUME Ajeno
               \/ \E h \in Creadores : ProcessCreate(h)
        PROVE  /\ pc'["exit"] = pc["exit"] /\ sem_exit' = sem_exit
               /\ exit_queue' = exit_queue /\ tcb_exec' = tcb_exec
    BY <1>1, <2>6 DEF Ajeno, ProcessCreate, Alocar, RecvSuccess, RecvFailure,
       RecvSinRespuesta, AddReady, AddProc, PostReady, AddNew, PostNew
  <2>7. ASSUME NEW h \in Creadores, ProcessCreate(h)
        PROVE  pc["exec"] # "post_exit" /\ pc'["exec"] # "post_exit"
    BY <1>1, <2>7, Una DEF ProcessCreate, Alocar, RecvSuccess, RecvFailure,
       RecvSinRespuesta, AddReady, AddProc, PostReady, AddNew, PostNew, Retorno,
       EtiquetasCrear, EtiquetasAtender
  <2>8. CASE Ajeno \/ \E h \in Creadores : ProcessCreate(h)
    BY <2>1, <2>2, <2>5, <2>6, <2>7, <2>8 DEF Ajeno
  <2>9. CASE Planificar \/ SemWaitNew \/ SacarNew \/ ConectarCpu \/ SemWaitExec
             \/ Despachar
    <3>1. /\ pc'["exit"] \in {"sin_crear", "sem_exit"} /\ sem_exit' = sem_exit
          /\ exit_queue' = exit_queue
          /\ pc["exec"] = "post_exit" <=> pc'["exec"] = "post_exit"
          /\ pc["exec"] = "post_exit" => tcb_exec' = tcb_exec
      BY <1>1, <2>1, <2>9 DEF Planificar, SemWaitNew, SacarNew, ConectarCpu,
         SemWaitExec, Despachar, IInv, Arranque
    <3> QED
      BY <2>1, <2>2, <2>5, <3>1
  <2>10. CASE SemWaitReady
    <3>1. /\ pc["exec"] = "sem_ready" /\ pc' = [pc EXCEPT !["exec"] = "sem_exec"]
          /\ UNCHANGED <<exit_queue, sem_exit, tcb_exec>>
      BY <2>10, SoloElBucle
    <3> QED
      BY <1>1, <2>1, <2>2, <2>5, <3>1
  <2>11. CASE ConectarHilo \/ HandshakeFalla \/ RecvSinCpu \/ AtenderProcessCreate
              \/ AtenderProcessExit \/ AtenderThreadCreate
              \/ AtenderTidInexistente \/ AtenderSinEfecto
    BY <1>1, <2>1, <2>2, <2>5, <2>11 DEF ConectarHilo, HandshakeFalla, RecvSinCpu,
       AtenderProcessCreate, AtenderProcessExit, AtenderThreadCreate,
       AtenderTidInexistente, AtenderSinEfecto
  <2>12. CASE AtenderThreadExit
    <3>1. /\ pc["exec"] = "buffer_recv" /\ pc' = [pc EXCEPT !["exec"] = "post_exit"]
          /\ exit_queue' = Append(exit_queue, tcb_exec)
          /\ sem_exit' = sem_exit /\ tcb_exec' = tcb_exec
      BY <2>12 DEF AtenderThreadExit
    <3>2. exit_queue = <<>>
      BY <2>2, <3>1
    <3> QED
      BY <1>1, <2>1, <2>5, <3>1, <3>2, AgregarAVacia
  <2> QED
    BY <2>1, <2>3, <2>4, <2>8, <2>9, <2>10, <2>11, <2>12, PasosConFicha,
       PasosAlAtender
\* The exit path itself.
<1> DEFINE Pendiente == sem_exit + Hay(pc["exit"] = "sacar_exit") > 0
           UnoEnCola ==
             /\ sem_exit + Hay(pc["exit"] = "sacar_exit") = 1
             /\ \E t \in TCBs : exit_queue = <<t>> /\ tcb[t].TID_wait = -1
<1>5. ASSUME Pendiente', ~Antes'
      PROVE  UnoEnCola'
  <2>1. CASE PostExit
    <3>1. pc["exec"] = "post_exit" /\ pc' = [pc EXCEPT !["exec"] = "log_exit"]
          /\ sem_exit' = sem_exit + 1 /\ exit_queue' = exit_queue /\ tcb' = tcb
      BY <2>1 DEF PostExit, heap
    <3>2. Ocioso /\ exit_queue = <<tcb_exec>> /\ tcb_exec \in TCBs
      BY <1>3, <3>1, SirveAUnPrincipal DEF IInv, ColaExit, EtiquetasAtender
    <3> QED
      BY <1>1, <3>1, <3>2 DEF Hay, TCBs
  <2>2. CASE SacarExit
    <3>1. sem_exit' = 0 /\ pc'["exit"] = "thread_cancel"
      BY <1>1, <2>2, SacarExitSimple
    <3> QED
      BY <1>5, <3>1 DEF Hay
  <2>3. CASE SemWaitExit
    <3>1. pc["exit"] = "sem_exit" /\ pc'["exit"] = "sacar_exit" /\ sem_exit > 0
          /\ sem_exit' = sem_exit - 1 /\ UNCHANGED <<exit_queue, tcb>>
      BY <1>1, <2>3 DEF SemWaitExit, heap
    <3>2. UnoEnCola
      BY <1>1, <3>1 DEF IInv, ColaExit, Hay
    <3> QED
      BY <1>1, <3>1, <3>2 DEF Hay, TCBs
  <2>4. ASSUME ~PostExit, ~SacarExit, ~SemWaitExit
        PROVE  /\ sem_exit' = sem_exit
               /\ pc'["exit"] = "sacar_exit" <=> pc["exit"] = "sacar_exit"
    <3>1. CASE Ajeno \/ \E h \in Creadores : ProcessCreate(h)
      BY <1>1, <3>1 DEF Ajeno, ProcessCreate, Alocar, RecvSuccess, RecvFailure,
         RecvSinRespuesta, AddReady, AddProc, PostReady, AddNew, PostNew
    <3>2. CASE SemWaitReady
      BY <1>1, <3>2, SoloElBucle
    <3>3. CASE PasoDeHilo
      BY <1>1, <2>4, <3>1, <3>2, <3>3, SMTT(60) DEF PasoDeHilo, Planificar, SemWaitNew, SacarNew,
         ConectarKill, EnviarKill, LiberarTcb, ConectarCpu, SemWaitExec, Despachar,
         ConectarHilo, EnviarHilo, HandshakeFalla, AddHilo, LogExit, RecvSinCpu,
         AtenderProcessCreate, AtenderProcessExit, AtenderThreadCreate,
         AtenderThreadJoin, AtenderThreadCancel, AtenderTidInexistente,
         AtenderThreadExit, AtenderSinEfecto, IInv, Arranque
    <3> QED
      BY <3>1, <3>3
  <2>5. CASE ~PostExit /\ ~SacarExit /\ ~SemWaitExit
    <3>1. Pendiente /\ UnoEnCola
      BY <1>1, <1>5, <2>4, <2>5 DEF IInv, ColaExit, Hay
    <3>2. ~Antes
      BY <1>3, <3>1 DEF Hay
    <3>3. PICK t \in TCBs : exit_queue = <<t>> /\ tcb[t].TID_wait = -1
      BY <3>1
    <3>4. t \in TCBs' /\ tcb'[t].TID_wait = -1
      BY <1>1, <3>2, <3>3, SMTT(20) DEF HeapCrece, TCBs, AtenderThreadJoin, PuedeCrear
    <3>5. exit_queue' = exit_queue
      <4>1. CASE SemWaitReady
        BY <4>1, SoloElBucle
      <4>2. CASE Ajeno \/ \E h \in Creadores : ProcessCreate(h)
        BY <4>2 DEF Ajeno, ProcessCreate, Alocar, RecvSuccess, RecvFailure,
           RecvSinRespuesta, AddReady, AddProc, PostReady, AddNew, PostNew
      <4>3. ~AtenderThreadCancel /\ ~AtenderThreadExit
        BY <3>2 DEF AtenderThreadCancel, AtenderThreadExit, PuedeCrear
      <4>4. CASE PasoDeHilo
        BY <2>5, <4>1, <4>2, <4>3, <4>4 DEF PasoDeHilo, Planificar, SemWaitNew,
           SacarNew, ConectarKill, EnviarKill, LiberarTcb, ConectarCpu, SemWaitExec,
           Despachar, ConectarHilo, EnviarHilo, HandshakeFalla, AddHilo, LogExit,
           RecvSinCpu, AtenderProcessCreate, AtenderProcessExit,
           AtenderThreadCreate, AtenderThreadJoin, AtenderTidInexistente,
           AtenderSinEfecto
      <4> QED
        BY <4>2, <4>4
    <3> QED
      BY <2>4, <2>5, <3>1, <3>3, <3>4, <3>5 DEF Hay
  <2> QED
    BY <2>1, <2>2, <2>3, <2>5
<1>6. ASSUME pc'["exit"] \in {"thread_cancel", "enviar_kill", "free"}
      PROVE  tcb_salida' \in TCBs'
  <2>1. TCBs \subseteq TCBs'
    BY <1>1 DEF HeapCrece, TCBs
  <2>2. CASE SacarExit
    BY <2>1, <2>2, SacarExitSimple
  <2>3. CASE ~SacarExit
    <3>1. tcb_salida' = tcb_salida
          /\ pc["exit"] \in {"thread_cancel", "enviar_kill", "free"}
      <4>1. CASE SemWaitReady
        BY <1>1, <1>6, <4>1, SoloElBucle
      <4>2. CASE Ajeno \/ \E h \in Creadores : ProcessCreate(h)
        BY <1>1, <1>6, <4>2 DEF Ajeno, ProcessCreate, Alocar, RecvSuccess,
           RecvFailure, RecvSinRespuesta, AddReady, AddProc, PostReady, AddNew,
           PostNew
      <4>3. CASE PasoDeHilo
        BY <1>1, <1>6, <2>3, <4>1, <4>2, <4>3, SMTT(60) DEF PasoDeHilo, Planificar, SemWaitNew,
           SacarNew, SemWaitExit, ConectarKill, EnviarKill, LiberarTcb, ConectarCpu,
           SemWaitExec, Despachar, ConectarHilo, EnviarHilo, HandshakeFalla,
           AddHilo, PostExit, LogExit, RecvSinCpu, AtenderProcessCreate,
           AtenderProcessExit, AtenderThreadCreate, AtenderThreadJoin,
           AtenderThreadCancel, AtenderTidInexistente, AtenderThreadExit,
           AtenderSinEfecto
      <4> QED
        BY <4>2, <4>3
    <3> QED
      BY <2>1, <3>1 DEF IInv, ColaExit
  <2> QED
    BY <2>2, <2>3
<1>7. ASSUME Antes'
      PROVE  ~Pendiente'
  BY <1>4, <1>7 DEF Hay
<1>8. Fichas' = 1 \/ PuedeCrear' => pc'["exec"] # "post_exit"
  <2>1. pc'["exec"] \in EtiquetasAtender => Fichas' = 0
    BY FichasPaso DEF UnaSolaFicha
  <2> QED
    BY <2>1 DEF PuedeCrear, EtiquetasAtender
<1> QED
  BY <1>4, <1>5, <1>6, <1>7, <1>8 DEF ColaExit

\* A thread on its way to the CPU has not been there.
LEMMA SinRepetirPaso ==
  ASSUME IInv, Ajeno \/ PasoDeHilo
  PROVE  SinRepetir'
<1> DEFINE Nueva(h) ==
      pc[h] \in {"recv", "add_ready"} => ~EstaEn(despachados, Principal(nuevo[h]))
<1>1. /\ TypeOK /\ TipoHeap /\ HeapCrece /\ UnaSolaFicha
      /\ \A pid \in PIDs : Principal(pid)' = Principal(pid)
      /\ process_list \subseteq PIDs /\ PIDs \subseteq PIDs'
  <2>1. TypeOK /\ TipoHeap /\ HeapCrece /\ UnaSolaFicha /\ process_list \subseteq PIDs
    BY TipoHeapPaso DEF IInv, TypeOK, TipoReferencias
  <2>2. PIDs \subseteq PIDs'
    BY <2>1 DEF HeapCrece, PIDs
  <2> QED
    BY <2>1, <2>2, ListaDeProcesosCrece
<1>2. despachados \in Seq(TCBs)
  BY <1>1 DEF TypeOK, TipoReferencias
<1> USE DEF Paso, Motivo, mensajes, colas, locales
<1>3. ASSUME ~Despachar
      PROVE  despachados' = despachados
  <2>1. CASE SemWaitReady
    BY <2>1, SoloElBucle
  <2>2. CASE Ajeno \/ \E h \in Creadores : ProcessCreate(h)
    BY <2>2 DEF Ajeno, ProcessCreate, Alocar, RecvSuccess, RecvFailure,
       RecvSinRespuesta, AddReady, AddProc, PostReady, AddNew, PostNew
  <2>3. CASE PasoDeHilo
    BY <1>3, <2>1, <2>2, <2>3 DEF PasoDeHilo, Planificar, SemWaitNew, SacarNew,
       SemWaitExit, SacarExit, ConectarKill, EnviarKill, LiberarTcb, ConectarCpu,
       SemWaitExec, ConectarHilo, EnviarHilo, HandshakeFalla, AddHilo, PostExit,
       LogExit, RecvSinCpu, AtenderProcessCreate, AtenderProcessExit,
       AtenderThreadCreate, AtenderThreadJoin, AtenderThreadCancel,
       AtenderTidInexistente, AtenderThreadExit, AtenderSinEfecto
  <2> QED
    BY <2>2, <2>3
<1>4. CASE Despachar
  <2>1. PICK pid \in process_list :
          ready_list = <<Principal(pid)>> /\ ready_list' = <<>>
          /\ despachados' = Append(despachados, Principal(pid))
    BY <1>4, LoQueSeDespacha
  <2>2. Fichas = 1 /\ \A k \in Creadores : pc[k] \notin EtiquetasCrear
    BY <1>1, <1>4, Una DEF Despachar
  <2>3. ~EstaEn(despachados, Principal(pid))
    <3>1. 1 \in DOMAIN ready_list /\ ready_list[1] = Principal(pid)
      BY <2>1
    <3> QED
      BY <2>2, <3>1 DEF IInv, SinRepetir
  <2>4. /\ Len(despachados') = Len(despachados) + 1 /\ Len(despachados) \in Nat
        /\ DOMAIN despachados = 1..Len(despachados)
        /\ DOMAIN despachados' = 1..Len(despachados')
        /\ \A i \in 1..Len(despachados) : despachados'[i] = despachados[i]
        /\ despachados'[Len(despachados) + 1] = Principal(pid)
    BY <1>2, <2>1
  <2>5. ASSUME NEW i \in DOMAIN despachados'
        PROVE  /\ \E q \in PIDs' : despachados'[i] = Principal(q)'
               /\ \A j \in 1..i-1 : despachados'[j] # despachados'[i]
    <3>1. CASE i \in DOMAIN despachados
      <4>1. /\ \E q \in PIDs : despachados[i] = Principal(q)
            /\ \A j \in 1..i-1 : despachados[j] # despachados[i]
        BY <3>1 DEF IInv, SinRepetir, SoloCorrenPrincipales
      <4> QED
        BY <1>1, <2>4, <3>1, <4>1
    <3>2. CASE i = Len(despachados) + 1
      <4>1. \A j \in 1..i-1 : despachados'[j] = despachados[j]
                              /\ despachados[j] # Principal(pid)
        BY <2>3, <2>4, <3>2 DEF EstaEn
      <4> QED
        BY <1>1, <2>4, <3>2, <4>1
    <3> QED
      BY <2>4, <3>1, <3>2
  <2>6. \A h \in Creadores : pc'[h] \notin {"recv", "add_ready"}
    BY <1>1, <1>4, <2>2 DEF Despachar, EtiquetasCrear, TypeOK, TipoControl
  <2> QED
    BY <2>1, <2>5, <2>6 DEF SinRepetir, SoloCorrenPrincipales
<1>5. CASE ~Despachar
  <2>1. despachados' = despachados
    BY <1>3, <1>5
  <2>2. SoloCorrenPrincipales'
    BY <1>1, <2>1 DEF IInv, SinRepetir, SoloCorrenPrincipales
  <2>3. ASSUME NEW h \in Creadores, pc'[h] \in {"recv", "add_ready"}
        PROVE  ~EstaEn(despachados', Principal(nuevo[h])')
    <3>1. CASE Alocar(h)
      <4>1. nuevo'[h] = Len(TIDs) + 1 /\ TIDs' = Append(TIDs, <<Len(tcb) + 1>>)
        BY <1>1, <3>1 DEF Alocar, TypeOK, TipoReferencias
      <4>2. Principal(nuevo[h])' = Len(tcb) + 1
        BY <1>1, <4>1 DEF Principal, TipoHeap
      <4>3. \A i \in DOMAIN despachados : despachados[i] # Len(tcb) + 1
        BY <1>1, <1>2 DEF TCBs, TipoHeap
      <4> QED
        BY <2>1, <4>2, <4>3 DEF EstaEn
    <3>2. CASE ~Alocar(h)
      <4>1. pc[h] \in {"recv", "add_ready"} /\ nuevo'[h] = nuevo[h]
        <5>1. CASE ProcessCreate(h)
          BY <1>1, <2>3, <3>2, <5>1 DEF ProcessCreate, RecvSuccess, RecvFailure,
             RecvSinRespuesta, AddReady, AddProc, PostReady, AddNew, PostNew,
             Retorno, TypeOK, TipoControl
        <5>2. ASSUME NEW k \in Creadores, k # h, ProcessCreate(k)
              PROVE  pc'[h] = pc[h] /\ nuevo'[h] = nuevo[h]
          BY <1>1, <5>2 DEF ProcessCreate, Alocar, RecvSuccess, RecvFailure,
             RecvSinRespuesta, AddReady, AddProc, PostReady, AddNew, PostNew,
             TypeOK, TipoControl, TipoReferencias
        <5>3. CASE Ajeno
          BY <2>3, <5>3 DEF Ajeno
        <5>4. CASE SemWaitReady
          BY <1>1, <2>3, <5>4, SoloElBucle DEF TypeOK, TipoControl
        <5>5. CASE SacarExit
          BY <1>1, <2>3, <5>5, SacarExitSimple DEF TypeOK, TipoControl
        <5>6. CASE PasoDeHilo
          BY <1>1, <1>5, <2>3, <5>1, <5>2, <5>4, <5>5, <5>6, SMTT(60) DEF PasoDeHilo, Planificar,
             SemWaitNew, SacarNew, SemWaitExit, ConectarKill, EnviarKill,
             LiberarTcb, ConectarCpu, SemWaitExec, ConectarHilo, EnviarHilo,
             HandshakeFalla, AddHilo, PostExit, LogExit, RecvSinCpu,
             AtenderProcessCreate, AtenderProcessExit, AtenderThreadCreate,
             AtenderThreadJoin, AtenderThreadCancel, AtenderTidInexistente,
             AtenderThreadExit, AtenderSinEfecto, TypeOK, TipoControl
        <5> QED
          BY <5>3, <5>6
      <4>2. nuevo[h] \in PIDs
        BY <4>1 DEF IInv, Construido, EtiquetasCrear
      <4> QED
        BY <1>1, <2>1, <4>1, <4>2 DEF IInv, SinRepetir
    <3> QED
      BY <3>1, <3>2
  <2>4. ASSUME Fichas' = 1, NEW i \in DOMAIN ready_list'
        PROVE  ~EstaEn(despachados', ready_list'[i])
    <3>1. CASE AtenderProcessCreate
      <4>1. pc["exec"] = "buffer_recv" /\ ready_list' = ready_list
        BY <3>1 DEF AtenderProcessCreate
      <4> QED
        BY <2>4, <4>1 DEF IInv, Despachado, PuedeCrear
    <3>2. CASE Fichas = 1 /\ ready_list' = ready_list
      BY <2>1, <2>4, <3>2 DEF IInv, SinRepetir
    <3>3. ASSUME NEW h \in Creadores, AddReady(h), Fichas = 1
          PROVE  ~EstaEn(despachados', ready_list'[i])
      <4>1. ready_list = <<>>
        <5>1. ~EnReady
          BY <1>1, <3>3, Una DEF AddReady, EnReady, EtiquetasCrear, IInv
        <5> QED
          BY <3>3, <5>1 DEF IInv, ColaReady
      <4>2. ready_list' = <<Principal(nuevo[h])>>
        BY <3>3, <4>1, AgregarAVacia DEF AddReady
      <4>3. ~EstaEn(despachados, Principal(nuevo[h]))
        BY <3>3 DEF AddReady, IInv, SinRepetir
      <4> QED
        BY <2>1, <2>4, <4>2, <4>3
    <3>4. CASE Fichas = 1 /\ \A h \in Creadores : ~AddReady(h)
      <4>1. CASE SemWaitReady
        BY <3>2, <3>4, <4>1, SoloElBucle
      <4>2. CASE ~SemWaitReady
        BY <1>5, <3>2, <3>4, <4>2, PasosConFicha DEF Ajeno, ProcessCreate, Alocar,
           RecvSuccess, RecvFailure, RecvSinRespuesta, AddProc, PostReady,
           AddNew, PostNew, Planificar, SemWaitNew, SacarNew, ConectarCpu,
           SemWaitExec
      <4> QED
        BY <4>1, <4>2
    <3> QED
      BY <2>4, <3>1, <3>3, <3>4, FichasPaso
  <2> QED
    BY <2>2, <2>3, <2>4 DEF SinRepetir
<1> QED
  BY <1>4, <1>5

-----------------------------------------------------------------------------
(* The inductive invariant, and the properties it gives                    *)

\* The invariant holds when the kernel starts.
LEMMA InvInicial == Init => IInv
<1> SUFFICES ASSUME Init
             PROVE  IInv
  OBVIOUS
<1> USE DEF Init, EtiquetasCrear, EtiquetasAtender, EtiquetasBucle, EtiquetasExit
<1>1. \A h \in Hilos : pc[h] = IF h = "main" THEN "process_create" ELSE "sin_crear"
  OBVIOUS
<1>2. TCBs = {} /\ PIDs = {}
  BY DEF TCBs, PIDs
<1>3. TypeOK
  BY <1>1, <1>2, KernelAssumption DEF TypeOK, TipoControl, TipoHeap, TipoReferencias,
     Etiquetas
<1>4. Fichas = 1 /\ UnaSolaFicha
  BY <1>1 DEF UnaSolaFicha, Fichas, Hay
<1>5. Arranque /\ Construido
  BY <1>1, <1>2 DEF Arranque, Construido
<1>6. ColaNew /\ DespachoPresupuestado
  BY <1>1, KernelAssumption DEF ColaNew, DespachoPresupuestado, Hay
<1>7. ColaReady /\ Despachado
  BY <1>1 DEF ColaReady, EnReady, Despachado, PuedeCrear
<1>8. ColaExit
  BY <1>1, <1>2 DEF ColaExit, PuedeCrear, Hay
<1>9. SinRepetir
  BY <1>1 DEF SinRepetir, SoloCorrenPrincipales
<1> QED
  BY <1>3, <1>4, <1>5, <1>6, <1>7, <1>8, <1>9 DEF IInv

\* Every step of the kernel, its peers and its operator keeps the invariant.
LEMMA InvPaso == IInv /\ [Next]_vars => IInv'
<1> SUFFICES ASSUME IInv, [Next]_vars
             PROVE  IInv'
  OBVIOUS
<1>1. Ajeno \/ PasoDeHilo
  BY Casos DEF IInv
<1> QED
  BY <1>1, TipoControlPaso, TipoHeapPaso, TipoReferenciasPaso, FichasPaso,
     ArranquePaso, ConstruidoPaso, ColaNewPaso, ColaReadyPaso, DespachadoPaso,
     ColaExitPaso, SinRepetirPaso, PresupuestoPaso DEF IInv, TypeOK

\* The kernel's global invariant holds in every reachable state.
THEOREM Invariante == Spec => []IInv
  BY InvInicial, InvPaso, PTL DEF Spec

\* Every global and local of the kernel keeps its type: no list but
\* blocked_queue ever holds NULL.
THEOREM Tipos == Spec => []TypeOK
<1>1. IInv => TypeOK
  BY DEF IInv
<1> QED
  BY <1>1, Invariante, PTL

\* No thread of the kernel takes from an empty list.
THEOREM Respaldo == Spec => []SemaforosRespaldados
<1>1. ASSUME IInv
      PROVE  SemaforosRespaldados
  <2>1. TypeOK /\ UnaSolaFicha
    BY <1>1 DEF IInv
  <2>2. sem_new + Hay(pc["ready"] = "sacar_new") <= Len(new_queue)
    BY <1>1, <2>1 DEF IInv, ColaNew, Hay, TypeOK, TipoControl
  <2>3. sem_ready + Hay(pc["exec"] \in {"sem_exec", "elegir"}) <= Len(ready_list)
    <3>1. CASE sem_ready > 0 \/ pc["exec"] \in {"sem_exec", "elegir"}
      <4>1. Fichas = 1 /\ EnReady
        BY <2>1, <3>1, Una DEF EnReady
      <4>2. Len(ready_list) = 1
        BY <1>1, <4>1 DEF IInv, ColaReady
      <4>3. sem_ready + Hay(pc["exec"] \in {"sem_exec", "elegir"}) <= 1
        BY <2>1 DEF UnaSolaFicha, Fichas, Hay, TypeOK, TipoControl
      <4> QED
        BY <4>2, <4>3
    <3>2. CASE ~(sem_ready > 0 \/ pc["exec"] \in {"sem_exec", "elegir"})
      BY <2>1, <3>2 DEF Hay, TypeOK, TipoControl, TipoReferencias
    <3> QED
      BY <3>1, <3>2
  <2>4. sem_exit + Hay(pc["exit"] = "sacar_exit") <= Len(exit_queue)
    <3>1. CASE sem_exit + Hay(pc["exit"] = "sacar_exit") > 0
      BY <1>1, <3>1 DEF IInv, ColaExit
    <3>2. CASE ~(sem_exit + Hay(pc["exit"] = "sacar_exit") > 0)
      BY <2>1, <3>2 DEF Hay, TypeOK, TipoControl, TipoReferencias
    <3> QED
      BY <3>1, <3>2
  <2> QED
    BY <2>2, <2>3, <2>4 DEF SemaforosRespaldados
<1> QED
  BY <1>1, Invariante, PTL

\* The kernel has at most one process on its way to the CPU.
THEOREM GradoUno == Spec => []UnaSolaFicha
<1>1. IInv => UnaSolaFicha
  BY DEF IInv
<1> QED
  BY <1>1, Invariante, PTL

\* Only main threads are dispatched, each at most once.
THEOREM SoloMains == Spec => []SoloCorrenPrincipales
<1>1. IInv => SoloCorrenPrincipales
  BY DEF IInv, SinRepetir
<1> QED
  BY <1>1, Invariante, PTL

\* The CPU gets at most SemExecInicial threads.
THEOREM Presupuesto == Spec => []DespachoPresupuestado
<1>1. IInv => DespachoPresupuestado
  BY DEF IInv
<1> QED
  BY <1>1, Invariante, PTL

\* get_process finds the process of the thread being served.
THEOREM Registrado == Spec => []DespachadoRegistrado
<1>1. ASSUME IInv, pc["exec"] \in EtiquetasAtender
      PROVE  /\ tcb_exec \in TCBs /\ tcb[tcb_exec].PID \in process_list
             /\ EstaEn(TIDs[tcb[tcb_exec].PID], tcb_exec)
  <2>1. /\ tcb_exec \in TCBs /\ Pid \in PIDs /\ Pid \in process_list
        /\ tcb_exec = Principal(Pid)
    BY <1>1, SirveAUnPrincipal
  <2>2. TIDs[Pid] \in Seq(TCBs) /\ TIDs[Pid] # <<>>
    BY <1>1, <2>1 DEF IInv, TypeOK, TipoHeap, Construido, PIDs
  <2>3. 1 \in DOMAIN TIDs[Pid]
    BY <2>2
  <2> QED
    BY <2>1, <2>3 DEF EstaEn, Principal, Pid
<1>2. IInv => DespachadoRegistrado
  BY <1>1 DEF DespachadoRegistrado
<1> QED
  BY <1>2, Invariante, PTL

\* PROCESS_EXIT never gets past its first sem_wait.
THEOREM SinSalida == Spec => ProcessExitNuncaAvanza
<1>1. ASSUME IInv, [Next]_vars, pc["exec"] = "process_exit"
      PROVE  pc'["exec"] = "process_exit" /\ por_salir' = por_salir
  <2>1. Ajeno \/ PasoDeHilo
    BY <1>1, Casos DEF IInv
  <2>2. /\ \A h \in Creadores : pc[h] \notin EtiquetasCrear
        /\ sem_new = 0 /\ pc["ready"] # "sacar_new" /\ pc["main"] # "planificar"
    BY <1>1, Una DEF IInv, EtiquetasAtender, Arranque
  <2>3. ~SemWaitReady
    BY <1>1, SoloElBucle
  <2>4. ASSUME NEW h \in Creadores, ProcessCreate(h)
        PROVE  FALSE
    BY <2>2, <2>4 DEF ProcessCreate, Alocar, RecvSuccess, RecvFailure,
       RecvSinRespuesta, AddReady, AddProc, PostReady, AddNew, PostNew, Paso,
       EtiquetasCrear
  <2>5. Ajeno \/ SemWaitExit \/ SacarExit \/ ConectarKill \/ EnviarKill \/ LiberarTcb
    BY <1>1, <2>1, <2>2, <2>3, <2>4 DEF PasoDeHilo, Planificar, SemWaitNew, SacarNew,
       ConectarCpu, SemWaitExec, Despachar, ConectarHilo, EnviarHilo,
       HandshakeFalla, AddHilo, PostExit, LogExit, RecvSinCpu,
       AtenderProcessCreate, AtenderProcessExit, AtenderThreadCreate,
       AtenderThreadJoin, AtenderThreadCancel, AtenderTidInexistente,
       AtenderThreadExit, AtenderSinEfecto, Motivo, Paso
  <2>6. CASE SacarExit
    BY <1>1, <2>6, SacarExitSimple DEF Paso, IInv, TypeOK, TipoControl
  <2>7. CASE Ajeno \/ SemWaitExit \/ ConectarKill \/ EnviarKill \/ LiberarTcb
    BY <1>1, <2>7 DEF Ajeno, SemWaitExit, ConectarKill, EnviarKill, LiberarTcb, Paso,
       locales, IInv, TypeOK, TipoControl
  <2> QED
    BY <2>5, <2>6, <2>7
<1> QED
  BY <1>1, Invariante, PTL DEF Spec, ProcessExitNuncaAvanza

=============================================================================
