--------------------------- MODULE SistemaPruebas ---------------------------
(***************************************************************************)
(* Proofs about the three processes together, for every set of programs,   *)
(* registers of any width of at least two bytes, and any general registers. *)
(***************************************************************************)
EXTENDS SistemaProps, RegistrosPruebas

\* A process dies, or nothing happens.
Muerte ==
  /\ UNCHANGED <<pc, locales, flag_interrupt, puertos, leido, linea, vida, alta,
                 baja, ctx, hallado, programa>>
  /\ {cpu_estado', kernel', memoria'} \subseteq {"viva", "caida"}
  /\ cpu_estado = "caida" => cpu_estado' = "caida"
  /\ memoria = "caida" => memoria' = "caida"

PasoCpu ==
  \/ RecvDispatch \/ ConectarMemoria \/ CheckInterrupt
  \/ GetContext \/ RecvContext \/ RecvInstruction
  \/ DecodeExecute \/ SendSyscall \/ Readline \/ RecvUpdate
  \/ AtenderInterrupt

PasoKernel ==
  \/ PedirAlta \/ RecvAlta \/ Despachar
  \/ AtenderThreadExit \/ PedirBaja \/ RecvSinCpu

\* Every step of the specification is one of the above or one of Memoria's.
LEMMA Casos ==
  ASSUME TypeOK, [Next]_vars
  PROVE  Muerte \/ PasoKernel \/ HilosMemoria \/ (PasoCpu /\ UNCHANGED delResto)
<1>1. CASE UNCHANGED vars
  BY <1>1 DEF vars, cpuVars, Muerte, TypeOK
<1>2. CASE Kernel \/ FinKernel
  BY <1>2 DEF Kernel, FinKernel, AbortaKernel, CaeKernel, PasoKernel, Muerte,
     TypeOK, cpuVars, deMemoria
<1>3. CASE AbortaMemoria \/ AbortaSinCpu
  BY <1>3 DEF AbortaMemoria, AbortaSinCpu, CaeMemoria, Muerte, TypeOK, cpuVars
<1>4. CASE CpuNext /\ UNCHANGED delResto
  BY <1>4 DEF CpuNext, HiloDispatch, DispatchRepetido, SinMemoria,
     AbortaInstruccion, FinMain, Caer, PasoCpu, Muerte, TypeOK, delResto, deMemoria
<1> QED
  BY <1>1, <1>2, <1>3, <1>4 DEF Next, HilosMemoria


\* The process moves from one state to another.
LEMMA Mueve ==
  ASSUME UnProceso, NEW d, NEW h \in P!Estados, P!Pasa(1, d, h)
  PROVE  vida = <<d>> /\ vida' = <<h>>
<1>1. vida # <<>>
  BY DEF P!Pasa, P!En
<1>2. PICK estado \in P!Estados : vida = <<estado>>
  BY <1>1 DEF UnProceso
<1>3. vida[1] = d /\ vida' = [vida EXCEPT ![1] = h]
  BY DEF P!Pasa, P!En
<1> QED
  BY <1>2, <1>3

\* What the kernel's steps do to it.
LEMMA VidaKernel ==
  ASSUME UnProceso
  PROVE  /\ PedirAlta => vida = <<>> /\ vida' = <<"NEW">>
         /\ RecvAlta => vida = <<"NEW">> /\ vida' = <<"READY">>
         /\ Despachar => vida = <<"READY">> /\ vida' = <<"EXEC">>
         /\ AtenderThreadExit => vida = <<"EXEC">> /\ vida' = <<"EXIT">>
         /\ PedirBaja => vida = <<"EXIT">> /\ vida' = <<"FIN">>
         /\ RecvSinCpu => vida = <<"EXEC">> /\ vida' = <<"SUELTO">>
<1>1. PedirAlta => vida = <<>> /\ vida' = <<"NEW">>
  BY DEF PedirAlta, P!Crear
<1>2. RecvAlta => vida = <<"NEW">> /\ vida' = <<"READY">>
  BY Mueve DEF RecvAlta, P!Aceptar, P!Estados
<1>3. Despachar => vida = <<"READY">> /\ vida' = <<"EXEC">>
  BY Mueve DEF Despachar, P!Despachar, P!Estados
<1>4. AtenderThreadExit => vida = <<"EXEC">> /\ vida' = <<"EXIT">>
  BY Mueve DEF AtenderThreadExit, P!Salir, P!Estados
<1>5. PedirBaja => vida = <<"EXIT">> /\ vida' = <<"FIN">>
  BY Mueve DEF PedirBaja, P!Terminar, P!Estados
<1>6. RecvSinCpu => vida = <<"EXEC">> /\ vida' = <<"SUELTO">>
  BY Mueve DEF RecvSinCpu, P!Soltar, P!Estados
<1> QED
  BY <1>1, <1>2, <1>3, <1>4, <1>5, <1>6

\* initiate_registers gives a context of the type of one.
LEMMA Ceros == initiate_registers \in t_register
BY RegistrosAssumption DEF initiate_registers, t_register

\* Steps that leave the life of the process and its context alone.
LEMMA OtrosPasos ==
  /\ Muerte \/ (PasoCpu /\ UNCHANGED delResto) => UNCHANGED <<vida, alta, baja, ctx>>
  /\ GetThread \/ GetInstruction => UNCHANGED <<vida, alta, baja, ctx>>
  /\ ExecutionContext => UNCHANGED <<vida, alta, baja, ctx>>
BY DEF Muerte, delResto, deMemoria, GetThread, GetInstruction, ExecutionContext, M!Leer, M!LeerSuelto,
   Contestar, MemoriaVive

\* Every step keeps what the life of the process says of its context.
LEMMA PasoUnProceso ==
  ASSUME IInv, [Next]_vars
  PROVE  UnProceso'
<1> USE DEF IInv
<1>1. CASE UNCHANGED <<vida, alta, baja, ctx>>
  BY <1>1 DEF UnProceso, Existe
<1>2. CASE PasoKernel
  <2>1. UNCHANGED ctx
    BY <1>2 DEF PasoKernel, PedirAlta, RecvAlta, Despachar, AtenderThreadExit,
       PedirBaja, RecvSinCpu, deMemoria
  <2>2. CASE PedirAlta
    BY <2>1, <2>2, VidaKernel DEF PedirAlta, UnProceso, Existe, P!Estados
  <2>3. CASE RecvAlta
    BY <2>1, <2>3, VidaKernel DEF RecvAlta, UnProceso, Existe, P!Estados
  <2>4. CASE PedirBaja
    BY <2>1, <2>4, VidaKernel DEF PedirBaja, UnProceso, Existe, P!Estados
  <2>5. CASE Despachar \/ AtenderThreadExit \/ RecvSinCpu
    BY <2>1, <2>5, VidaKernel DEF Despachar, AtenderThreadExit, RecvSinCpu, UnProceso,
       Existe, P!Estados
  <2> QED
    BY <1>2, <2>2, <2>3, <2>4, <2>5 DEF PasoKernel
<1>3. CASE AtenderAlta
  <2>1. /\ UNCHANGED <<vida, baja>> /\ alta = "pedida" /\ alta' = "hecha"
        /\ ctx' = [p \in DOMAIN ctx \cup {1} |->
                      IF p = 1 THEN initiate_registers ELSE ctx[p]]
    BY <1>3 DEF AtenderAlta, MemoriaVive, M!Crear
  <2>2. /\ DOMAIN ctx' = DOMAIN ctx \cup {1}
        /\ ctx' \in [DOMAIN ctx' -> t_register]
    BY <2>1, Ceros DEF UnProceso
  <2> QED
    BY <2>1, <2>2 DEF UnProceso, Existe
<1>4. CASE AtenderBaja
  BY <1>4 DEF AtenderBaja, MemoriaVive, M!Terminar, UnProceso, Existe, TypeOK
<1>5. CASE UpdateContext
  <2>1. UNCHANGED <<vida, alta, baja>>
    BY <1>5 DEF UpdateContext, Contestar, MemoriaVive
  <2>2. DOMAIN ctx' = DOMAIN ctx /\ ctx' \in [DOMAIN ctx -> t_register]
    BY <1>5 DEF UpdateContext, M!Guardar, TypeOK, UnProceso
  <2> QED
    BY <2>1, <2>2 DEF UnProceso, Existe
<1> QED
  BY <1>1, <1>2, <1>3, <1>4, <1>5, Casos, OtrosPasos DEF HilosMemoria

\* The steps that are not the CPU's leave it alone, but for its ports.
LEMMA CpuQuieta ==
  ASSUME Muerte \/ PasoKernel \/ HilosMemoria
  PROVE  /\ UNCHANGED <<pc, pid, registro, instruccion, flag_interrupt, programa>>
         /\ ~Despachar => despacho' = despacho
         /\ pedido' \in {pedido, "ninguno"}
         /\ UNCHANGED cpu
<1>1. CASE Muerte
  BY <1>1 DEF Muerte, locales, puertos
<1>2. CASE PasoKernel
  BY <1>2 DEF PasoKernel, PedirAlta, RecvAlta, Despachar, AtenderThreadExit,
     PedirBaja, RecvSinCpu, cpuVars, deCpu, deMemoria, locales, puertos
<1>3. CASE HilosMemoria
  BY <1>3 DEF HilosMemoria, AtenderAlta, AtenderBaja, GetThread, ExecutionContext,
     GetInstruction, UpdateContext, M!Crear, M!Terminar, M!Leer, M!LeerSuelto, M!Guardar,
     Contestar, MemoriaVive, deCpu, locales
<1> QED
  BY <1>1, <1>2, <1>3

\* Every step keeps one dispatch in progress at most.
LEMMA PasoUnDespacho ==
  ASSUME IInv, [Next]_vars
  PROVE  UnDespacho'
<1> USE DEF IInv
<1>1. CASE Muerte \/ HilosMemoria
  <2>1. vida' = vida
    BY <1>1 DEF Muerte, HilosMemoria, AtenderAlta, AtenderBaja, GetThread,
       ExecutionContext, GetInstruction, UpdateContext, Contestar, MemoriaVive
  <2>2. ~Despachar
    BY <2>1, VidaKernel
  <2> QED
    BY <1>1, <2>1, <2>2, CpuQuieta DEF UnDespacho
<1>2. CASE PasoKernel
  <2>1. CASE Despachar
    BY <2>1, <1>2, CpuQuieta, VidaKernel DEF Despachar, UnDespacho
  <2>2. CASE ~Despachar
    BY <2>2, <1>2, CpuQuieta, VidaKernel DEF PasoKernel, UnDespacho
  <2> QED
    BY <2>1, <2>2
<1>3. CASE PasoCpu /\ UNCHANGED delResto
  <2>1. vida' = vida
    BY <1>3 DEF delResto
  <2>2. CASE RecvDispatch
    BY <2>1, <2>2 DEF RecvDispatch, Paso, UnDespacho, TypeOK
  <2>3. CASE ~RecvDispatch
    <3>1. UNCHANGED <<pid, despacho>>
      BY <1>3, <2>3 DEF PasoCpu, ConectarMemoria, CheckInterrupt, GetContext,
         RecvContext, RecvInstruction, DecodeExecute, SendSyscall, Readline,
         RecvUpdate, AtenderInterrupt, Actualizar, locales, puertos
    <3>2. CASE AtenderInterrupt
      BY <2>1, <3>2 DEF AtenderInterrupt, UnDespacho, locales, puertos
    <3>3. CASE ~AtenderInterrupt
      BY <1>3, <2>1, <2>3, <3>1, <3>3 DEF PasoCpu, ConectarMemoria, CheckInterrupt,
         GetContext, RecvContext, RecvInstruction, DecodeExecute, SendSyscall,
         Readline, RecvUpdate, Actualizar, Paso, UnDespacho
    <3> QED
      BY <3>2, <3>3
  <2> QED
    BY <2>2, <2>3
<1> QED
  BY <1>1, <1>2, <1>3, Casos

\* Every step keeps what the CPU knows of the dispatch in progress.
LEMMA PasoEnCurso ==
  ASSUME IInv, [Next]_vars
  PROVE  EnCurso'
<1> USE DEF IInv
<1>1. CASE Muerte \/ PasoKernel \/ HilosMemoria
  <2>1. memoria = "caida" => memoria' = "caida"
    BY <1>1 DEF Muerte, PasoKernel, HilosMemoria, PedirAlta, RecvAlta, Despachar,
       AtenderThreadExit, PedirBaja, RecvSinCpu, deMemoria, AtenderAlta,
       AtenderBaja, GetThread, ExecutionContext, GetInstruction, UpdateContext,
       Contestar, MemoriaVive
  <2> QED
    BY <1>1, <2>1, CpuQuieta DEF EnCurso
<1>2. CASE PasoCpu /\ UNCHANGED delResto
  <2>1. memoria' = memoria
    BY <1>2 DEF delResto, deMemoria
  <2>2. CASE RecvDispatch
    BY <2>1, <2>2 DEF RecvDispatch, Paso, EnCurso, UnDespacho
  <2>3. CASE ConectarMemoria \/ CheckInterrupt \/ AtenderInterrupt
    BY <2>1, <2>3 DEF ConectarMemoria, CheckInterrupt, AtenderInterrupt, Paso,
       EnCurso, locales, puertos
  <2>4. CASE GetContext \/ RecvContext
    BY <2>4 DEF GetContext, RecvContext, Enviar, Paso, EnCurso, locales
  <2>5. CASE DecodeExecute \/ Readline
    BY <2>5 DEF DecodeExecute, Readline, Actualizar, Enviar, Paso, EnCurso
  <2>6. CASE RecvInstruction \/ SendSyscall \/ RecvUpdate
    BY <2>1, <2>6 DEF RecvInstruction, SendSyscall, RecvUpdate, Respondido, Paso,
       EnCurso, locales, puertos
  <2> QED
    BY <1>2, <2>2, <2>3, <2>4, <2>5, <2>6 DEF PasoCpu
<1> QED
  BY <1>1, <1>2, Casos

\* Every step keeps the instruction of the CPU one of the loaded program.
LEMMA PasoDelPrograma ==
  ASSUME IInv, [Next]_vars
  PROVE  DelPrograma'
<1> USE DEF IInv
<1>1. CASE Muerte \/ PasoKernel \/ AtenderAlta \/ AtenderBaja \/ GetThread
  <2>1. UNCHANGED <<linea, pedido>>
    BY <1>1 DEF Muerte, PasoKernel, PedirAlta, RecvAlta, Despachar,
       AtenderThreadExit, PedirBaja, RecvSinCpu, cpuVars, deMemoria, puertos,
       AtenderAlta, AtenderBaja, GetThread
  <2> QED
    BY <1>1, <2>1, CpuQuieta DEF HilosMemoria, DelPrograma
<1>2. CASE ExecutionContext \/ UpdateContext
  <2>1. pc # "recv_instruction"  \/ memoria = "caida"
    BY <1>2 DEF ExecutionContext, UpdateContext, Contestar, EnCurso
  <2>2. memoria = "viva"
    BY <1>2 DEF ExecutionContext, UpdateContext, Contestar, MemoriaVive
  <2> QED
    BY <1>2, <2>1, <2>2, CpuQuieta DEF HilosMemoria, DelPrograma
<1>3. CASE GetInstruction
  <2>1. cpu.banco["PC"] \in Nat
    BY DEF TypeOK, t_register, Nombres
  <2>2. linea' \in Instruccion
    <3>1. CASE cpu.banco["PC"] < Len(programa) /\ linea' = programa[cpu.banco["PC"] + 1]
      BY <2>1, <3>1 DEF DelPrograma
    <3>2. CASE linea' \in Sueltas
      BY <3>2, SistemaAssumption
    <3> QED
      BY <1>3, <3>1, <3>2 DEF GetInstruction
  <2> QED
    BY <1>3, <2>2, CpuQuieta DEF HilosMemoria, DelPrograma
<1>4. CASE PasoCpu /\ UNCHANGED delResto
  <2>1. UNCHANGED <<linea, programa>>
    BY <1>4 DEF delResto, deMemoria
  <2>2. CASE AtenderInterrupt
    BY <2>1, <2>2 DEF AtenderInterrupt, DelPrograma, locales, puertos
  <2>3. CASE RecvContext
    BY <2>1, <2>3 DEF RecvContext, Enviar, Paso, DelPrograma
  <2>4. CASE RecvInstruction \/ SendSyscall
    BY <2>1, <2>4 DEF RecvInstruction, SendSyscall, Respondido, Paso, DelPrograma,
       locales
  <2>5. CASE RecvDispatch \/ ConectarMemoria \/ CheckInterrupt \/ GetContext
    BY <2>1, <2>5 DEF RecvDispatch, ConectarMemoria, CheckInterrupt, GetContext,
       Paso, DelPrograma
  <2>6. CASE DecodeExecute \/ Readline \/ RecvUpdate
    BY <2>1, <2>6 DEF DecodeExecute, Readline, RecvUpdate, Actualizar, Paso,
       DelPrograma
  <2> QED
    BY <1>4, <2>2, <2>3, <2>4, <2>5, <2>6 DEF PasoCpu
<1> QED
  BY <1>1, <1>2, <1>3, <1>4, Casos DEF HilosMemoria

\* Memoria only loses the context when it is told to, and only a process that
\* has not been dispatched gets a new one.
LEMMA PasoEspejo ==
  ASSUME IInv, [Next]_vars
  PROVE  Espejo'
<1> USE DEF IInv
<1>1. CASE Muerte \/ PasoKernel \/ GetThread
  <2>1. /\ UNCHANGED <<ctx, leido, cpu, pedido>>
        /\ memoria' = "viva" => memoria = "viva"
    BY <1>1 DEF Muerte, PasoKernel, PedirAlta, RecvAlta, Despachar,
       AtenderThreadExit, PedirBaja, RecvSinCpu, cpuVars, deMemoria, puertos,
       GetThread, MemoriaVive, TypeOK
  <2> QED
    BY <1>1, <2>1, CpuQuieta DEF HilosMemoria, Espejo, Existe
<1>2. CASE AtenderAlta
  <2>1. pid = 0
    BY <1>2 DEF AtenderAlta, UnProceso, UnDespacho
  <2>2. pc = "recv" /\ instruccion.op = "ninguna"
    BY <2>1 DEF UnDespacho
  <2> QED
    BY <1>2, <2>2, CpuQuieta DEF HilosMemoria, Espejo
<1>3. CASE AtenderBaja
  BY <1>3 DEF AtenderBaja, M!Terminar, Espejo, Existe
<1>4. CASE ExecutionContext
  <2>1. pc = "recv_context" /\ memoria = "viva" /\ cpu.PID = pid
    BY <1>4 DEF ExecutionContext, Contestar, MemoriaVive, EnCurso
  <2>2. pid = 1
    BY <1>4, <2>1 DEF ExecutionContext, Contestar, UnDespacho, TypeOK
  <2>3. UNCHANGED ctx /\ (Existe => leido' = ctx[1])
    BY <1>4, <2>1, <2>2 DEF ExecutionContext, M!Leer, M!LeerSuelto, Existe
  <2> QED
    BY <1>4, <2>1, <2>3, CpuQuieta DEF HilosMemoria, Espejo, Existe
<1>5. CASE GetInstruction
  <2>1. pc = "recv_instruction" /\ memoria = "viva"
    BY <1>5 DEF GetInstruction, Contestar, MemoriaVive, EnCurso
  <2>2. UNCHANGED ctx
    BY <1>5 DEF GetInstruction
  <2> QED
    BY <1>5, <2>1, <2>2, CpuQuieta DEF HilosMemoria, Espejo, Existe
<1>6. CASE UpdateContext
  <2>1. pc = "recv_update" /\ memoria = "viva" /\ cpu.PID = pid
    BY <1>6 DEF UpdateContext, Contestar, MemoriaVive, EnCurso
  <2>2. pid = 1
    BY <1>6, <2>1 DEF UpdateContext, Contestar, UnDespacho, TypeOK
  <2>3. (1 \in DOMAIN ctx') => Existe /\ ctx'[1] = cpu.banco
    BY <1>6, <2>1, <2>2 DEF UpdateContext, M!Guardar, Existe
  <2> QED
    BY <1>6, <2>1, <2>3, CpuQuieta DEF HilosMemoria, Espejo, Existe
<1>7. CASE PasoCpu /\ UNCHANGED delResto
  <2>1. UNCHANGED <<ctx, leido, memoria>>
    BY <1>7 DEF delResto, deMemoria
  <2>2. CASE RecvDispatch \/ ConectarMemoria
    BY <2>1, <2>2 DEF RecvDispatch, ConectarMemoria, Paso, UnDespacho, Espejo, Existe,
       locales
  <2>3. CASE CheckInterrupt \/ AtenderInterrupt
    BY <2>1, <2>3 DEF CheckInterrupt, AtenderInterrupt, Paso, Espejo, Existe,
       locales, puertos
  <2>4. CASE GetContext
    BY <2>1, <2>4 DEF GetContext, Enviar, Paso, Espejo, Existe, locales
  <2>5. CASE RecvContext
    BY <2>1, <2>5 DEF RecvContext, Respondido, Paso, Espejo, Existe
  <2>6. CASE RecvInstruction \/ SendSyscall
    BY <2>1, <2>6 DEF RecvInstruction, SendSyscall, Paso, Espejo, Existe, locales
  <2>7. CASE DecodeExecute \/ Readline
    <3>1. /\ pc' = "recv_update" /\ pedido' = "UPDATE_CONTEXT"
          /\ cpu'.banco = registro'
      BY <2>7 DEF DecodeExecute, Readline, Actualizar, Enviar, Paso
    <3> QED
      BY <2>1, <3>1 DEF Espejo
  <2>8. CASE RecvUpdate
    BY <2>1, <2>8 DEF RecvUpdate, Respondido, Paso, Espejo, Existe, locales, puertos
  <2> QED
    BY <1>7, <2>2, <2>3, <2>4, <2>5, <2>6, <2>7, <2>8 DEF PasoCpu
<1> QED
  BY <1>1, <1>2, <1>3, <1>4, <1>5, <1>6, <1>7, Casos DEF HilosMemoria

\* The line does not change but when Memoria stores a context.
LEMMA PasoDeSuLinea ==
  ASSUME IInv, [Next]_vars
  PROVE  DeSuLinea'
<1> USE DEF IInv
<1>1. CASE Muerte \/ PasoKernel \/ GetThread
  <2>1. /\ UNCHANGED <<ctx, cpu, pedido, linea>>
        /\ memoria' = "viva" => memoria = "viva"
    BY <1>1 DEF Muerte, PasoKernel, PedirAlta, RecvAlta, Despachar,
       AtenderThreadExit, PedirBaja, RecvSinCpu, cpuVars, deMemoria, puertos,
       GetThread, MemoriaVive, TypeOK
  <2> QED
    BY <1>1, <2>1, CpuQuieta DEF HilosMemoria, DeSuLinea, Existe, HayLinea, Linea
<1>2. CASE AtenderAlta
  <2>1. pid = 0
    BY <1>2 DEF AtenderAlta, UnProceso, UnDespacho
  <2>2. pc = "recv" /\ pedido = "ninguno"
    BY <2>1 DEF UnDespacho
  <2> QED
    BY <1>2, <2>2, CpuQuieta DEF HilosMemoria, DeSuLinea
<1>3. CASE AtenderBaja
  BY <1>3 DEF AtenderBaja, M!Terminar, DeSuLinea, Existe
<1>4. CASE ExecutionContext
  <2>1. pc = "recv_context" /\ pedido' = "ninguno"
    BY <1>4 DEF ExecutionContext, Contestar, MemoriaVive, EnCurso
  <2> QED
    BY <1>4, <2>1, CpuQuieta DEF HilosMemoria, DeSuLinea
<1>5. CASE GetInstruction
  <2>1. /\ pedido = "GET_INSTRUCTION" /\ pedido' = "ninguno" /\ memoria = "viva"
        /\ UNCHANGED <<ctx, programa>>
        /\ \/ /\ cpu.banco["PC"] < Len(programa)
              /\ linea' = programa[cpu.banco["PC"] + 1]
           \/ cpu.PID \notin DOMAIN ctx
    BY <1>5 DEF GetInstruction, Contestar, MemoriaVive
  <2>2. pc = "recv_instruction"
    BY <2>1 DEF EnCurso
  <2>3. cpu.PID = 1
    BY <2>1 DEF EnCurso, UnDespacho, TypeOK
  <2> QED
    BY <1>5, <2>1, <2>2, <2>3, CpuQuieta
    DEF HilosMemoria, DeSuLinea, Existe, HayLinea, Linea
<1>6. CASE UpdateContext
  <2>1. pc = "recv_update" /\ pedido' = "ninguno"
    BY <1>6 DEF UpdateContext, Contestar, MemoriaVive, EnCurso
  <2> QED
    BY <1>6, <2>1, CpuQuieta DEF HilosMemoria, DeSuLinea
<1>7. CASE PasoCpu /\ UNCHANGED delResto
  <2>1. UNCHANGED <<ctx, leido, linea, memoria, programa>>
    BY <1>7 DEF delResto, deMemoria
  <2>2. CASE RecvDispatch
    <3>1. pc' = "conectar" /\ pedido = "ninguno" /\ pedido' = pedido
      BY <2>2 DEF RecvDispatch, Paso, UnDespacho
    <3> QED
      BY <2>1, <3>1 DEF DeSuLinea
  <2>3. CASE ConectarMemoria \/ CheckInterrupt \/ AtenderInterrupt
    BY <2>1, <2>3 DEF ConectarMemoria, CheckInterrupt, AtenderInterrupt, Paso,
       DeSuLinea, Existe, HayLinea, Linea, locales, puertos
  <2>4. CASE GetContext
    <3>1. pc' = "recv_context" /\ pedido' = "GET_EXECUTION_CONTEXT"
      BY <2>4 DEF GetContext, Enviar, Paso
    <3> QED
      BY <3>1 DEF DeSuLinea
  <2>5. CASE RecvContext
    <3>1. /\ pc = "recv_context" /\ pedido = "ninguno" /\ pc' = "recv_instruction"
          /\ pedido' = "GET_INSTRUCTION" /\ cpu' = [PID |-> pid, banco |-> leido]
      BY <2>5 DEF RecvContext, Enviar, Respondido, Paso
    <3> QED
      BY <2>1, <3>1 DEF DeSuLinea, Existe, Espejo
  <2>6. CASE RecvInstruction \/ SendSyscall
    BY <2>1, <2>6 DEF RecvInstruction, SendSyscall, Respondido, Paso, DeSuLinea,
       Existe, HayLinea, Linea, locales, puertos
  <2>7. CASE DecodeExecute \/ Readline
    <3>1. /\ pc \in {"decode_execute", "readline"} /\ pc' = "recv_update"
          /\ pedido' = "UPDATE_CONTEXT"
          /\ registro' = decode_execute(instruccion, registro)
          /\ cpu' = [PID |-> pid, banco |-> registro']
      BY <2>7 DEF DecodeExecute, Readline, Actualizar, Enviar, Paso
    <3>2. memoria = "viva" /\ Existe =>
             HayLinea /\ instruccion = Linea /\ registro = ctx[1]
      BY <3>1 DEF DeSuLinea, Espejo
    <3> QED
      BY <2>1, <3>1, <3>2 DEF DeSuLinea, Existe, HayLinea, Linea
  <2>8. CASE RecvUpdate
    BY <2>1, <2>8 DEF RecvUpdate, Respondido, Paso, DeSuLinea, Existe, HayLinea, Linea,
       locales, puertos
  <2> QED
    BY <1>7, <2>2, <2>3, <2>4, <2>5, <2>6, <2>7, <2>8 DEF PasoCpu
<1> QED
  BY <1>1, <1>2, <1>3, <1>4, <1>5, <1>6, <1>7, Casos DEF HilosMemoria

\* Once dispatched, the process is over if it has no context.
LEMMA SinContexto ==
  ASSUME IInv, pid # 0, ~Existe
  PROVE  vida = <<"FIN">>
BY DEF IInv, UnProceso, UnDespacho, P!Estados

\* Whatever kills Memoria is still true of a system without it.
LEMMA PasoMemoriaMuereSi ==
  ASSUME IInv, [Next]_vars
  PROVE  MemoriaMuereSi'
<1> USE DEF IInv
<1>1. CASE memoria = "viva" /\ memoria' = "caida"
  <2>1. AbortaMemoria \/ AbortaSinCpu
    BY <1>1 DEF Next, vars, Kernel, PedirAlta, RecvAlta, Despachar, AtenderThreadExit,
       PedirBaja, AbortaKernel, RecvSinCpu, FinKernel, CaeKernel, HilosMemoria,
       AtenderAlta, AtenderBaja, GetThread, ExecutionContext, GetInstruction,
       UpdateContext, Contestar, MemoriaVive, deMemoria, delResto
  <2>2. UNCHANGED <<cpu_estado, vida, pedido, cpu, programa>>
    BY <2>1 DEF AbortaMemoria, AbortaSinCpu, CaeMemoria, cpuVars, puertos
  <2>3. CASE AbortaSinCpu
    BY <2>2, <2>3 DEF AbortaSinCpu, MemoriaMuereSi
  <2>4. CASE AbortaMemoria
    <3>1. pedido # "ninguno" /\ cpu.PID = pid /\ pid = 1
      BY <2>4 DEF AbortaMemoria, EnCurso, UnDespacho, TypeOK
    <3>2. CASE Existe
      BY <2>2, <2>4, <3>1, <3>2 DEF AbortaMemoria, Existe, MemoriaMuereSi
    <3>3. CASE ~Existe
      BY <2>2, <3>1, <3>3, SinContexto DEF MemoriaMuereSi
    <3> QED
      BY <3>2, <3>3
  <2> QED
    BY <2>1, <2>3, <2>4
<1>2. CASE memoria = "caida"
  <2>1. ~HilosMemoria
    BY <1>2 DEF HilosMemoria, AtenderAlta, AtenderBaja, GetThread, ExecutionContext,
       GetInstruction, UpdateContext, Contestar, MemoriaVive
  <2>2. CASE vida = <<"FIN">>
    <3>1. vida' = vida
      BY <2>1, <2>2, Casos, VidaKernel, OtrosPasos DEF PasoKernel
    <3> QED
      BY <2>2, <3>1 DEF MemoriaMuereSi
  <2>3. CASE cpu_estado = "caida"
    <3>1. ~PasoCpu
      BY <2>3 DEF PasoCpu, RecvDispatch, ConectarMemoria, CheckInterrupt, GetContext,
         RecvContext, RecvInstruction, DecodeExecute, SendSyscall, Readline,
         RecvUpdate, AtenderInterrupt, Actualizar, Paso
    <3>2. cpu_estado' = "caida"
      BY <2>1, <2>3, <3>1, Casos DEF Muerte, PasoKernel, PedirAlta, RecvAlta, Despachar,
         AtenderThreadExit, PedirBaja, RecvSinCpu, cpuVars, deCpu
    <3> QED
      BY <3>2 DEF MemoriaMuereSi
  <2>4. CASE pedido = "GET_INSTRUCTION" /\ cpu.banco["PC"] >= Len(programa)
    <3>1. pc = "recv_instruction"
      BY <2>4 DEF EnCurso
    <3>2. UNCHANGED <<pedido, cpu, programa>>
      <4>1. CASE Muerte \/ PasoKernel
        BY <4>1, CpuQuieta DEF Muerte, PasoKernel, PedirAlta, RecvAlta, Despachar,
           AtenderThreadExit, PedirBaja, RecvSinCpu, cpuVars, puertos
      <4>2. CASE PasoCpu /\ UNCHANGED delResto
        <5>1. AtenderInterrupt
          BY <2>4, <3>1, <4>2 DEF PasoCpu, RecvDispatch, ConectarMemoria,
             CheckInterrupt, GetContext, RecvContext, RecvInstruction, DecodeExecute,
             SendSyscall, Readline, RecvUpdate, Actualizar, Respondido, Paso
        <5> QED
          BY <4>2, <5>1 DEF AtenderInterrupt, puertos, delResto, deMemoria
      <4> QED
        BY <2>1, <4>1, <4>2, Casos
    <3> QED
      BY <2>4, <3>2 DEF MemoriaMuereSi
  <2> QED
    BY <1>2, <2>2, <2>3, <2>4 DEF MemoriaMuereSi
<1>3. CASE memoria' # "caida"
  BY <1>3 DEF MemoriaMuereSi
<1> QED
  BY <1>1, <1>2, <1>3 DEF TypeOK

\* What an instruction of the program leaves is a bank of registers.
LEMMA Ejecutada ==
  ASSUME IInv, DecodeExecute \/ Readline
  PROVE  registro' \in t_register /\ cpu' = [PID |-> pid, banco |-> registro']
<1>1. pc \in {"decode_execute", "readline"} /\ registro' = decode_execute(instruccion, registro)
  BY DEF DecodeExecute, Readline, Actualizar, Paso
<1>2. instruccion \in Instruccion /\ registro \in t_register
  BY <1>1 DEF IInv, DelPrograma, TypeOK
<1>3. cpu' = [PID |-> pid, banco |-> registro']
  BY DEF DecodeExecute, Readline, Actualizar, Enviar
<1> QED
  BY <1>1, <1>2, <1>3, Ejecucion

TipoCpu ==
  /\ pc \in {"recv", "conectar", "check", "get_context", "recv_context",
             "recv_instruction", "decode_execute", "readline", "recv_update"}
  /\ {pid, despacho, cpu.PID} \subseteq {0, 1}
  /\ {registro, cpu.banco} \subseteq t_register
  /\ flag_interrupt \in BOOLEAN
  /\ motivos \in Seq({"THREAD_EXIT"})
  /\ pedido \in {"ninguno"} \cup Operaciones

TipoResto ==
  /\ {cpu_estado, kernel, memoria} \subseteq {"viva", "caida"}
  /\ leido \in t_register /\ hallado \in BOOLEAN
  /\ alta \in {"no", "pedida", "hecha"} /\ baja \in {"no", "pedida", "hecha"}

\* Every step keeps the types of the variables of the CPU.
LEMMA PasoTipoCpu ==
  ASSUME IInv, [Next]_vars
  PROVE  TipoCpu'
<1> USE DEF IInv
<1>1. CASE Muerte \/ PasoKernel \/ HilosMemoria
  <2>1. despacho' \in {0, 1}
    BY <1>1, CpuQuieta DEF Despachar, TypeOK
  <2>2. motivos' \in Seq({"THREAD_EXIT"})
    <3>1. CASE AtenderThreadExit
      BY <3>1 DEF AtenderThreadExit, TypeOK
    <3>2. CASE ~AtenderThreadExit
      BY <1>1, <3>2 DEF Muerte, puertos, PasoKernel, PedirAlta, RecvAlta, Despachar,
         PedirBaja, RecvSinCpu, cpuVars, HilosMemoria, AtenderAlta, AtenderBaja,
         GetThread, ExecutionContext, GetInstruction, UpdateContext, Contestar,
         MemoriaVive, TypeOK
    <3> QED
      BY <3>1, <3>2
  <2> QED
    BY <1>1, <2>1, <2>2, CpuQuieta DEF TipoCpu, TypeOK
<1>2. CASE PasoCpu /\ UNCHANGED delResto
  <2>1. CASE RecvDispatch
    BY <2>1 DEF RecvDispatch, Paso, TipoCpu, TypeOK
  <2>2. CASE ConectarMemoria
    BY <2>2, SistemaAssumption DEF ConectarMemoria, Paso, TipoCpu, TypeOK, puertos
  <2>3. CASE CheckInterrupt \/ AtenderInterrupt
    BY <2>3 DEF CheckInterrupt, AtenderInterrupt, Paso, TipoCpu, TypeOK, locales, puertos
  <2>4. CASE GetContext \/ RecvContext
    BY <2>4 DEF GetContext, RecvContext, Enviar, Paso, TipoCpu, TypeOK, Operaciones,
       locales
  <2>5. CASE RecvInstruction \/ RecvUpdate
    BY <2>5 DEF RecvInstruction, RecvUpdate, Paso, TipoCpu, TypeOK, locales, puertos
  <2>6. CASE SendSyscall
    <3>1. motivos' \in Seq({"THREAD_EXIT"})
      BY <2>6 DEF SendSyscall, TypeOK
    <3> QED
      BY <2>6, <3>1 DEF SendSyscall, Paso, TipoCpu, TypeOK, locales
  <2>7. CASE DecodeExecute \/ Readline
    BY <2>7, Ejecutada DEF DecodeExecute, Readline, Actualizar, Enviar, Paso, TipoCpu,
       TypeOK, Operaciones
  <2> QED
    BY <1>2, <2>1, <2>2, <2>3, <2>4, <2>5, <2>6, <2>7 DEF PasoCpu
<1> QED
  BY <1>1, <1>2, Casos

\* Every step keeps the types of the other variables.
LEMMA PasoTipoResto ==
  ASSUME IInv, [Next]_vars
  PROVE  TipoResto'
<1> USE DEF IInv, TypeOK, TipoResto
<1>1. CASE Muerte
  BY <1>1 DEF Muerte
<1>2. CASE PasoKernel
  BY <1>2 DEF PasoKernel, PedirAlta, RecvAlta, Despachar, AtenderThreadExit, PedirBaja,
     RecvSinCpu, KernelVive, cpuVars, deCpu, deMemoria
<1>3. CASE HilosMemoria
  <2>1. leido' \in t_register
    <3>1. CASE ExecutionContext
      BY <3>1, SistemaAssumption DEF ExecutionContext, M!Leer, M!LeerSuelto
    <3>2. CASE ~ExecutionContext
      BY <1>3, <3>2 DEF HilosMemoria, AtenderAlta, AtenderBaja, GetThread,
         GetInstruction, UpdateContext, M!Crear, M!Terminar, M!Guardar
    <3> QED
      BY <3>1, <3>2
  <2> QED
    BY <1>3, <2>1 DEF HilosMemoria, AtenderAlta, AtenderBaja, GetThread,
       ExecutionContext, GetInstruction, UpdateContext, Contestar, MemoriaVive, deCpu
<1>4. CASE PasoCpu /\ UNCHANGED delResto
  <2>1. cpu_estado' = cpu_estado
    BY <1>4 DEF PasoCpu, RecvDispatch, ConectarMemoria, CheckInterrupt, GetContext,
       RecvContext, RecvInstruction, DecodeExecute, SendSyscall, Readline,
       RecvUpdate, AtenderInterrupt, Actualizar, Paso
  <2> QED
    BY <1>4, <2>1 DEF delResto, deMemoria
<1> QED
  BY <1>1, <1>2, <1>3, <1>4, Casos

-----------------------------------------------------------------------------
(* The theorems                                                            *)

\* The inductive invariant holds at the start.
LEMMA Inicio == Init => IInv
<1> SUFFICES ASSUME Init PROVE IInv
  OBVIOUS
<1> USE Ceros DEF Init, CpuInit, M!Init, P!Init
<1>1. ctx \in [{} -> t_register] /\ DOMAIN ctx = {}
  OBVIOUS
<1>2. TypeOK
  <2>1. {initiate_registers} \subseteq t_register /\ <<>> \in Seq({"THREAD_EXIT"})
    OBVIOUS
  <2>2. vida = <<>> /\ vida \in Seq(P!Estados) /\ Len(vida) <= 1
    OBVIOUS
  <2>3. /\ registro \in t_register /\ cpu.banco \in t_register /\ leido \in t_register
        /\ cpu.PID = 0 /\ motivos \in Seq({"THREAD_EXIT"})
    BY <2>1
  <2>4. /\ {cpu_estado, kernel, memoria} \subseteq {"viva", "caida"} /\ pc = "recv"
        /\ pid = 0 /\ despacho = 0 /\ flag_interrupt \in BOOLEAN /\ hallado \in BOOLEAN
        /\ pedido = "ninguno" /\ alta = "no" /\ baja = "no"
    OBVIOUS
  <2> HIDE DEF Init, CpuInit, M!Init, P!Init
  <2> QED
    BY <1>1, <2>2, <2>3, <2>4 DEF TypeOK
<1>3. UnProceso
  <2>1. alta = "no" /\ baja = "no" /\ vida = <<>> /\ ~Existe
    BY <1>1 DEF Existe
  <2>2. ctx \in [DOMAIN ctx -> t_register]
    BY <1>1
  <2> HIDE DEF Init, CpuInit, M!Init, P!Init
  <2> QED
    BY <2>1, <2>2 DEF UnProceso
<1>4. DelPrograma
  BY SistemaAssumption DEF DelPrograma
<1> QED
  BY <1>1, <1>2, <1>3, <1>4 DEF IInv, UnDespacho, EnCurso, Espejo, DeSuLinea,
     Existe, MemoriaMuereSi

\* A program runs in the CPU on the registers Memoria keeps for it, and each
\* exchange between the two is the one the CPU is waiting for: the invariant
\* holds of atenter_dispatch, atenderCpu and the kernel's threads together,
\* whatever the programs.
THEOREM Conjunto == Spec => []IInv
<1>1. IInv /\ [Next]_vars => IInv'
  <2> SUFFICES ASSUME IInv, [Next]_vars PROVE IInv'
    OBVIOUS
  <2>1. /\ UnProceso' /\ UnDespacho' /\ EnCurso' /\ DelPrograma' /\ Espejo'
        /\ DeSuLinea' /\ MemoriaMuereSi'
    BY PasoUnProceso, PasoUnDespacho, PasoEnCurso, PasoDelPrograma, PasoEspejo,
       PasoDeSuLinea, PasoMemoriaMuereSi
  <2>2. vida' \in Seq(P!Estados) /\ Len(vida') <= 1
    <3>1. CASE vida' = <<>>
      BY <3>1
    <3>2. CASE vida' # <<>>
      <4>1. PICK estado \in P!Estados : vida' = <<estado>>
        BY <2>1, <3>2 DEF UnProceso
      <4> QED
        BY <4>1
    <3> QED
      BY <3>1, <3>2
  <2>3. DOMAIN ctx' \subseteq {1} /\ \A p \in DOMAIN ctx' : ctx'[p] \in t_register
    <3>1. \A p \in DOMAIN ctx' : ctx'[p] \in t_register
      BY <2>1 DEF UnProceso
    <3>2. DOMAIN ctx' \subseteq {1}
      <4>1. DOMAIN ctx \subseteq {1}
        BY DEF IInv, TypeOK
      <4>2. CASE UNCHANGED ctx
        BY <4>1, <4>2
      <4>3. CASE PasoKernel
        BY <4>1, <4>3 DEF PasoKernel, PedirAlta, RecvAlta, Despachar,
           AtenderThreadExit, PedirBaja, RecvSinCpu, deMemoria
      <4>4. CASE AtenderAlta \/ AtenderBaja \/ UpdateContext
        BY <4>1, <4>4 DEF AtenderAlta, AtenderBaja, UpdateContext, M!Crear,
           M!Terminar, M!Guardar
      <4> QED
        BY <4>2, <4>3, <4>4, Casos, OtrosPasos DEF IInv, HilosMemoria
    <3> QED
      BY <3>1, <3>2
  <2>4. TypeOK'
    BY <2>2, <2>3, PasoTipoCpu, PasoTipoResto DEF TypeOK, TipoCpu, TipoResto
  <2> QED
    BY <2>1, <2>4 DEF IInv
<1> QED
  BY <1>1, Inicio, PTL DEF Spec

\* The variables of the three processes keep their types: the registers the
\* CPU computes and stores stay 32 bits wide.
THEOREM Tipos == Spec => []TypeOK
BY Conjunto, PTL DEF IInv

\* Nothing is executed on registers other than those Memoria has, and no
\* interruption loses what was executed.
THEOREM Coherencia == Spec => []ContextoCoherente
<1>1. IInv => ContextoCoherente
  BY DEF IInv, TypeOK, UnDespacho, Espejo, ContextoCoherente
<1> QED
  BY <1>1, Conjunto, PTL

\* Memoria dies only if the CPU does, or runs past the end of the program, or
\* goes on with a thread after its kill.
THEOREM Muertes == Spec => []MemoriaMuereSi
BY Conjunto, PTL DEF IInv

-----------------------------------------------------------------------------
(* The refinement of Maquina                                               *)

\* A context is made with zeros, changed by the instruction it is at, and
\* removed; nothing else that happens is seen by the machine.
LEMMA PasoMaquina ==
  ASSUME IInv, ValoresCaben, [Next]_vars
  PROVE  [Maq!Next]_(Maq!vars)
<1> USE DEF IInv
<1>1. Maq!Cero = initiate_registers
  BY DEF Maq!Cero, initiate_registers, Nombres
<1>2. ASSUME UNCHANGED <<ctx, programa>>
      PROVE  UNCHANGED Maq!vars
  BY <1>2 DEF Maq!vars, Existe
<1>3. CASE Muerte \/ PasoKernel
  <2>1. UNCHANGED <<ctx, programa>>
    BY <1>3, CpuQuieta DEF Muerte, PasoKernel, PedirAlta, RecvAlta, Despachar,
       AtenderThreadExit, PedirBaja, RecvSinCpu, deMemoria
  <2> QED
    BY <1>2, <2>1
<1>4. CASE PasoCpu /\ UNCHANGED delResto
  BY <1>2, <1>4 DEF delResto, deMemoria
<1>5. CASE GetThread \/ ExecutionContext \/ GetInstruction
  BY <1>2, <1>5, OtrosPasos, CpuQuieta DEF HilosMemoria
<1>6. CASE AtenderAlta
  <2>1. /\ ~Existe /\ programa' = programa
        /\ 1 \in DOMAIN ctx' /\ ctx'[1] = initiate_registers
    BY <1>6, CpuQuieta DEF HilosMemoria, AtenderAlta, M!Crear, Existe
  <2>2. Maq!Cargar
    BY <2>1 DEF Maq!Cargar, Existe
  <2> QED
    BY <2>2 DEF Maq!Next
<1>7. CASE AtenderBaja
  <2>1. Existe /\ programa' = programa /\ 1 \notin DOMAIN ctx'
    BY <1>7, CpuQuieta DEF HilosMemoria, AtenderBaja, M!Terminar, Existe
  <2>2. Maq!Matar
    BY <1>1, <2>1 DEF Maq!Matar, Existe
  <2> QED
    BY <2>2 DEF Maq!Next
<1>8. CASE UpdateContext
  <2>1. /\ pedido = "UPDATE_CONTEXT" /\ memoria = "viva" /\ programa' = programa
        /\ pc = "recv_update" /\ cpu.PID = pid /\ pid = 1
    BY <1>8, CpuQuieta DEF HilosMemoria, UpdateContext, Contestar, MemoriaVive,
       EnCurso, UnDespacho, TypeOK
  <2>2. CASE ~Existe
    BY <1>2, <1>8, <2>1, <2>2 DEF UpdateContext, M!Guardar, Existe
  <2>3. CASE Existe
    <3>1. HayLinea /\ cpu.banco = decode_execute(Linea, ctx[1])
      BY <2>1, <2>3 DEF DeSuLinea
    <3>2. ctx[1] \in t_register
      BY <2>3 DEF UnProceso, Existe
    <3>3. Linea \in Instruccion
      <4>1. ctx[1]["PC"] \in Nat
        BY <3>2, RegistrosAssumption DEF t_register, Nombres
      <4>2. ctx[1]["PC"] + 1 \in 1 .. Len(programa)
        BY <3>1, <4>1 DEF HayLinea, DelPrograma
      <4> QED
        BY <4>2 DEF Linea, DelPrograma
    <3>4. Exacta(Linea, ctx[1])
      BY <2>3, <3>1 DEF ValoresCaben
    <3>5. cpu.banco = Ideal!Efecto(Linea, ctx[1])
      BY <3>1, <3>2, <3>3, <3>4, UnaInstruccion
    <3>6. 1 \in DOMAIN ctx' /\ ctx'[1] = cpu.banco
      BY <1>8, <2>1, <2>3 DEF UpdateContext, M!Guardar, Existe
    <3>7. Ideal!Efecto(Linea, ctx[1]) = Maq!Efecto(Linea, ctx[1])
      BY DEF Ideal!Efecto, Ideal!Resultado, Ideal!En32, Maq!Efecto, Maq!Resultado,
         Maq!En32
    <3>8. Maq!Ejecutar
      BY <2>1, <2>3, <3>1, <3>5, <3>6, <3>7 DEF Maq!Ejecutar, HayLinea, Linea, Existe
    <3> QED
      BY <3>8 DEF Maq!Next
  <2> QED
    BY <2>2, <2>3
<1> QED
  BY <1>3, <1>4, <1>5, <1>6, <1>7, <1>8, Casos DEF HilosMemoria

\* CPU and Memoria, with their cycle of contexts that come and go, are one
\* machine that runs one program on one bank of registers, as long as no value
\* is wider than the char obtener_registro gives (tools.c:70): for every
\* program, and with interruptions and deaths at any point.
THEOREM Implementa == Spec /\ []ValoresCaben => EjecutaComoMaquina
<1>1. Init => Maq!Init
  <2>1. Maq!Cero = initiate_registers
    BY DEF Maq!Cero, initiate_registers, Nombres
  <2> QED
    BY <2>1 DEF Init, M!Init, Maq!Init, Existe
<1>2. IInv /\ ValoresCaben /\ [Next]_vars => [Maq!Next]_(Maq!vars)
  BY PasoMaquina
<1> QED
  BY <1>1, <1>2, Conjunto, PTL DEF Spec, EjecutaComoMaquina, Maq!Spec

-----------------------------------------------------------------------------
(* What a program does on Maquina is enough to know what it does here      *)

\* Some banks of registers that p never leaves on Maquina.
Region(p) == CHOOSE K \in SUBSET t_register : Cerrado(p, K)

\* The program in Memoria is in one of those.
EnRegion ==
  /\ programa \in Programas
  /\ Existe => ctx[1] \in Region(programa)

\* There are such banks for a program that keeps within what the CPU reads.
LEMMA HayRegion ==
  ASSUME NEW p, Contenido(p)
  PROVE  Region(p) \subseteq t_register /\ Cerrado(p, Region(p))
BY DEF Contenido, Region

\* What the line reads there fits.
LEMMA RegionCabe ==
  ASSUME \A p \in Programas : Contenido(p), EnRegion
  PROVE  ValoresCaben
<1>1. Existe => Cerrado(programa, Region(programa)) /\ ctx[1] \in Region(programa)
  BY HayRegion DEF EnRegion
<1> QED
  BY <1>1 DEF ValoresCaben, Cerrado, HayLinea, Linea

\* Every step of the system is one of Maquina, and those stay there.
LEMMA PasoRegion ==
  ASSUME \A p \in Programas : Contenido(p), IInv, EnRegion, [Next]_vars
  PROVE  EnRegion'
<1>1. [Maq!Next]_(Maq!vars)
  BY RegionCabe, PasoMaquina
<1>2. Cerrado(programa, Region(programa))
  BY HayRegion DEF EnRegion
<1>3. programa' = programa
  BY <1>1 DEF Maq!Next, Maq!vars, Maq!Cargar, Maq!Ejecutar, Maq!Matar
<1>4. ASSUME Existe'
      PROVE  ctx'[1] \in Region(programa)
  <2>1. CASE UNCHANGED Maq!vars
    BY <1>4, <2>1 DEF Maq!vars, EnRegion
  <2>2. CASE Maq!Cargar
    BY <1>2, <1>4, <2>2 DEF Maq!Cargar, Cerrado
  <2>3. CASE Maq!Ejecutar
    <3>1. Existe /\ ctx[1]["PC"] < Len(programa)
          /\ ctx'[1] = Maq!Efecto(programa[ctx[1]["PC"] + 1], ctx[1])
      BY <1>4, <2>3 DEF Maq!Ejecutar
    <3> QED
      BY <1>2, <3>1 DEF Cerrado, EnRegion
  <2>4. CASE Maq!Matar
    BY <1>4, <2>4 DEF Maq!Matar
  <2> QED
    BY <1>1, <2>1, <2>2, <2>3, <2>4 DEF Maq!Next
<1> QED
  BY <1>3, <1>4 DEF EnRegion

\* If each program, by itself on one machine, keeps within what the CPU reads,
\* it does here: whatever the contexts that come and go, the interruptions and
\* the deaths, obtener_registro (tools.c:70) never loses part of a value.
THEOREM Caben == (\A p \in Programas : Contenido(p)) => (Spec => []ValoresCaben)
<1> SUFFICES ASSUME \A p \in Programas : Contenido(p)
             PROVE  Spec => []ValoresCaben
  OBVIOUS
<1>1. Init => EnRegion
  BY DEF Init, M!Init, EnRegion, Existe
<1>2. IInv /\ EnRegion /\ [Next]_vars => EnRegion'
  BY PasoRegion
<1>3. EnRegion => ValoresCaben
  BY RegionCabe
<1> QED
  BY <1>1, <1>2, <1>3, Conjunto, PTL DEF Spec

\* And so CPU and Memoria are one machine for every set of such programs.
THEOREM ImplementaContenidos ==
  (\A p \in Programas : Contenido(p)) => (Spec => EjecutaComoMaquina)
<1> SUFFICES ASSUME \A p \in Programas : Contenido(p)
             PROVE  Spec => EjecutaComoMaquina
  OBVIOUS
<1> QED
  BY Caben, Implementa, PTL

\* A program that only loads, copies and tests the values of a char is one.
LEMMA LosDirectos ==
  ASSUME NEW p \in Seq(Instruccion), Directo(p)
  PROVE  Contenido(p)
<1>0. Modulo \in Int /\ Modulo > 256 /\ "PC" \notin Generales
  BY RegistrosAssumption
<1> DEFINE K == {regs \in t_register : \A r \in Generales : Cabe(regs[r])}
<1>1. initiate_registers \in K
  <2>1. \A r \in Generales : initiate_registers[r] = 0
    BY DEF initiate_registers, Nombres
  <2> QED
    BY <2>1, <1>0, Ceros DEF Cabe
<1>2. ASSUME NEW regs \in K, regs["PC"] < Len(p), NEW i, i = p[regs["PC"] + 1]
      PROVE  Exacta(i, regs) /\ Maq!Efecto(i, regs) \in K
  <2>1. /\ regs \in t_register /\ regs["PC"] \in 0 .. Modulo - 1
        /\ \A r \in Generales : r \in Nombres /\ Cabe(regs[r]) /\ regs[r] \in 0 .. Modulo - 1
    BY <1>0, <1>2 DEF t_register, Nombres
  <2>2. /\ i \in Instruccion
        /\ i.op \in dict_protocol \ {"SUM", "SUB"}
        /\ i.op \in Calculos \cup {"JNZ"} => i.r1 \in Generales
        /\ i.op = "SET" => i.n \in -128 .. 127
        /\ i.op = "READ_MEM" => i.r2 \in Generales
    <3>1. regs["PC"] + 1 \in DOMAIN p
      BY <1>2, <2>1
    <3>2. p[regs["PC"] + 1] \in Instruccion
      BY <3>1
    <3> HIDE DEF K
    <3>3. \A k \in DOMAIN p :
            /\ p[k].op \in dict_protocol \ {"SUM", "SUB"}
            /\ p[k].op \in Calculos \cup {"JNZ"} => p[k].r1 \in Generales
            /\ p[k].op = "SET" => p[k].n \in -128 .. 127
            /\ p[k].op = "READ_MEM" => p[k].r2 \in Generales
      BY DEF Directo
    <3> QED
      BY <1>2, <3>1, <3>2, <3>3
  <2>3. Exacta(i, regs)
    BY <2>1, <2>2 DEF Exacta, Leidos, Calculos, Palabras
  <2> DEFINE pone(r, v, w) == [regs EXCEPT ![r] = v, !["PC"] = w]
  <2>4. ASSUME NEW v \in Int, -Modulo <= v, v < 2 * Modulo
        PROVE  Maq!En32(v) \in 0 .. Modulo - 1 /\ Maq!En32(v) = uint32(v)
    BY <2>4, <1>0, RegistrosAssumption, Resto DEF Maq!En32
  <2>5. Maq!En32(regs["PC"] + 1) \in 0 .. Modulo - 1
    BY <1>0, <2>1, <2>4
  <2>6. ASSUME NEW r \in Generales, NEW v \in 0 .. Modulo - 1, Cabe(v),
               NEW w \in 0 .. Modulo - 1
        PROVE  pone(r, v, w) \in K
    BY <1>0, <2>1, <2>6 DEF t_register, Nombres
  <2>7. ASSUME NEW w \in 0 .. Modulo - 1
        PROVE  [regs EXCEPT !["PC"] = w] \in K
    BY <1>0, <2>1, <2>7 DEF t_register, Nombres
  <2> HIDE DEF K, pone
  <2>8. ASSUME NEW r \in Generales, NEW v
         PROVE  [regs EXCEPT ![r] = v, !["PC"] = Maq!En32(@ + 1)] =
                  pone(r, v, Maq!En32(regs["PC"] + 1))
    BY <1>0, <2>1, <2>8 DEF pone, t_register, Nombres
  <2>9. CASE i.op = "SET"
    <3>1. i.r1 \in Generales /\ i.n \in -128 .. 127
      BY <2>2, <2>9 DEF Calculos
    <3>2. Maq!En32(i.n) \in 0 .. Modulo - 1 /\ Cabe(Maq!En32(i.n))
      <4>1. ASSUME NEW n \in -128 .. 127
            PROVE  Maq!En32(n) \in 0 .. Modulo - 1 /\ Cabe(Maq!En32(n))
        <5>1. Modulo \in Int /\ Modulo > 256
          BY <1>0
        <5>2. -Modulo <= n /\ n < 2 * Modulo
          BY <5>1
        <5>3. Maq!En32(n) \in 0 .. Modulo - 1 /\ Maq!En32(n) = uint32(n)
          BY <2>4, <5>2
        <5>4. Cabe(uint32(n))
          BY <5>1 DEF uint32, Cabe
        <5> QED
          BY <5>3, <5>4
      <4> QED
        BY <3>1, <4>1
    <3>3. Maq!Resultado(i, regs) = i.n
      BY <2>9 DEF Maq!Resultado
    <3>4. Maq!Efecto(i, regs) = pone(i.r1, Maq!En32(i.n), Maq!En32(regs["PC"] + 1))
      BY <2>9, <3>1, <3>3, <2>8 DEF Maq!Efecto
    <3> QED
      BY <2>3, <2>5, <2>6, <3>1, <3>2, <3>4
  <2>10. CASE i.op = "READ_MEM"
    <3>1. i.r1 \in Generales /\ i.r2 \in Generales
      BY <2>2, <2>10 DEF Calculos
    <3>2. Maq!En32(regs[i.r2]) = regs[i.r2]
      BY <1>0, <2>1, <2>4, <3>1 DEF uint32
    <3>3. Maq!Resultado(i, regs) = regs[i.r2]
      BY <2>10 DEF Maq!Resultado
    <3>4. Maq!Efecto(i, regs) = pone(i.r1, regs[i.r2], Maq!En32(regs["PC"] + 1))
      BY <2>10, <3>1, <3>2, <3>3, <2>8 DEF Maq!Efecto
    <3> QED
      BY <2>1, <2>3, <2>5, <2>6, <3>1, <3>4
  <2>11. CASE i.op \notin {"SET", "READ_MEM"}
    <3>1. Maq!En32(i.n - 1) \in 0 .. Modulo - 1
      BY <1>0, <2>2, <2>4 DEF Instruccion
    <3>2. \E w \in 0 .. Modulo - 1 : Maq!Efecto(i, regs) = [regs EXCEPT !["PC"] = w]
      BY <2>2, <2>5, <2>11, <3>1 DEF Maq!Efecto
    <3> QED
      BY <2>3, <2>7, <3>2
  <2> QED
    BY <2>9, <2>10, <2>11
<1>3. Cerrado(p, K)
  BY <1>1, <1>2 DEF Cerrado
<1> QED
  BY <1>3 DEF Contenido

\* For such programs nothing else has to be known.
THEOREM ImplementaDirectos ==
  (\A p \in Programas : Directo(p)) => (Spec => EjecutaComoMaquina)
<1>1. (\A p \in Programas : Directo(p)) => \A p \in Programas : Contenido(p)
  BY LosDirectos, SistemaAssumption
<1> QED
  BY <1>1, ImplementaContenidos

=============================================================================
