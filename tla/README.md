# Verification of tp_SSOO

The repository is a small distributed operating system in C: four programs
(`kernel`, `cpu`, `memoria`, `filesystem`) and a library (`utils`) that they
link. They run as separate processes and talk over TCP. This directory holds
TLA+ models of the three programs that keep state, alone and together, and of
the messages between them; the TLC runs that check them on small instances; and
proofs, checked by TLAPS, of every safety property the passing runs check, for
every value of the parameters: of the kernel, of Memoria, of the three programs
together, of the instructions of the CPU and of the messages; and that each
detailed model implements its abstract one.

Names of definitions and variables are those of the source, which is in Spanish
and English; comments are in English.

## The system

| Part | State | Operations | Source |
|---|---|---|---|
| Kernel: planner | `process_list`, `new_queue`, `ready_list`, `blocked_queue`, `exit_queue`; `sem_new`, `sem_ready`, `sem_exec`, `sem_exit`; one mutex per list | `ready_tcb`, `exit_tcb`, `exec_tcb` (one detached thread each), `main` | `kernel/src/main.c`, `operaciones_kernel.c` |
| Kernel: client of Memoria | the PCBs and TCBs it allocates | `process_create`, `thread_create`, `thread_cancel` | `kernel/src/operaciones_memoria.c`, `tools.c` |
| Kernel: syscalls | as the planner | the cases of `atender_motivo` | `kernel/src/operaciones_cpu.c` |
| Memoria: requests of the kernel | `process_list`; each process's `TIDs` list; each thread's instructions and registers | `process_create`, `thread_create`, `thread_cancel`; one detached thread per connection | `memoria/src/main.c`, `kernel_tasks.c`, `tools.c` |
| Memoria: requests of the CPU | as above | `execution_context`, `get_instruction`, `update_context`, in one thread | `memoria/src/cpu_tasks.c` |
| CPU: instruction cycle | the registers, the PID and the instruction of the dispatch thread | `fetch`, `decode_execute`, `update_context` | `cpu/src/operaciones_memoria.c`, `tools.c` |
| CPU: servers | `flag_interrupt`, the connections | `atenter_dispatch`, `dispatch`, `atender_interrupt`, `send_syscall`, `main` | `cpu/src/operaciones_kernel.c`, `main.c` |
| Protocol | buffers and packets | `buffer_*`, `crear_paquete`, `enviar_paquete`, `enviar_buffer`, `buffer_recv`, and the fields each request writes and its handler reads | `utils/src/utils/protocolo.c` and the callers |
| Sockets, configuration, logs | none | `crear_conexion`, `esperar_cliente`, `atender_cliente` | `utils/src/utils/` |
| Filesystem | none | answers a handshake | `filesystem/src/` |

How they interact:

- The kernel opens one connection to Memoria per request and, for
  `PROCESS_CREATION` only, waits for a byte. It has one connection to the CPU's
  dispatch port: `exec_tcb` sends a PID and TID and waits for the syscall
  (*motivo*) with which the CPU gives the thread back. The CPU sends it from
  within the loop that runs the program, if the program gets to one.
- The CPU has one connection to Memoria, and on it asks for execution contexts
  and instructions and stores registers.
- Inside the kernel the three planner threads hand TCBs to each other through
  the lists; a semaphore counts what is in `new_queue`, `ready_list` and
  `exit_queue`, and `sem_exec` limits what runs. `process_create` is called by
  three of the four threads.
- Inside Memoria every connection has a thread, and all of them use
  `process_list` and the lists that hang from it. `mutex_process_list` covers
  the additions to `process_list` and the search in it. Nothing covers the
  `TIDs` lists or the TCBs.

What is hard in it: lists and semaphores that have to agree although they
change under different locks or none; a refused creation that is retried by
another thread; TCBs freed by one thread and used by another; answers that
never come; the consumer of a semaphore waiting on it inside a handler; threads
of Memoria that change a list while others walk it. `PROJECT.json` lists each
hazard with its line and the properties that cover it.

What would make each part correct:

- *Planner*: no thread takes from an empty list; a process that Memoria has not
  confirmed does not run; what runs is registered; a TCB is in one list at a
  time and in none once freed; what is refused is tried again; what ends is
  announced to Memoria.
- *Memoria*: an answered process stays loaded, and its context is the last one
  stored for it, until its kill is asked; requests for one process do not change
  another; every creation is answered; a request does not bring it down.
- *CPU*: an instruction does what it means on 32-bit registers; the program runs
  as on one machine although its registers live in Memoria; an interruption
  takes it out of the CPU with nothing lost; a program that ends is taken out.
- *Protocol*: what a handler reads is what was called, what a caller reads is
  what was answered to that call, no buffer overflows, and nobody waits for a
  byte that is not sent.

## Modules

| Module | What it is |
|---|---|
| `Planificador` | Abstract specification: the life of a process in the kernel |
| `Kernel` | The kernel process: state, one action per blocking call or critical section |
| `KernelProps` | Its properties, the refinement of `Planificador`, and the inductive invariants `IInv` and `Reparto` |
| `Contextos` | Abstract specification: one execution context per process |
| `Memoria` | The memoria process and what its two clients ask of it |
| `MemoriaProps` | Its properties, the refinement of `Contextos`, and the inductive invariant `IInv` |
| `Maquina` | Abstract specification: one program on one bank of registers |
| `Registros` | The registers, and what each instruction does to them, as in the C code |
| `Instrucciones` | One instruction on any registers: `Registros` against `Maquina` |
| `Cpu` | The cpu process: dispatch, interrupt and main threads, the instruction cycle |
| `Sistema` | `Cpu`, `Planificador` for the kernel and `Contextos` for Memoria, composed |
| `SistemaProps` | Its properties, the refinement of `Maquina`, and the inductive invariant `IInv` |
| `Bytes` | A `uint32_t` in a buffer |
| `Protocolo` | The requests and answers, byte by byte, over TCP |
| `ProtocoloProps` | Their properties, and the inductive invariant `IInv` |
| `KernelPruebas`, `RepartoPruebas` | Proofs about `Kernel`; the second, from the first, where each TCB is and the refinement |
| `MemoriaPruebas` | Proofs about `Memoria`, and the refinement |
| `RegistrosPruebas`, `InstruccionesPruebas` | Proofs about the registers and one instruction |
| `SistemaPruebas` | Proofs about the three programs together, and the refinement |
| `BuffersPruebas`, `ProtocoloPruebas` | Proofs about the operations on buffers, and about the connections |
| `MCKernel`, `MCMemoria`, `MCInstrucciones`, `MCSistema`, `MCProtocolo` | Instances for TLC |

How they compose:

    Planificador        Contextos            Maquina
        ^                  ^                 ^      ^
        | Planifica        | Refina          |      | EjecucionFiel
      Kernel            Memoria   EjecutaComo|    Instrucciones
                                   Maquina   |      |
    Planificador + Contextos + Cpu  =  Sistema   Registros
                                \__________________/

The detailed models of the kernel and of Memoria would be too large to put side
by side with the CPU, so `Sistema` takes from each the abstract specification
that its own run shows it implements: their actions (`P!Despachar`, `M!Guardar`)
are conjuncts of the actions of `Sistema`.

### Kernel

A PCB is its PID (the k-th one allocated), and a TCB an index in `tcb`, the heap
of the TCBs allocated so far; `libre` marks the freed ones, so a pointer to a
freed TCB stays in whatever list still has it. `TIDs[pid]` is the list of the
PCB. `pc` says where each of the four threads is. Its labels are named after the
call the thread is about to make: `sem_ready` is the `sem_wait(&sem_ready)` of
`exec_tcb`, `recv` the wait for the answer of Memoria, `buffer_recv` the wait for
the CPU.

One action is one blocking call, or one section under a mutex, together with
the local code beside it. `process_create` is therefore nine actions that any of
three threads takes (`ProcessCreate(h)`): allocation and connection, three
outcomes of `recv`, and then either the addition to `ready_list`, the addition
to `process_list` and the post, or the addition to `new_queue` and the post.
That separation matters: the code queues the TCB before its process is
registered. `atender_motivo` is one action per syscall (`AtenderX`), up to the
next blocking call.

Faults of the C program are modelled as what they do:

- an uninitialised `TID` or `file_path` is any value of `Basura`, or a fault;
- a NULL or a bad connection that is dereferenced, and `abort()`, take the
  process to `estado = "abortado"`;
- `res` in `process_create` is 0, that is `SUCCESS`, before `recv` writes it:
  with no answer the kernel goes on as if confirmed (`RecvSinRespuesta`);
- after the CPU dies `exec_tcb` reads a motivo from uninitialised memory:
  nothing matches (`RecvSinCpu`) or it faults (`FallaSinCpu`).

Memoria and the CPU are what the kernel sees of them. Memoria answers `SUCCESS`
or `FAILURE` or dies. The memoria of this commit never sends `FAILURE`, but the
kernel has code for it (`operaciones_memoria.c:59-67`), so it is modelled. The
CPU answers a dispatch with any syscall.

### Memoria

`TIDs[pid]` is the linked list, in order, and `cuenta[pid]` its
`elements_count`, which is what `list_size` reads. `list_add` comes from the
commons library and is modelled from its use: it walks to the end (`visto` is
what it walked) and links after the last element seen. Two additions that
overlap lose one element and still count two; a later `list_add`, which walks as
many links as the count says, then runs past the end (`AbortaLista`). The
increment of the count, and `list_remove_element`, are taken as atomic. `main`
accepts a client and shakes hands with it in one step (`Aceptar`): a client that
has connected and keeps `main` waiting for its handshake is one not yet accepted.

A lookup that finds nothing gives NULL, which every caller dereferences
(`AbortaNull`). For the CPU's lookups that happens when the thread was killed
(`SinInvocador`). For the kernel's requests (`SinProceso`, `SinVictima`) the guard
is there and these clients never make it true, which `MuerteJustificada` relies
on: it has no clause for them.

The clients are part of the model because what they can ask depends on what was
answered. The kernel asks for a thread of a process it has an answer for, and
kills each main thread at most once: that is the theorem `Pedidos` of the kernel.
The CPU asks for TID 0, because only main threads are dispatched (`SoloMains`),
for any line up to the one after the last, before the kill of the thread, during
it or after it: the kernel sends the kill from `exit_tcb` while nothing makes the
CPU stop. What it then finds in a freed TCB is any bank (`ExecutionContext`), and
what it stores there may be the memory of a TCB allocated since
(`UpdateContext`). `BasuraOpera` says
whether the three bytes that `enviar_paquete` leaves uninitialised after every
packet (`protocolo.c:291`) may look like an operation.

The program counter stands for the eleven registers: they are all set to 0,
stored and sent together. `READ_MEM` and `WRITE_MEM` only log.

`Contextos` is what the clients may rely on: a process has a context from its
creation until the removal of its thread, it starts at 0, a read gives the last
one stored, and nothing done for one process touches another's. That is for
processes there are. Of one that is gone nothing is promised (`LeerSuelto`,
`GuardarSuelto`): a read gives anything, and a store may land in another's
context, as a store in a freed TCB may. The mapping takes `ctx` from the main TCB
of each process from its `malloc` to `take_thread`. `Contextos` takes the set of banks as a constant: numbers for
`Memoria`, the registers of `Registros` for `Sistema`.

### Registros, Instrucciones and Maquina

A bank of registers is a function from the names of the registers to
`0..Modulo-1`; `Modulo` is 2^32 in the code. `obtener_registro` is declared
`char` and its callers store what it returns in a `uint32_t`, so it is
`uint32(char(v))`: the low byte with its sign extended. `set_registro` takes an
`int`; on `PC` it takes away 2, since lines are counted from 1 and the cycle adds
1. `decode_execute` is a function from an instruction and a bank to a bank. A
word the dictionary does not have gives NULL, which is 0 and so `INSTRUCCION_SET`
(`Caso`). A line without the words its case reads is `"incompleta"`: `strcmp`,
`atoi` or `dictionary_get` is given NULL, and the CPU dies there.

`Maquina` says what instructions mean with none of that: SUM is the sum modulo
the width, JNZ n goes to line n. `Instrucciones` runs one instruction on any
registers, and `EjecucionFiel` compares the two when what the instruction reads
with `obtener_registro` fits in a `char` (`Exacta`).

### Cpu and Sistema

`Cpu` has the three threads. The dispatch thread is a `pc` with a label for each
point where it can be interleaved: the wait for a dispatch, the connection to
Memoria, the test of `flag_interrupt`, and each of the three exchanges with
Memoria as a request (`GetContext`, `RecvContext` which also sends the next
request, `DecodeExecute`) and an answer. What is in the connection is `pedido`,
`cpu`, `leido` and `linea`. `readline` is the pause `send_syscall` makes for the
operator.

In this commit every syscall but `THREAD_EXIT` calls `send_syscall` with a string
where the number of arguments goes, and dies; `LOG` passes a number as a format
string, and dies unless it is 0, a NULL the C library may put up with
(`AbortaInstruccion`, `SobreviveLog`). `cpu` does not compile as it is (`recurso1` is not
declared, `cpu/src/operaciones_memoria.c:106`), so its behaviour is what the
source says.

`Sistema` adds the kernel and Memoria for the one process that ever gets to the
CPU (theorems `GradoUno` and `Presupuesto`, with the `sem_exec` of the code).
Memoria's answer to the CPU is two steps, `get_thread` (`hallado`) and the rest,
since the kill of the thread may come in between; it then answers with what
`free` left of the registers (`Basura`) or of the list of lines (`Sueltas`), or
dies. The kernel and the CPU may die by the faults the code has (`AbortaKernel`,
`SinMemoria`, `AbortaInstruccion`) and whenever their operators end them
(`FinKernel`, `FinMain`). Memoria dies by its faults only (`AbortaMemoria`,
`AbortaSinCpu`): what the kernel does when it dies of anything else is in
`Kernel`. Once Memoria is gone, garbage the CPU would read as a context or as an
instruction is taken to end it.

### Protocolo

One behaviour is one kind of connection: the kernel's to Memoria, a connection
for each call; the CPU's to Memoria and the kernel's to the CPU, one connection
for all. A call is a record of fields. `enviar_paquete` gives the bytes sent: a
code of one byte, the size that `buffer_create` was given (`Tamano`, which the
callers count by hand), the fields in the order the caller adds them (`Paquete*`)
and three bytes nobody wrote. The handler reads one byte, four, and `size` with a
`recv` each, and takes the fields in *its* order (`Lee*`). An answer is one byte
or a buffer, with its size and offset (`enviar_buffer`, `buffer_recv`).

The handlers of Memoria answer as they take the call (`RecvStream`). `dispatch` of
the CPU does not: it goes into its loop of instructions (`srv = "dispatch"`), where
a syscall sends a motivo and the loop goes on (`EnviarMotivo`), until
`check_interrupt` ends it (`Interrumpir`). So a DISPATCH has no answer, one, or
more than one, of which the kernel takes the first; `MaxMotivos` bounds them. On
that connection there is one call: `sem_exec` starts at 1 and is never posted
(`Presupuesto`).

TCP may deliver any first part of what is on its way (`LlegaIda`, `LlegaVuelta`;
`MaxCortes` bounds how many times it is not all of it). A `recv` without
`MSG_WAITALL` that finds less than it asked for takes what there is (`Corto`);
what follows is out of step and the behaviour ends there, as it does when one of
the three spare bytes is taken for an operation (`TomarBasura`): nothing in the
code notices either. Connections of the kernel share no state in this module, so
one at a time is enough.

## What the models show

### One process at a time

The kernel conserves processes in flight. Each call of `process_create` makes one
*ficha*, in `new_queue` or in `ready_list` with its post; `ready_tcb` only turns a
refused one into a new attempt; `exec_tcb` consumes one in each dispatch; and of
the things that happen after a dispatch only the syscall `PROCESS_CREATE` makes
another. So there is never more than one, and there is none while `exec_tcb`
serves a thread (`UnaSolaFicha`), *whatever* `sem_exec` starts at. It follows
that:

- no thread of the kernel takes from an empty list (`SemaforosRespaldados`),
  although pushes and pops of `new_queue` use different mutexes. The exception
  is `THREAD_JOIN`, whose `list_remove` on `ready_list` always finds it empty
  and moves NULL;
- the CPU only gets main threads, each once (`SoloCorrenPrincipales`). A thread
  made by `THREAD_CREATE` is queued and never runs;
- `PROCESS_EXIT` is a dead end: `send_pid_exit` waits for `sem_ready`, which
  only the waiting thread could cause to be posted (`ProcessExitNuncaAvanza`).
  Everything after it, `send_to_mem_process_kill` included, is dead code, and
  so is the wake-up of joined threads in `exit_tcb`;
- Memoria is never asked for what would kill it (`PedidosLegales`): while it
  lives, a `THREAD_CREATION` is for a process it confirmed and has not been told
  the end of, and a `THREAD_KILL` for a main thread that ran, once;
- as `sem_exec` is never posted, a run has at most as many dispatches as its
  initial value, which is 1 (`DespachoPresupuestado`);
- a freed TCB stays in the `TIDs` list of its process, but by the time `exit_tcb`
  frees one nobody is left to look a thread up there (`SinLeerLiberado`): a kernel
  whose `exec_tcb` went on serving the thread would read it.

`DespachadoConfirmado` is about a Memoria that lives. When it dies before it
answers, the process goes to READY all the same (`v_sin_respuesta`).

### Memoria

An answered process stays loaded (`RespondidoCargado`) even if the list races
lose threads, because the main thread is linked before the answer and the
threads that get lost are later ones. Memoria dies only for the causes
`MuerteJustificada` names: a program file that does not exist, the CPU's
connection lost or out of step, the CPU using a thread a kill has taken,
the CPU past the last line of its program, or a `TIDs` list that two threads
changed at once. Whatever its clients do, Memoria implements `Contextos`
(`Refina`); what a CPU that goes on with a killed thread can spoil is what
`Contextos` says, and no more. No list ever holds a freed TCB, and the CPU uses
one only after the kill of the process it asked about took it (`SinColgados`).

### Instructions

- `obtener_registro` is exact for the values a `char` holds, and for no other
  (`LecturaExacta`): 0 to 127, and the last 128 of the 32-bit range, which are the
  small negative numbers. A SET may store any `int`, so a program with
  `SET AX 200` and `SUM BX AX` adds 4294967240.
- When what an instruction reads fits in a `char`, it does what it means
  (`EjecucionFiel`), wraparound included: a JNZ to line 0 or 1 takes the program
  counter below 0 and the increment brings it back.

### The three together

- Between the answer to its first `GET_EXECUTION_CONTEXT` and the end of the
  process, the CPU's registers are those a living Memoria has, but for the time an
  `update_context` is in course (`ContextoCoherente`). So an interruption loses
  nothing, and contexts that are fetched and stored for each instruction amount
  to a program that runs on one bank (`EjecutaComoMaquina`), as long as none of
  its values loses its high bytes in `obtener_registro` (`ValoresCaben`).
- Nothing ends a program but its `THREAD_EXIT`, an interruption or a death; and
  even after `THREAD_EXIT` the CPU goes on with the thread. Memoria then dies if
  the CPU asks for it after the kill. It also dies, for any program, when the
  program counter passes the last line (`MemoriaMuereSi` has no other cause).
- An interruption stops the program in course (`InterrupcionSaca`) and every
  later one, since the flag is never raised again.
- The kernel is not told: it waits for a motivo that will not come, which is why
  `Concluye` has the flag as an alternative.

### Messages

- Every packet and answer the programs can send is filled exactly, and is read
  field by field as it was written (`SinDesborde`, `EntregaFiel`,
  `RespuestaFiel`). The C code keeps the room, the writes and the reads in three
  places.
- Only a delivery that TCP cut makes a `recv` come short (`CortoSoloSiParte`);
  then the code goes on out of step.
- The two ends wait for each other in one case only (`EsperaMutuaSoloSinMotivo`):
  an interruption that comes before the first syscall of a program leaves the
  kernel in `buffer_recv` and the CPU in the `recv` of `atenter_dispatch`, for ever.
  Nothing else does, whatever TCP cuts.
- Each step of the messages of a call brings its end nearer (`Avanza`): its handler
  takes it, or there is less to deliver and to read than before. That is about
  bytes: the loop of instructions of `dispatch`, which may have no end, is apart.
  With the fairness below, every call to Memoria ends, and a DISPATCH that has
  been read ends if it gets a motivo (`LlamadaTermina`).
- After a `THREAD_EXIT` the CPU goes on with the program and may send a second
  motivo. The kernel takes the first whole, even if the second arrives with it
  (`RespuestaFiel`), and never reads the other: it makes no second dispatch.
- The answer to `PROCESS_CREATION` is one byte and the kernel waits for four with
  `MSG_WAITALL`: the call ends because Memoria closes the connection, and reads
  the right number because the other three bytes of the variable were 0
  (`LlamadaTermina`, `RespuestaFiel`).

### Disagreements with the comments of the source

Five are runs that expect a violation, and findings in `PROJECT.json`:

- `PROCESS_EXIT` sends no TCB to EXIT (`v_process_exit`);
- the obligatory log of the end of a thread reads a TCB that may be freed
  (`v_log`);
- a process goes to READY with no answer, when Memoria dies before it gives one
  (`v_sin_respuesta`);
- the CPU goes on with a thread after its `THREAD_EXIT` (`v_thread_exit`);
- the CPU goes on as if its context were stored, when Memoria dies before it says
  so (`v_update`), although the code means to abort.

Others can be read in the definitions and have no run of their own:
with HRRN, which is read as CMN, the first choice of a thread dispatches NULL
(`DespacharNull`, which `seguridad` explores); Memoria numbers a thread with the size of a list it reads with no
lock (`ContarHilos`), so two later threads of a process may share a TID - which
takes two creations, and the kernel of this commit, which runs one thread in all,
asks for one at most; `AtenderThreadCancel` queues the TCB and posts nothing, so
Memoria is never told of the cancelled thread; `AtenderThreadJoin` moves NULL, since
`ready_list` is empty while a thread runs.

## Runs

| Run | Specification, bounds | Question |
|---|---|---|
| `seguridad` | `Spec`; 3 dispatches, 3 failures, every syscall, FIFO or CMN | Is the kernel safe, in all interleavings, with both peers dying at any moment? Does it ask Memoria only for what it can serve? Does it implement `Planificador`? Do `IInv` and `Reparto` hold? |
| `vivacidad` | `FairSpec`; 1 dispatch as in the code, 3 failures, every syscall | Are refused processes retried until one runs? Does an exited thread reach Memoria? |
| `carreras` | `Spec`; 2 processes, 4 connections, symmetric, every operation; a missing file | What survives the races of Memoria, and a CPU that goes on with killed threads? Does it implement `Contextos`? |
| `contextos` | `FairSpec`; 2 processes, 3 connections; a missing file; `BasuraOpera` | Is nothing left dangling, and is every creation answered? Does `IInv`, which includes `TypeOK`, hold? |
| `instrucciones` | every instruction on every pair of boundary values; `Modulo` 1024 | Does each instruction do what it means? |
| `sistema` | `FairSpec`; 7 programs, 2 general registers, `Modulo` 512 | Do the three programs together run a program as one machine, end it, and stop when interrupted? Does `IInv`, which includes `TypeOK`, hold? |
| `protocolo` | `FairSpec`; 2 calls to Memoria or 1 DISPATCH with up to 2 motivos, 2 cuts | Does every message arrive as it was sent? When do the two ends wait for each other, does each step bring a call nearer to its end, and which calls end? Does `IInv` hold? |
| `v_*` | one property each | A statement of the source that the code contradicts |

Why the bounds are enough:

- *`SemExecInicial`* is 1 in the code. `seguridad` uses 3, and the behaviours of
  the code are among those it explores: each step of a kernel with a lower value
  is a step of one with a higher value, since `sem_exec` is only ever taken.
  With 1, no second dispatch could show that the invariants survive one.
  `vivacidad` uses the code's own value, since a semaphore that runs out matters
  to progress.
- *`MaxFallas = 3`* lets the first process be refused by `main`'s attempt and
  twice by `ready_tcb`'s, or later ones through `PROCESS_CREATE`. TCBs need no
  bound of their own: each takes a refusal or a dispatch.
- *`Basura = {0, 7}`*: an uninitialised TID that equals the main thread's, and one
  that equals nothing's. Those are the cases `get_thread` can tell apart.
- *Connections* of Memoria: each carries one request, as in the code. Two processes and one
  or two other requests are the least in which two creations of threads of one
  process overlap, with or without a removal, while another process exists; the
  fourth connection of `carreras` adds the request that finds the damaged list.
- *Programs* have one line: the line fetched and the line past the end differ.
- *`Modulo`* stands for 2^32, which TLC's integers do not reach. What the code
  does at a byte (127, 128, 255, 256) and at the end of the register
  (`Modulo - 128`, `- 1`) needs two bytes to be told apart; the theorems of
  `InstruccionesPruebas` hold of any width.
- *Programs* of `Sistema`: `test2` is one of the repository's, `test` one up to the
  line the CPU dies at; a loop that ends, with `THREAD_EXIT` twice; one that never
  does; one with no last syscall; a jump to before line 1; a LOG of 0 and a line
  that is too short. They end in each of the ways a program can: killed,
  interrupted, past the end, with the CPU. Two general registers are as many as an
  instruction names. `Sueltas` has a line that computes, one that kills the CPU and
  one that does not. All seven programs are `Contenido`: `MCSistema` computes the banks each goes through on `Maquina` and
  assumes they are closed, so TLC checks on them the hypothesis of `Caben`.
- *`MaxLlamadas = 2`*: a second call on a connection finds what the first one left
  (the three spare bytes, the size last read). *`MaxCortes = 2`*: one cut in the
  request and one in the answer, or two in one message, at any byte. Values take
  one to four bytes and no two fields of a message have the same, so a shifted
  or crossed field shows. *`MaxMotivos = 2`*: the motivo that the kernel takes and
  one that comes after it. Numbers of 2^31 and more are beyond TLC. The theorems of
  `ProtocoloPruebas` hold for any calls and cuts, and numbers of 32 bits.
- *Symmetry* over connections is sound in `carreras`: they are used alike and the
  run has no liveness property.

The bounds enter as constants: `MaxFallas`, `SemExecInicial`, `Conexiones`,
`PIDs`, `Programas`, `Modulo`, `MaxLlamadas`, `MaxCortes` and `MaxMotivos`.

`CHECK_DEADLOCK FALSE` is set everywhere because these programs may stop: the
kernel may end or abort, `exec_tcb` blocks for ever once `sem_exec` runs out or
inside `PROCESS_EXIT`, and Memoria waits for clients that may never come.

### Fairness

The host runs each thread that can run, so the kernel has weak fairness for each
of its four threads, and Memoria for `main`'s accept loop and for each
connection's thread. `HiloExec` leaves out the arrival of a syscall: the CPU is
under no obligation to give a thread back. Nor are the operator's end of line
(`FinMain`), the deaths of the peers, the requests of clients or the loss of a
connection fair. Memoria's answer is part of the waiting thread's fairness: a
live memoria answers, which is `CreacionRespondida` on its side. Liveness
properties therefore have "or the process ended" (or Memoria died) as an
alternative.

`Sistema` has weak fairness for the kernel's step, for the two threads of Memoria
that serve the kernel, for the one that serves the CPU, answering or aborting,
and for the CPU's dispatch thread. The operator's end of line (`Readline`,
`FinMain`, `FinKernel`), the interruption and the death of a server after its
client (`AbortaSinCpu`) may never happen. `Protocolo` has it for the delivery of
what was sent, each way, and for each end reading what has arrived. New calls
need not be made, and nothing is asked of the loop of `dispatch` (`Bucle`): the
program may never make a syscall, or never end, and the interruption is the
operator's.

## Proofs

`KernelPruebas` proves, from `KernelAssumption` only (the initial value of
`sem_exec` and the number of failures are any naturals, the syscalls any subset,
`Basura` any set of naturals, either algorithm):

| Theorem | Statement |
|---|---|
| `Invariante` | `Spec => []IInv` |
| `Tipos` | `Spec => []TypeOK` |
| `Respaldo` | `Spec => []SemaforosRespaldados` |
| `GradoUno` | `Spec => []UnaSolaFicha` |
| `SoloMains` | `Spec => []SoloCorrenPrincipales` |
| `Presupuesto` | `Spec => []DespachoPresupuestado` |
| `Registrado` | `Spec => []DespachadoRegistrado` |
| `SinSalida` | `Spec => ProcessExitNuncaAvanza` |

The properties are not inductive. `UnaSolaFicha` needs to know that a refused
process is in `new_queue` while its post is pending, that the thread at
`sem_exec` holds the only element of `ready_list`, that no TCB whose TID some
other thread waits for reaches `exit_tcb` (otherwise `thread_back_to_ready`
would post `sem_ready`), and that before `planificar` no other thread exists.
`IInv` says all that, in conjuncts:

- `Arranque`: until `planificar` only `main` exists;
- `Construido`: the PCB a creator works on exists, and the first TCB of every
  PCB is its main thread;
- `ColaNew`: `new_queue` holds what `sem_new` counts, plus what was taken and
  not yet popped or pushed and not yet posted;
- `ColaReady`: the process in flight is alone in `ready_list` or not there yet,
  and is registered, or about to be by the thread that queued it;
- `Despachado`: what is being served is the main thread of a registered process,
  and `ready_list` is empty while it may still create one;
- `ColaExit`: `exit_tcb` has nothing to do until the last thread to run makes
  `THREAD_EXIT`;
- `SinRepetir`: a main thread on its way to the CPU has not been there;
- `TypeOK`, `UnaSolaFicha`, `DespachoPresupuestado`.

The argument is the usual one: `Init => IInv`; `IInv /\ [Next]_vars => IInv'`,
with one lemma per conjunct and in it one case per action; and `IInv` implies
each property. `SinSalida` uses `IInv` in each step: at `process_exit` no ficha
exists, so `sem_ready = 0`.

`RepartoPruebas` goes on from it, with the same assumption:

| Theorem | Statement |
|---|---|
| `Repartido` | `Spec => []Reparto` |
| `Confirmado` | `Spec => []DespachadoConfirmado` |
| `UnLugar` | `Spec => []UnSoloLugar` |
| `TidsVivos` | `Spec => []SinLeerLiberado` |
| `Pedidos` | `Spec => []PedidosLegales` |
| `Implementa` | `Spec => Planifica` |

`Reparto` is inductive given `IInv`. It says where each TCB is:

- `PrincipalesPropios`: the main TCB of a process is in no other `TIDs` list;
- `EnCurso`: what `exec_tcb` serves was dispatched, and it queues the TCB of a new
  thread when nothing else is queued;
- `UnoPorVez`: one TCB at a time is queued, running or on its way out, and all
  that `THREAD_JOIN` blocks is NULL;
- `Despedida`: once `exit_tcb` has something to do there is no ficha, and once it
  has freed a TCB nothing is queued;
- `Confirmando`: what a creator is about to queue is a process Memoria has
  answered for;
- `Avisos`: `exit_tcb` works for the thread that was dispatched last, and the TCBs
  it has freed, or is about to free, are exactly those it told a living Memoria
  about.

`PedidosLegales` follows from the last two, and it is what `Memoria` takes of its
client. A second `THREAD_KILL` would need `exit_tcb` to work for a thread it has
told Memoria about, which `Avisos` and the state of `exit_queue` exclude; a
`THREAD_CREATION` for an ended process would need `exec_tcb` to serve a thread
while `exit_tcb` is done with it, which `Despedida` excludes.

The refinement maps each PCB to the life of its main thread. Six kinds of step
change one: the allocation of a PCB is `Crear`; `add_ready` of a main TCB is
`Aceptar`; the dispatch is `Despachar`; `THREAD_EXIT`, or a `THREAD_CANCEL` of the
thread that runs, is `Salir`; the `free` of the TCB is `Terminar`; and whatever
takes `exec_tcb` back to its loop without queueing the TCB is `Soltar`. Every
other step stutters (`SinNovedad`). `Reparto` is what makes each of them move one
life and from the right state: a TCB that two processes shared would move two, and
one that was queued while another runs would be accepted too soon.

`MemoriaPruebas` proves, from `MemoriaAssumption` (PIDs are positive, each
file that exists has some number of lines, `Cpu` is none of the connections,
`BasuraOpera` is Boolean; any sets of connections, PIDs, files and
operations):

| Theorem | Statement |
|---|---|
| `Invariante` | `Spec => []IInv` |
| `Tipos` | `Spec => []TypeOK` |
| `Cargado` | `Spec => []RespondidoCargado` |
| `Colgados` | `Spec => []SinColgados` |
| `Muertes` | `Spec => []MuerteJustificada` |
| `Implementa` | `Spec => Refina` |

`RespondidoCargado` is about a list that any number of connections change at
once. Why the main thread survives is that it is the *first* of the list: an
addition that walked the list before another ended links after an element it
saw, and it saw the first. The invariant follows that TCB from the connection
that creates it to the one that kills it:

- `Etiquetas`, `Procesos`: each thread does what its connection was asked for; a
  process is created once, killed once, and in `process_list` from one point of
  its creation on;
- `Propios`: a TCB that is in no list is in the hands of one connection;
- `Principales`: from its `malloc` on, the main TCB keeps its PID, its TID 0 and
  its program (`Ficha`). Once it is in its list it is the first and the only one
  there with TID 0, and every thread another connection is creating will have
  another TID and go after it (`Encabeza`, `Secundario`), until the kill takes it
  (`Tomado`);
- `EnLaCpu`: until the kill takes it, the TCB the CPU is using is that one;
- `TypeOK`, `SinColgados`, `MuerteJustificada`.

In the refinement of `Contextos`, `process_initiate` is `Crear`, `take_thread` is
`Terminar`, a request of the CPU is `Pedir`, and an answer to it is `Leer` or
`Guardar` while the process exists and `LeerSuelto` or `GuardarSuelto` when the
kill has taken its thread; everything else stutters. Nothing is assumed of the
CPU: the three programs together do have one that goes on with killed threads
(`v_thread_exit`). `Principales` makes a store for one process touch only its own
TCB, and `Tomado` says when that ceases to be so. The abstract processes begin at
`process_initiate` and not at the answer because of such a store: it may land in
the TCB of a process that is being created. `Sistema`, which uses `Contextos` for
Memoria, gives `get_thread` and the rest of the answer a step each, lets the kill
come between them, and lets Memoria die when the thread is gone
(`AbortaMemoria`).

`InstruccionesPruebas` proves, from `RegistrosAssumption` (a register has at least
two whole bytes, and any general registers) and `InstruccionesAssumption` (the
registers start at values a register has; an instruction's number is an `int` of
that width):

| Theorem | Statement |
|---|---|
| `Lectura` | `Spec => []LecturaExacta` |
| `Fiel` | `Spec => EjecucionFiel` |

The lemmas of `RegistrosPruebas` are about the conversions: `uint32` of what the
CPU converts is the remainder by the width; `uint32(char(v)) = v` exactly when `v`
fits in a `char`; reads, writes and `decode_execute` stay in the type. With them
each instruction is a case (`UnaInstruccion`): what is read is exact, and the
result differs from the one of `Maquina` in the order of an increment and a
remainder.

`SistemaPruebas` proves, from `RegistrosAssumption` and `SistemaAssumption` (the
programs are sequences of instructions, and what uninitialised or freed memory
holds is read as registers, or as an instruction):

| Theorem | Statement |
|---|---|
| `Conjunto` | `Spec => []IInv` |
| `Tipos` | `Spec => []TypeOK` |
| `Coherencia` | `Spec => []ContextoCoherente` |
| `Muertes` | `Spec => []MemoriaMuereSi` |
| `Implementa` | `Spec /\ []ValoresCaben => EjecutaComoMaquina` |
| `Caben` | `(\A p \in Programas : Contenido(p)) => (Spec => []ValoresCaben)` |
| `ImplementaContenidos` | `(\A p \in Programas : Contenido(p)) => (Spec => EjecutaComoMaquina)` |
| `ImplementaDirectos` | `(\A p \in Programas : Directo(p)) => (Spec => EjecutaComoMaquina)` |

`ContextoCoherente` is not inductive: it says where the registers are at the end
of an exchange, and a step of it needs to know where they were in the middle.
The conjuncts of `IInv`:

- `UnProceso`: the life of the process and the existence of its context: created
  once, before it can be READY, and killed only after it is over. So a context
  never appears under a CPU that has begun, and when there is none the process
  is in FIN;
- `UnDespacho`: it is dispatched once, and the CPU has done nothing before;
- `EnCurso`: the operation Memoria has not answered is the one the CPU is waiting
  for, for its PID. With Memoria gone, an `update_context` may be left behind;
- `DelPrograma`: what is fetched and executed are instructions, which the type of the registers depends on (lemma `Ejecucion`);
- `Espejo`: at each point of the cycle, which of the CPU's registers, the context
  on its way to it and the one on its way back is the context in Memoria;
- `DeSuLinea`: what is asked for, fetched, executed and stored is the line at
  which the context in Memoria is;
- `TypeOK`, `MemoriaMuereSi`.

There is one lemma per conjunct, with a case per kind of step (`Casos`): a death,
the kernel's, Memoria's, the CPU's.

In the refinement of `Maquina` a creation is `Cargar`, a kill is `Matar`, an
`update_context` is `Ejecutar`, and everything else stutters. What is stored is
`decode_execute` of the line (`DeSuLinea`), and `UnaInstruccion` gives its
meaning. That lemma needs the values to fit in a `char`, because
`obtener_registro` does not give back those that do not; and whether they fit
depends on the program. So `Implementa` has `[]ValoresCaben` as a hypothesis, and
the other three theorems replace it by one about the programs alone.

`Contenido(p)` says of a program run by itself on `Maquina`, with no CPU, no
contexts and no deaths, that some set of banks closed under its lines has only
values that fit. `Caben` concludes that they fit in the system: the context in
Memoria stays in that set (`EnRegion`), because each step of the system is one of
`Maquina` (`PasoMaquina`, which needs the values to fit *now*, and they do in the
set). It is not true of every program: one that adds 1 in a loop leaves a `char`,
and the code then computes something else (the first item under *Instructions*).
`Directo(p)` can be read off the lines: they load values a `char` holds, copy them
(`READ_MEM`), test them (`JNZ`) and make syscalls, with no arithmetic. Such
programs are `Contenido` (`LosDirectos`), whatever their jumps.

`BuffersPruebas` and `ProtocoloPruebas` prove, from `ProtocoloAssumption`:

| Theorem | Statement |
|---|---|
| `IdaYVuelta` | the four bytes added to a buffer are the ones a read gives back, for every `uint32_t` |
| `Invariante` | `Spec => []IInv` |
| `Tipos` | `Spec => []TypeOK` |
| `SinDesbordes` | `Spec => []SinDesborde` |
| `Entregado` | `Spec => []EntregaFiel` |
| `Respondido` | `Spec => []RespuestaFiel` |
| `SinEspera` | `Spec => []EsperaMutuaSoloSinMotivo` |
| `Avance` | `Spec => Avanza` |
| `Cortado` | `Spec => []CortoSoloSiParte` |

`ProtocoloAssumption` is about the calls: the fields of a call are those of its
operation, numbers are 32 bits wide and strings are characters other than `\0`,
of any length a `uint32_t` can count, as C has them; the answers likewise; an
operation without answer is only called by the kernel on its connections to
Memoria, one call each; and DISPATCH is the call of the kernel to the CPU, and of
no other connection. The number of calls, of cuts and of motivos is any.

`BuffersPruebas` is about data alone. In every message of the source only the last
field may be a string (`EsFormato`), so the i-th field is written at byte 4(i-1)
(`Serializado`) and read from there (`CadaCuatro`), whatever the values, and what is
read in the order of the writes is what was written (`Deserializado`). The
concatenation of the fields is a recursive function, reached by induction over
the fields: `Induccion` is induction over the naturals stated about a set, since
the library's takes an operator. `Formatos` takes the formats of the source one
by one, `Largo` compares the room each caller counts, and `Paquetes` and
`Contestaciones` put them together.

The properties of the connection need the invariant:

- `PorTurnos`: one call at a time. The server takes the one that was made; the
  caller makes no other until it has its answer, if there is one;
- `Ida`: what the server has still to read, delivered or on its way, is the rest
  of the packet in course, after what is left of the three spare bytes of the one
  before;
- `Vuelta`: what the caller has still to read is nothing, or the rest of the
  answer and then the motivos that come after the first, which nobody reads;
- `Enteros`: while nothing has been cut, a packet on its way is whole, and the
  caller finds all that is left of its answer, or nothing;
- `TypeOK`, `CortoSoloSiParte`.

`Ida` and `Vuelta` speak of what is delivered followed by what is not, so a
delivery changes neither, wherever TCP cuts (`Llegar`), and a `recv` takes a first
part of both (`Recibir` and the lemmas after it). There is one lemma per action.

`SinEspera` takes each place where the server and the caller can be waiting, and
shows from `Ida` and `Vuelta` what is there for one of them: what has been
delivered and what has not add up to what is left of a message, so if nothing is
on its way all of it has been delivered. What is left out is the server in the
loop of `dispatch`, and the one it leaves with no motivo sent (`SinMotivo`), which
does wait for ever. `Avance` gives each step a measure: `Pendientes`, the bytes to
be read, each counted twice until it is delivered. Only an answer makes it grow:
a handler's, once in a call (`UnaCadaVez`: nobody can call meanwhile), or a
motivo, and the steps of the loop are not measured. The two are the part of
`LlamadaTermina` that does not depend on fairness.

Only model-checked: liveness (`PrimerDespacho`, `ReintentoDeNew`,
`ExitAvisaMemoria`, `CreacionRespondida`, `Concluye`, `BajaLlega`,
`InterrupcionSaca`, `LlamadaTermina`), which depends on fairness and `ENABLED` and
is beyond the prover. Every safety property of a passing run is a theorem, as is
`ValoresCaben`, under its hypothesis on the programs. The type invariants have no
run of their own: each is a conjunct of an `IInv` that a run checks.

## Not modelled

- *Filesystem*: a stub that answers a handshake and keeps no state.
- *PRIORIDADES*: `asignar_algoritmo` takes two names, FIFO and HRRN; the latter
  sets CMN, whose case dispatches NULL. No configuration reaches PRIORIDADES.
- *What follows `send_pid_exit`* in `PROCESS_EXIT`, with the packet of
  `PROCESS_KILL`: proved unreachable.
- *`send_syscall` with arguments*: only `THREAD_EXIT` gives it a count, 1; its
  branches for 2 to 4 are unreachable. The kernel's side of every syscall is in
  `Kernel`, which takes the CPU to answer any of them.
- *What nothing calls*: `cpu/src/conexion.c`; `send_pcb`, `send_data`,
  `enviar_mensaje`, `agregar_a_paquete`, `serializarProceso`, `recv_handshake`,
  `recibir_*` and the `uint8` functions of the protocol.
- *Overlap of pushes and pops of `new_queue`*, which do not exclude each other:
  a list operation is one step. With one process in flight they do not overlap.
- *What is read after a short `recv` or a spare byte taken for an operation*: any
  number, used as a size. `Protocolo` shows when it can happen and stops;
  `Memoria` with `BasuraOpera` has what its loop does then.
- *A client that connects to Memoria and is slow to shake hands*: `main` reads the
  handshake before it accepts the next client. `Aceptar` is both.
- *Logs, configuration, delays*: they change no state that a property is about.
  The log of `send_tcb_exit` is modelled because it reads a TCB.

## Plan

1. `Kernel`, `KernelProps`, `Planificador`, `MCKernel`, `KernelPruebas`,
   `RepartoPruebas` - done.
2. `Memoria`, `Contextos`, `MemoriaProps`, `MCMemoria`, `MemoriaPruebas` - done.
3. `Registros`, `Maquina`, `Instrucciones` and their proofs - done.
4. `Cpu`, `Sistema`, `SistemaProps`, `SistemaPruebas` - done.
5. `Bytes`, `Protocolo`, `ProtocoloProps`, `BuffersPruebas`, `ProtocoloPruebas` -
   done.
6. To add: what the waits of the kernel rest on, as `EsperaMutuaSoloSinMotivo` and
   `Avanza` do for a call (a refused process in `new_queue` always has its post, or a
   thread that is about to post or has taken it: `ColaNew` counts them, and a
   measure of what `ready_tcb` has left is missing); and other classes of programs
   that are `Contenido`, with arithmetic that stays in a `char`.
