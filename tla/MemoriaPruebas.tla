--------------------------- MODULE MemoriaPruebas ---------------------------
(***************************************************************************)
(* Proofs about the memoria process, for any number of connections and     *)
(* processes, any files, and whatever the kernel asks for.                 *)
(***************************************************************************)
EXTENDS MemoriaProps, SequenceTheorems, TLAPS

USE MemoriaAssumption DEF NULL, Hilos

-----------------------------------------------------------------------------
(* What the operations on lists do                                         *)

\* list_add puts the element after the last one and keeps the rest in place.
LEMMA Agregar ==
  ASSUME NEW S, NEW s \in Seq(S), NEW e \in S
  PROVE  /\ Append(s, e) \in Seq(S) /\ Append(s, e) # <<>>
         /\ Len(Append(s, e)) = Len(s) + 1
         /\ DOMAIN Append(s, e) = 1..(Len(s) + 1)
         /\ \A i \in 1..Len(s) : Append(s, e)[i] = s[i]
         /\ Append(s, e)[Len(s) + 1] = e
<1>1. Append(s, e) \in Seq(S) /\ Len(Append(s, e)) = Len(s) + 1
  OBVIOUS
<1>2. \A i \in 1..Len(s) : Append(s, e)[i] = s[i]
  OBVIOUS
<1>3. Append(s, e)[Len(s) + 1] = e
  OBVIOUS
<1>4. Append(s, e) # <<>>
  BY <1>1, Len(s) \in Nat
<1>5. DOMAIN Append(s, e) = 1..(Len(s) + 1)
  BY <1>1
<1> QED
  BY <1>1, <1>2, <1>3, <1>4, <1>5

\* list_remove_element takes one link out.
LEMMA Quitar ==
  ASSUME NEW S, NEW s \in Seq(S), NEW i \in 1..Len(s),
         NEW r, r = SinEnlace(s, i)
  PROVE  /\ r \in Seq(S) /\ Len(r) = Len(s) - 1
         /\ DOMAIN r = 1..(Len(s) - 1)
         /\ \A j \in 1..(Len(s) - 1) : r[j] = IF j < i THEN s[j] ELSE s[j + 1]
<1> DEFINE a == SubSeq(s, 1, i - 1)
           b == SubSeq(s, i + 1, Len(s))
<1>0. Len(s) \in Nat
  OBVIOUS
<1>1. a \in Seq(S) /\ Len(a) = i - 1 /\ \A j \in 1..(i - 1) : a[j] = s[j]
  <2>1. 1 \in Int /\ i - 1 \in Int /\ \A j \in 1..(i - 1) : s[j] \in S
    BY <1>0
  <2>2. /\ a \in Seq(S) /\ Len(a) = IF 1 <= i - 1 THEN i - 1 - 1 + 1 ELSE 0
        /\ \A j \in 1..(i - 1 - 1 + 1) : a[j] = s[1 + j - 1]
    BY <2>1, SubSeqProperties
  <2> QED
    BY <2>2
<1>2. b \in Seq(S) /\ Len(b) = Len(s) - i /\ \A j \in 1..(Len(s) - i) : b[j] = s[i + j]
  <2>1. i + 1 \in Int /\ Len(s) \in Int /\ \A j \in i + 1 .. Len(s) : s[j] \in S
    BY <1>0
  <2>2. /\ b \in Seq(S) /\ Len(b) = IF i + 1 <= Len(s) THEN Len(s) - (i + 1) + 1 ELSE 0
        /\ \A j \in 1..(Len(s) - (i + 1) + 1) : b[j] = s[i + 1 + j - 1]
    BY <2>1, SubSeqProperties
  <2> QED
    BY <1>0, <2>2
<1>3. r = a \o b
  BY DEF SinEnlace
<1> DEFINE n == Len(s)
<1>4. n \in Nat /\ i \in 1..n
  BY <1>0
<1>5. /\ Len(a) = i - 1 /\ Len(b) = n - i
      /\ \A j \in 1..(i - 1) : a[j] = s[j]
      /\ \A j \in 1..(n - i) : b[j] = s[i + j]
  BY <1>1, <1>2
<1> HIDE DEF a, b, n
<1>6. /\ a \o b \in Seq(S) /\ Len(a \o b) = n - 1
      /\ DOMAIN (a \o b) = 1..(n - 1)
      /\ \A j \in 1..(n - 1) : (a \o b)[j] = IF j < i THEN s[j] ELSE s[j + 1]
  <2>1. /\ a \o b \in Seq(S) /\ Len(a \o b) = Len(a) + Len(b)
        /\ \A j \in 1..Len(a) + Len(b) :
             (a \o b)[j] = IF j <= Len(a) THEN a[j] ELSE b[j - Len(a)]
    BY <1>1, <1>2, ConcatProperties, ZenonT(60)
  <2>2. Len(a) + Len(b) = n - 1
    BY <1>4, <1>5
  <2>3. DOMAIN (a \o b) = 1..Len(a \o b)
    BY <2>1
  <2>4. ASSUME NEW j \in 1..(n - 1)
        PROVE  (a \o b)[j] = IF j < i THEN s[j] ELSE s[j + 1]
    <3>1. (a \o b)[j] = IF j <= i - 1 THEN a[j] ELSE b[j - (i - 1)]
      BY <1>4, <1>5, <2>1, <2>2
    <3>2. CASE j < i
      <4>1. j \in 1..(i - 1)
        BY <1>4, <3>2
      <4> QED
        BY <1>5, <3>1, <3>2, <4>1
    <3>3. CASE ~(j < i)
      <4>1. j - (i - 1) \in 1..(n - i) /\ i + (j - (i - 1)) = j + 1
        BY <1>4, <3>3
      <4>2. ~(j <= i - 1)
        BY <1>4, <3>3
      <4> QED
        BY <1>4, <1>5, <3>1, <3>3, <4>1, <4>2
    <3> QED
      BY <3>2, <3>3
  <2> QED
    BY <2>1, <2>2, <2>3, <2>4
<1> QED
  BY <1>3, <1>6 DEF n

\* A list_add that loses the race keeps a prefix of the list.
LEMMA Cortar ==
  ASSUME NEW S, NEW s \in Seq(S), NEW i \in 1..Len(s), NEW e \in S,
         NEW r, r = Append(SubSeq(s, 1, i), e)
  PROVE  /\ r \in Seq(S) /\ r # <<>> /\ Len(r) = i + 1
         /\ DOMAIN r = 1..(i + 1)
         /\ \A j \in 1..i : r[j] = s[j]
         /\ r[i + 1] = e
<1> DEFINE a == SubSeq(s, 1, i)
<1>0. Len(s) \in Nat
  OBVIOUS
<1>1. a \in Seq(S) /\ Len(a) = i /\ \A j \in 1..i : a[j] = s[j]
  BY <1>0
<1> HIDE DEF a
<1>2. r = Append(a, e)
  BY DEF a
<1>3. /\ r \in Seq(S) /\ r # <<>> /\ Len(r) = Len(a) + 1
      /\ DOMAIN r = 1..(Len(a) + 1)
      /\ \A j \in 1..Len(a) : r[j] = a[j]
      /\ r[Len(a) + 1] = e
  <2>1. a \in Seq(S)
    BY <1>1
  <2>2. /\ Append(a, e) \in Seq(S) /\ Append(a, e) # <<>>
        /\ Len(Append(a, e)) = Len(a) + 1
        /\ DOMAIN Append(a, e) = 1..(Len(a) + 1)
        /\ \A j \in 1..Len(a) : Append(a, e)[j] = a[j]
        /\ Append(a, e)[Len(a) + 1] = e
    BY <2>1, Agregar
  <2> QED
    BY <1>2, <2>2, Zenon
<1>4. \A j \in 1..i : r[j] = s[j]
  <2>1. \A j \in 1..i : r[j] = a[j]
    BY <1>1, <1>3
  <2> QED
    BY <1>1, <2>1
<1> QED
  BY <1>1, <1>3, <1>4

\* A sequence of the first m addresses is one of the first n, if n is larger.
LEMMA SeqMayor ==
  ASSUME NEW m \in Nat, NEW n \in Nat, m <= n
  PROVE  Seq(1..m) \subseteq Seq(1..n)
  OBVIOUS

-----------------------------------------------------------------------------
(* The steps                                                               *)

\* The process dies, or nothing happens.
Muerte ==
  /\ UNCHANGED <<pc, pedido, locales, listas, tcb, cliente, respondidos>>
  /\ estado' \in {estado, "abortado"}

\* The steps of the clients but the requests of the kernel, and those of the
\* threads that touch neither a list nor a TCB.
Pedido(c) == PedirProceso(c) \/ PedirHilo(c) \/ PedirBaja(c) \/ PedirAviso(c)

SoloPc ==
  \/ \E c \in Conexiones : Aceptar(c) \/ AtenderAviso(c)
  \/ CpuSeVa \/ LeerBasura

\* A step is one of these: a death, a step of program counters, or an action of one thread.
LEMMA Casos ==
  ASSUME [Next]_vars
  PROVE  \/ Muerte \/ SoloPc
         \/ \E c \in Conexiones : 
               \/ Pedido(c)
               \/ IniciarProceso(c) \/ SafePcbAdd(c) \/ AgregarPrincipal(c)
               \/ ResponderSuccess(c)
               \/ ContarHilos(c) \/ CargarHilo(c) \/ EnlazarHilo(c)
               \/ TomarHilo(c) \/ FreeTcb(c)
         \/ PedirCpu
         \/ BuscarHilo \/ ExecutionContext \/ GetInstruction \/ UpdateContext
<1>1. CASE UNCHANGED vars
  BY <1>1 DEF vars, Muerte
<1>2. CASE Next
  BY <1>2 DEF Next, Clientes, AtenderKernel, AtenderCpu, Muerte, SoloPc, Pedido,
     AbortaSinArchivo, AbortaLista, AbortaCpu, AbortaNull, AbortaPerdida, Abortar
<1> QED
  BY <1>1, <1>2

\* What a request carries.
LEMMA Carga ==
  ASSUME TypeOK, NEW c \in Conexiones
  PROVE  /\ pedido[c].op \in {"PROCESS_CREATION", "THREAD_CREATION"} =>
               pedido[c].PID \in PIDs /\ pedido[c].archivo \in Archivos
         /\ pedido[c].op = "THREAD_KILL" =>
               pedido[c].PID \in PIDs /\ pedido[c].TID \in Nat
  BY DEF TypeOK, PedidosPosibles

\* The link a new TCB is put after, and the one a kill takes out.
Alarga(c, k) ==
  LET pid == pedido[c].PID IN
  /\ k \in 0..Len(TIDs[pid])
  /\ TIDs'[pid] # <<>> /\ Len(TIDs'[pid]) = k + 1 /\ DOMAIN TIDs'[pid] = 1..(k + 1)
  /\ \A j \in 1..k : TIDs'[pid][j] = TIDs[pid][j]
  /\ TIDs'[pid][k + 1] = tcb_local[c]

Acorta(c, i) ==
  LET pid == pedido[c].PID IN
  /\ i \in 1..Len(TIDs[pid])
  /\ Len(TIDs'[pid]) = Len(TIDs[pid]) - 1 /\ DOMAIN TIDs'[pid] = 1..(Len(TIDs[pid]) - 1)
  /\ \A j \in 1..(Len(TIDs[pid]) - 1) :
        TIDs'[pid][j] = IF j < i THEN TIDs[pid][j] ELSE TIDs[pid][j + 1]

OtrasListas(c) ==
  /\ TIDs' \in [PIDs -> Seq(TCBs)]
  /\ \A q \in PIDs : q # pedido[c].PID => TIDs'[q] = TIDs[q]

\* AgregarPrincipal finds the list of its process empty and makes it one TCB long, with TID 0.
LEMMA Principal ==
  ASSUME IInv, NEW c \in Conexiones, AgregarPrincipal(c)
  PROVE  /\ Crea(c, pedido[c].PID) /\ pedido[c].PID \in PIDs
         /\ TIDs[pedido[c].PID] = <<>> /\ cuenta[pedido[c].PID] = 0
         /\ OtrasListas(c) /\ Alarga(c, 0)
<1> DEFINE pid == pedido[c].PID
<1>1. Crea(c, pid) /\ pid \in PIDs /\ pc[c] = "list_add_principal" /\ tcb_local[c] \in TCBs
  BY Carga DEF AgregarPrincipal, Paso, IInv, Etiquetas, Crea, Propios, EnMano
<1>2. TIDs[pid] = <<>> /\ cuenta[pid] = 0
  BY <1>1 DEF IInv, Procesos
<1>3. TIDs' = [TIDs EXCEPT ![pid] = <<tcb_local[c]>>]
  BY <1>1, <1>2 DEF AgregarPrincipal
<1> QED
  BY <1>1, <1>2, <1>3 DEF OtrasListas, Alarga, IInv, TypeOK

\* EnlazarHilo serves THREAD_CREATION: it lengthens the list of its own process or loses
\* the write; a TCB it adds after others never has TID 0.
LEMMA Enlazado ==
  ASSUME IInv, NEW c \in Conexiones, EnlazarHilo(c)
  PROVE  /\ pedido[c].op = "THREAD_CREATION" /\ pedido[c].PID \in PIDs
         /\ OtrasListas(c)
         /\ \/ TIDs' = TIDs
            \/ \E k \in Nat : Alarga(c, k) /\ (visto[c] # <<>> => k # 0)
<1> DEFINE pid == pedido[c].PID
<1>1. /\ pedido[c].op = "THREAD_CREATION" /\ pid \in PIDs /\ tcb_local[c] \in TCBs
      /\ TIDs \in [PIDs -> Seq(TCBs)]
  BY Carga DEF EnlazarHilo, Paso, IInv, Etiquetas, Propios, EnMano, TypeOK
<1>2. CASE TIDs' = [TIDs EXCEPT ![pid] = <<tcb_local[c]>>] /\ visto[c] = <<>>
  <2>1. OtrasListas(c)
    BY <1>1, <1>2 DEF OtrasListas
  <2>2. Alarga(c, 0)
    BY <1>1, <1>2 DEF Alarga
  <2> QED
    BY <1>1, <1>2, <2>1, <2>2
<1>3. ASSUME NEW i \in DOMAIN TIDs[pid],
             TIDs' = [TIDs EXCEPT ![pid] = Append(SubSeq(TIDs[pid], 1, i), tcb_local[c])]
      PROVE  OtrasListas(c) /\ \E k \in Nat : Alarga(c, k) /\ k # 0
  <2>0. TIDs[pid] \in Seq(TCBs)
    BY <1>1
  <2>1. i \in 1..Len(TIDs[pid]) /\ TIDs[pid] \in Seq(TCBs)
    BY <2>0
  <2>2. TIDs'[pid] = Append(SubSeq(TIDs[pid], 1, i), tcb_local[c])
    BY <1>1, <1>3
  <2>3. /\ TIDs'[pid] \in Seq(TCBs) /\ TIDs'[pid] # <<>> /\ Len(TIDs'[pid]) = i + 1
        /\ DOMAIN TIDs'[pid] = 1..(i + 1)
        /\ \A j \in 1..i : TIDs'[pid][j] = TIDs[pid][j]
        /\ TIDs'[pid][i + 1] = tcb_local[c]
    <3> DEFINE s == TIDs[pid]
               e == tcb_local[c]
               r == TIDs'[pid]
    <3>1. s \in Seq(TCBs) /\ i \in 1..Len(s) /\ e \in TCBs /\ r = Append(SubSeq(s, 1, i), e)
      BY <1>1, <2>1, <2>2
    <3> HIDE DEF s, e, r
    <3>2. /\ r \in Seq(TCBs) /\ r # <<>> /\ Len(r) = i + 1 /\ DOMAIN r = 1..(i + 1)
          /\ \A j \in 1..i : r[j] = s[j]
          /\ r[i + 1] = e
      BY <3>1, Cortar
    <3> QED
      BY <3>2 DEF s, e, r
  <2>4. OtrasListas(c)
    BY <1>1, <1>3, <2>3 DEF OtrasListas
  <2>5. Alarga(c, i)
    BY <2>1, <2>3 DEF Alarga
  <2> QED
    BY <2>1, <2>4, <2>5
<1>4. CASE TIDs' = TIDs
  BY <1>1, <1>4 DEF OtrasListas
<1> QED
  BY <1>1, <1>2, <1>3, <1>4 DEF EnlazarHilo

\* TomarHilo serves the THREAD_KILL of TID 0 of a process whose end was asked, and
\* takes the TCB it finds out of the list of that process alone.
LEMMA Tomada ==
  ASSUME IInv, NEW c \in Conexiones, TomarHilo(c)
  PROVE  /\ pedido[c].op = "THREAD_KILL" /\ pedido[c].PID \in PIDs
         /\ pedido[c].TID = 0 /\ pedido[c].PID \in bajas
         /\ OtrasListas(c)
         /\ \E i \in 1..Len(TIDs[pedido[c].PID]) :
               /\ SeDetieneEn(pedido[c].PID, 0, i) /\ Acorta(c, i)
               /\ tcb_local' = [tcb_local EXCEPT ![c] = TIDs[pedido[c].PID][i]]
<1> DEFINE pid == pedido[c].PID
<1>1. /\ pedido[c].op = "THREAD_KILL" /\ pid \in PIDs /\ pid \in bajas /\ pedido[c].TID = 0
      /\ TIDs \in [PIDs -> Seq(TCBs)]
  BY Carga DEF TomarHilo, Pide, IInv, Etiquetas, TypeOK
<1>2. PICK i \in DOMAIN TIDs[pid] :
            /\ SeDetieneEn(pid, pedido[c].TID, i)
            /\ tcb_local' = [tcb_local EXCEPT ![c] = TIDs[pid][i]]
            /\ TIDs' = [TIDs EXCEPT ![pid] = SinEnlace(@, i)]
  BY DEF TomarHilo
<1>3. i \in 1..Len(TIDs[pid]) /\ TIDs[pid] \in Seq(TCBs)
  <2>1. TIDs[pid] \in Seq(TCBs)
    BY <1>1
  <2> QED
    BY <2>1
<1>4. TIDs'[pid] = SinEnlace(TIDs[pid], i)
  BY <1>1, <1>2
<1>5. /\ TIDs'[pid] \in Seq(TCBs) /\ Len(TIDs'[pid]) = Len(TIDs[pid]) - 1
      /\ DOMAIN TIDs'[pid] = 1..(Len(TIDs[pid]) - 1)
      /\ \A j \in 1..(Len(TIDs[pid]) - 1) :
            TIDs'[pid][j] = IF j < i THEN TIDs[pid][j] ELSE TIDs[pid][j + 1]
  <2> DEFINE s == TIDs[pid]
             r == TIDs'[pid]
  <2>1. s \in Seq(TCBs) /\ i \in 1..Len(s) /\ r = SinEnlace(s, i)
    BY <1>3, <1>4
  <2> HIDE DEF s, r
  <2>2. /\ r \in Seq(TCBs) /\ Len(r) = Len(s) - 1 /\ DOMAIN r = 1..(Len(s) - 1)
        /\ \A j \in 1..(Len(s) - 1) : r[j] = IF j < i THEN s[j] ELSE s[j + 1]
    BY <2>1, Quitar
  <2> QED
    BY <2>2 DEF s, r
<1>6. OtrasListas(c)
  <2>1. TIDs' = [TIDs EXCEPT ![pid] = TIDs'[pid]]
    BY <1>1, <1>2, <1>4
  <2> QED
    BY <1>1, <1>5, <2>1 DEF OtrasListas
<1>7. Acorta(c, i)
  BY <1>3, <1>5 DEF Acorta
<1> QED
  BY <1>1, <1>2, <1>3, <1>6, <1>7

\* TCBs are only added; who they belong to never changes.
RegistroTcb == [PID : PIDs, TID : Nat, lineas : Nat, PC : Nat, libre : BOOLEAN]

HeapCrece ==
  /\ tcb' \in Seq(RegistroTcb) /\ Len(tcb) <= Len(tcb')
  /\ \A t \in TCBs : /\ tcb'[t].PID = tcb[t].PID /\ tcb'[t].TID = tcb[t].TID
                     /\ tcb'[t].lineas = tcb[t].lineas

\* The two allocations put one TCB after the others, with the lines of the requested file.
LEMMA Nuevo ==
  ASSUME IInv, NEW c \in Conexiones, IniciarProceso(c) \/ CargarHilo(c)
  PROVE  /\ HeapCrece /\ Len(tcb') = Len(tcb) + 1
         /\ \A t \in TCBs : tcb'[t] = tcb[t]
         /\ pedido[c].archivo \in DOMAIN Lineas
         /\ \E tid \in Nat :
               /\ IniciarProceso(c) => tid = 0
               /\ CargarHilo(c) => tid = TID_nuevo[c]
               /\ tcb'[Len(tcb) + 1] = ThreadInitiate(pedido[c].PID, tid, pedido[c].archivo)
<1> DEFINE e == tcb'[Len(tcb) + 1]
<1>0. tcb \in Seq(RegistroTcb) /\ Len(tcb) \in Nat
  BY DEF IInv, TypeOK, RegistroTcb
<1>1. pedido[c].PID \in PIDs /\ pedido[c].archivo \in DOMAIN Lineas /\ TID_nuevo[c] \in Nat
  BY Carga DEF IInv, TypeOK, Etiquetas, IniciarProceso, CargarHilo, Pide, Paso
<1>2. PICK tid \in Nat :
         /\ IniciarProceso(c) => tid = 0
         /\ CargarHilo(c) => tid = TID_nuevo[c]
         /\ tcb' = Append(tcb, ThreadInitiate(pedido[c].PID, tid, pedido[c].archivo))
  BY <1>1 DEF IniciarProceso, CargarHilo, Paso
<1>3. ThreadInitiate(pedido[c].PID, tid, pedido[c].archivo) \in RegistroTcb
  BY <1>1 DEF ThreadInitiate, RegistroTcb
<1> HIDE DEF RegistroTcb
<1>4. /\ tcb' \in Seq(RegistroTcb) /\ Len(tcb') = Len(tcb) + 1
      /\ \A t \in 1..Len(tcb) : tcb'[t] = tcb[t]
      /\ tcb'[Len(tcb) + 1] = ThreadInitiate(pedido[c].PID, tid, pedido[c].archivo)
  BY <1>0, <1>2, <1>3, Agregar
<1> QED
  BY <1>0, <1>1, <1>2, <1>4 DEF HeapCrece, TCBs

\* free_tcb frees the TCB its connection holds, changes no other and keeps every PC.
LEMMA Liberado ==
  ASSUME IInv, NEW c \in Conexiones, FreeTcb(c)
  PROVE  /\ HeapCrece /\ Len(tcb') = Len(tcb)
         /\ tcb_local[c] \in TCBs /\ EnMano(c)
         /\ \A t \in TCBs : /\ tcb'[t].PC = tcb[t].PC
                            /\ t # tcb_local[c] => tcb'[t] = tcb[t]
<1>1. tcb \in Seq(RegistroTcb) /\ tcb_local[c] \in 1..Len(tcb) /\ EnMano(c)
  BY DEF IInv, TypeOK, RegistroTcb, FreeTcb, Paso, Propios, EnMano, TCBs
<1>2. tcb' = [tcb EXCEPT ![tcb_local[c]].libre = TRUE]
  BY DEF FreeTcb
<1> DEFINE t == tcb_local[c]
           e == [tcb[t] EXCEPT !.libre = TRUE]
<1>3. tcb' = [tcb EXCEPT ![t] = e]
  BY <1>1, <1>2
<1>4. /\ e \in RegistroTcb /\ e.PID = tcb[t].PID /\ e.TID = tcb[t].TID
      /\ e.lineas = tcb[t].lineas /\ e.PC = tcb[t].PC
  <2>1. tcb[t] \in RegistroTcb
    BY <1>1
  <2> QED
    BY <2>1 DEF RegistroTcb
<1> HIDE DEF e, RegistroTcb
<1>5. /\ tcb' \in Seq(RegistroTcb) /\ Len(tcb') = Len(tcb)
      /\ \A j \in 1..Len(tcb) : tcb'[j] = IF j = t THEN e ELSE tcb[j]
  BY <1>1, <1>3, <1>4, ExceptSeq
<1> QED
  BY <1>1, <1>4, <1>5 DEF HeapCrece, TCBs

\* update_context_memory frees nothing, and writes the PC of the CPU on one TCB: the one
\* it points at, if that one is alive.
LEMMA Guardado ==
  ASSUME IInv, UpdateContext
  PROVE  /\ HeapCrece /\ Len(tcb') = Len(tcb)
         /\ \A t \in TCBs : tcb'[t].libre = tcb[t].libre
         /\ \E t \in TCBs :
               /\ tcb[tcb_local[Cpu]].libre \/ t = tcb_local[Cpu]
               /\ tcb'[t].PC = cpu.PC
               /\ \A u \in TCBs : u # t => tcb'[u] = tcb[u]
<1>1. tcb \in Seq(RegistroTcb) /\ cpu.PC \in Nat
  BY DEF IInv, TypeOK, RegistroTcb
<1>2. PICK t \in DOMAIN tcb :
         /\ tcb' = [tcb EXCEPT ![t].PC = cpu.PC]
         /\ ~tcb[tcb_local[Cpu]].libre => t = tcb_local[Cpu]
  BY DEF UpdateContext
<1>3. t \in 1..Len(tcb)
  BY <1>1
<1> DEFINE e == [tcb[t] EXCEPT !.PC = cpu.PC]
<1>4. tcb' = [tcb EXCEPT ![t] = e]
  BY <1>1, <1>2
<1>5. /\ e \in RegistroTcb /\ e.PID = tcb[t].PID /\ e.TID = tcb[t].TID
      /\ e.lineas = tcb[t].lineas /\ e.libre = tcb[t].libre /\ e.PC = cpu.PC
  <2>1. tcb[t] \in RegistroTcb
    BY <1>1, <1>3
  <2> QED
    BY <1>1, <2>1 DEF RegistroTcb
<1> HIDE DEF e, RegistroTcb
<1>6. /\ tcb' \in Seq(RegistroTcb) /\ Len(tcb') = Len(tcb)
      /\ \A j \in 1..Len(tcb) : tcb'[j] = IF j = t THEN e ELSE tcb[j]
  BY <1>1, <1>3, <1>4, <1>5, ExceptSeq
<1> QED
  BY <1>2, <1>3, <1>5, <1>6 DEF HeapCrece, TCBs

\* Every step but those three leaves the TCBs alone.
LEMMA Heap ==
  ASSUME IInv, [Next]_vars
  PROVE  HeapCrece
<1>1. CASE tcb' = tcb
  BY <1>1 DEF HeapCrece, IInv, TypeOK, RegistroTcb
<1>2. CASE \E c \in Conexiones : IniciarProceso(c) \/ CargarHilo(c)
  BY <1>2, Nuevo
<1>3. CASE \E c \in Conexiones : FreeTcb(c)
  BY <1>3, Liberado
<1>4. CASE UpdateContext
  BY <1>4, Guardado
<1> QED
  BY <1>1, <1>2, <1>3, <1>4, Casos DEF Muerte, SoloPc, Aceptar, AtenderAviso, CpuSeVa,
     LeerBasura, Pedido, PedirProceso, PedirHilo, PedirBaja, PedirAviso, Pedir, SafePcbAdd,
     AgregarPrincipal, ResponderSuccess, ContarHilos, EnlazarHilo, TomarHilo, PedirCpu,
     BuscarHilo, ExecutionContext, GetInstruction

-----------------------------------------------------------------------------
(* The types                                                               *)

\* Every step keeps the types.
LEMMA TipoPaso ==
  ASSUME IInv, [Next]_vars
  PROVE  TypeOK'
<1> USE DEF Paso
<1>0. TypeOK /\ Len(tcb) \in Nat
  BY DEF IInv, TypeOK
<1>1. TCBs \subseteq TCBs' /\ Seq(TCBs) \subseteq Seq(TCBs')
  BY <1>0, Heap, SeqMayor DEF HeapCrece, TCBs
<1>2. tcb' \in Seq([PID : PIDs, TID : Nat, lineas : Nat, PC : Nat, libre : BOOLEAN])
  BY Heap DEF HeapCrece, RegistroTcb
<1> DEFINE Quedan == UNCHANGED <<TID_nuevo, visto, process_list, TIDs, cuenta>>
           Control ==
             /\ estado' \in {"vivo", "abortado"}
             /\ pc' \in [Hilos -> EtiquetasKernel \cup EtiquetasCpu]
             /\ \A c \in Conexiones : pc'[c] \in EtiquetasKernel
             /\ pc'[Cpu] \in EtiquetasCpu
             /\ pedido' \in [Conexiones -> PedidosPosibles]
             /\ cpu' \in [PID : PIDs \cup {NULL}, PC : Nat]
             /\ contexto' \in Nat
             /\ respondidos' \subseteq PIDs /\ bajas' \subseteq PIDs
           Referencias ==
             /\ TID_nuevo' \in [Conexiones -> Nat]
             /\ tcb_local' \in [Hilos -> {NULL} \cup TCBs']
             /\ visto' \in [Conexiones -> Seq(TCBs')]
             /\ process_list' \subseteq PIDs
             /\ TIDs' \in [PIDs -> Seq(TCBs')] /\ cuenta' \in [PIDs -> Nat]
<1>3. Control
  <2> USE <1>0 DEF TypeOK, EtiquetasKernel, EtiquetasCpu
  <2>1. CASE Muerte \/ SoloPc
    BY <2>1, ZenonT(60) DEF Muerte, SoloPc, Aceptar, AtenderAviso, CpuSeVa, LeerBasura, locales, cliente
  <2>2. ASSUME NEW c \in Conexiones, Pedido(c) PROVE Control
    <3>1. \A p : Pedir(c, p) /\ p \in PedidosPosibles =>
             /\ pedido' \in [Conexiones -> PedidosPosibles] /\ UNCHANGED <<cpu, contexto, respondidos>>
             /\ pc' \in [Hilos -> EtiquetasKernel \cup EtiquetasCpu]
             /\ \A d \in Conexiones : pc'[d] \in EtiquetasKernel
             /\ pc'[Cpu] \in EtiquetasCpu /\ estado' = estado
      BY DEF Pedir
    <3> QED
      BY <2>2, <3>1 DEF Pedido, PedirProceso, PedirHilo, PedirBaja, PedirAviso, PedidosPosibles
  <2>3. ASSUME NEW c \in Conexiones,
              \/ IniciarProceso(c) \/ SafePcbAdd(c) \/ AgregarPrincipal(c)
              \/ ContarHilos(c) \/ CargarHilo(c)
              \/ EnlazarHilo(c) \/ TomarHilo(c) \/ FreeTcb(c)
        PROVE Control
    <3>1. /\ UNCHANGED <<estado, pedido, cpu, contexto, respondidos, bajas>>
          /\ \E e \in EtiquetasKernel : pc' = [pc EXCEPT ![c] = e]
      BY <2>3 DEF IniciarProceso, SafePcbAdd, AgregarPrincipal, ContarHilos, CargarHilo,
         EnlazarHilo, TomarHilo, FreeTcb, cliente
    <3> QED
      BY <3>1
  <2>6. ASSUME NEW c \in Conexiones, ResponderSuccess(c) PROVE Control
    <3>1. pedido[c].PID \in PIDs
      BY <2>6, Carga DEF ResponderSuccess, IInv, Etiquetas
    <3> QED
      BY <2>6, <3>1 DEF ResponderSuccess, cliente
  <2>4. CASE PedirCpu
    <3>1. PICK pid \in respondidos, c \in Conexiones :
             /\ Crea(c, pid)
             /\ \E linea \in 0..Lineas[pedido[c].archivo] : cpu' = [PID |-> pid, PC |-> linea]
      BY <2>4 DEF PedirCpu, Crea
    <3>2. pedido[c].archivo \in DOMAIN Lineas
      BY <3>1 DEF IInv, Procesos, Principales, Ficha, Crea
    <3>3. cpu' \in [PID : PIDs \cup {NULL}, PC : Nat]
      BY <3>1, <3>2
    <3> QED
      BY <2>4, <3>3, SMTT(20) DEF PedirCpu
  <2>5. CASE BuscarHilo \/ ExecutionContext \/ GetInstruction \/ UpdateContext
    <3>1. ASSUME ExecutionContext PROVE contexto' \in Nat
      BY <3>1 DEF ExecutionContext, Contestar
    <3> QED
      BY <2>5, <3>1 DEF BuscarHilo, ExecutionContext, GetInstruction, UpdateContext, Contestar,
         cliente
  <2> QED
    BY <2>1, <2>2, <2>3, <2>4, <2>5, <2>6, Casos
<1>4. Referencias
  <2>0. /\ TID_nuevo \in [Conexiones -> Nat]
        /\ tcb_local \in [Hilos -> {NULL} \cup TCBs']
        /\ visto \in [Conexiones -> Seq(TCBs')]
        /\ process_list \subseteq PIDs
        /\ TIDs \in [PIDs -> Seq(TCBs')] /\ cuenta \in [PIDs -> Nat]
    BY <1>0, <1>1 DEF TypeOK
  <2>1. CASE UNCHANGED <<locales, listas>>
    BY <2>0, <2>1 DEF locales, listas
  <2>2. ASSUME NEW c \in Conexiones, IniciarProceso(c) \/ CargarHilo(c) PROVE Referencias
    <3>1. Len(tcb) + 1 \in TCBs'
      BY <1>0, <2>2, Nuevo DEF TCBs
    <3>2. CASE IniciarProceso(c)
      BY <2>0, <3>1, <3>2 DEF IniciarProceso, listas
    <3>3. CASE CargarHilo(c)
      <4>1. pedido[c].PID \in PIDs
        BY <1>0, <3>3, Carga DEF IInv, Etiquetas, CargarHilo
      <4> QED
        BY <2>0, <3>1, <3>3, <4>1 DEF CargarHilo, listas
    <3> QED
      BY <2>2, <3>2, <3>3
  <2>3. ASSUME NEW c \in Conexiones, SafePcbAdd(c) PROVE Referencias
    <3>1. pedido[c].PID \in PIDs
      BY <1>0, <2>3, Carga DEF IInv, Etiquetas, SafePcbAdd
    <3> QED
      BY <2>0, <2>3, <3>1 DEF SafePcbAdd, locales
  <2>4. ASSUME NEW c \in Conexiones, AgregarPrincipal(c) \/ EnlazarHilo(c) PROVE Referencias
    <3>1. TIDs' \in [PIDs -> Seq(TCBs')] /\ pedido[c].PID \in PIDs
      BY <1>1, <2>4, Principal, Enlazado DEF OtrasListas
    <3>2. cuenta' = [cuenta EXCEPT ![pedido[c].PID] = @ + 1] /\ UNCHANGED <<locales, process_list>>
      BY <2>4 DEF AgregarPrincipal, EnlazarHilo
    <3>3. cuenta' \in [PIDs -> Nat]
      <4>1. pedido[c].PID \in PIDs /\ cuenta[pedido[c].PID] + 1 \in Nat
        <5>1. pedido[c].PID \in PIDs /\ cuenta[pedido[c].PID] \in Nat
          BY <2>0, <3>1
        <5> QED
          BY <5>1
      <4>2. cuenta' = [cuenta EXCEPT ![pedido[c].PID] = cuenta[pedido[c].PID] + 1]
        BY <3>2
      <4> QED
        BY <2>0, <4>1, <4>2
    <3> QED
      BY <2>0, <3>1, <3>2, <3>3 DEF locales
  <2>5. ASSUME NEW c \in Conexiones, ContarHilos(c) PROVE Referencias
    <3>1. pedido[c].PID \in PIDs
      BY <1>0, <2>5, Carga DEF ContarHilos, Pide
    <3> QED
      BY <2>0, <2>5, <3>1 DEF ContarHilos, listas
  <2>6. ASSUME NEW c \in Conexiones, TomarHilo(c) PROVE Referencias
    <3> DEFINE pid == pedido[c].PID
    <3>1. pid \in PIDs /\ TIDs' \in [PIDs -> Seq(TCBs')]
      BY <1>1, <2>6, Tomada DEF OtrasListas
    <3>2. PICK i \in 1..Len(TIDs[pid]) : tcb_local' = [tcb_local EXCEPT ![c] = TIDs[pid][i]]
      BY <2>6, Tomada
    <3>3. TIDs[pid] \in Seq(TCBs')
      BY <2>0, <3>1
    <3>4. TIDs[pid][i] \in TCBs' /\ Len(TIDs[pid]) >= 1
      BY <3>3
    <3>5. cuenta[pid] - 1 \in Nat
      <4>1. cuenta[pid] \in Nat /\ Len(TIDs[pid]) <= cuenta[pid]
        BY <2>0, <3>1 DEF IInv, Procesos
      <4>2. Len(TIDs[pid]) \in Nat
        BY <3>3
      <4> QED
        BY <3>4, <4>1, <4>2
    <3>6. /\ cuenta' = [cuenta EXCEPT ![pid] = @ - 1]
          /\ UNCHANGED <<TID_nuevo, visto, process_list>>
      BY <2>6 DEF TomarHilo
    <3>7. cuenta' \in [PIDs -> Nat]
      BY <2>0, <3>1, <3>5, <3>6
    <3> QED
      BY <2>0, <3>1, <3>2, <3>4, <3>6, <3>7
  <2>7. CASE BuscarHilo \/ ExecutionContext \/ GetInstruction \/ UpdateContext
    <3>1. BuscarHilo => \E t \in TCBs' : tcb_local' = [tcb_local EXCEPT ![Cpu] = t]
      <4>1. DOMAIN tcb = TCBs
        BY <1>0 DEF TypeOK, TCBs
      <4> QED
        BY <1>1, <4>1 DEF BuscarHilo
    <3>2. ~BuscarHilo => tcb_local' = [tcb_local EXCEPT ![Cpu] = NULL]
      BY <2>7 DEF ExecutionContext, GetInstruction, UpdateContext, Contestar
    <3>3. UNCHANGED <<TID_nuevo, visto, listas>>
      BY <2>7 DEF BuscarHilo, ExecutionContext, GetInstruction, UpdateContext
    <3> QED
      BY <2>0, <3>1, <3>2, <3>3 DEF listas
  <2> QED
    BY <2>1, <2>2, <2>3, <2>4, <2>5, <2>6, <2>7, Casos
       DEF Muerte, SoloPc, Aceptar, AtenderAviso, CpuSeVa, LeerBasura, Pedido, PedirProceso,
           PedirHilo, PedirBaja, PedirAviso, Pedir, ResponderSuccess, FreeTcb, PedirCpu
<1> QED
  BY <1>2, <1>3, <1>4 DEF TypeOK

-----------------------------------------------------------------------------
(* Who asks for what                                                       *)

\* A thread of a connection changes its own place and none of the requests.
LEMMA PasosKernel ==
  ASSUME NEW c \in Conexiones
  PROVE  /\ IniciarProceso(c) =>
               /\ Pide(c, "PROCESS_CREATION") /\ Paso(c, "recv", "safe_pcb_add")
               /\ UNCHANGED <<pedido, TID_nuevo, visto, listas, cliente, respondidos>>
         /\ SafePcbAdd(c) =>
               /\ Paso(c, "safe_pcb_add", "list_add_principal")
               /\ process_list' = process_list \cup {pedido[c].PID}
               /\ UNCHANGED <<pedido, locales, TIDs, cuenta, tcb, cliente, respondidos>>
         /\ AgregarPrincipal(c) =>
               /\ Paso(c, "list_add_principal", "responder")
               /\ UNCHANGED <<pedido, locales, process_list, tcb, cliente, respondidos>>
         /\ ResponderSuccess(c) =>
               /\ Paso(c, "responder", "cerrada")
               /\ respondidos' = respondidos \cup {pedido[c].PID}
               /\ UNCHANGED <<pedido, locales, listas, tcb, cliente>>
         /\ ContarHilos(c) =>
               /\ Pide(c, "THREAD_CREATION") /\ Paso(c, "recv", "thread_initiate")
               /\ UNCHANGED <<pedido, tcb_local, visto, listas, tcb, cliente, respondidos>>
         /\ CargarHilo(c) =>
               /\ Paso(c, "thread_initiate", "list_add")
               /\ UNCHANGED <<pedido, TID_nuevo, listas, cliente, respondidos>>
         /\ EnlazarHilo(c) =>
               /\ Paso(c, "list_add", "cerrada")
               /\ UNCHANGED <<pedido, locales, process_list, tcb, cliente, respondidos>>
         /\ TomarHilo(c) =>
               /\ Pide(c, "THREAD_KILL") /\ Paso(c, "recv", "free_tcb")
               /\ UNCHANGED <<pedido, TID_nuevo, visto, process_list, tcb, cliente, respondidos>>
         /\ FreeTcb(c) =>
               /\ Paso(c, "free_tcb", "cerrada")
               /\ UNCHANGED <<pedido, locales, listas, cliente, respondidos>>
  BY DEF IniciarProceso, SafePcbAdd, AgregarPrincipal, ResponderSuccess, ContarHilos,
     CargarHilo, EnlazarHilo, TomarHilo, FreeTcb, Paso

DelKernel(c) ==
  \/ IniciarProceso(c) \/ SafePcbAdd(c) \/ AgregarPrincipal(c) \/ ResponderSuccess(c)
  \/ ContarHilos(c) \/ CargarHilo(c) \/ EnlazarHilo(c) \/ TomarHilo(c) \/ FreeTcb(c)

DeLaCpu ==
  PedirCpu \/ BuscarHilo \/ ExecutionContext \/ GetInstruction \/ UpdateContext

\* The CPU touches neither the requests of the kernel nor what they keep.
LEMMA PasosCpu ==
  ASSUME TypeOK, DeLaCpu
  PROVE  /\ UNCHANGED <<estado, pedido, TID_nuevo, visto, listas, respondidos, bajas>>
         /\ \A c \in Conexiones : pc'[c] = pc[c] /\ tcb_local'[c] = tcb_local[c]
  BY DEF DeLaCpu, PedirCpu, BuscarHilo, ExecutionContext, GetInstruction, UpdateContext,
     Contestar, Paso, TypeOK, locales, listas, cliente

\* The request of a connection that had none.
LEMMA Peticion ==
  ASSUME TypeOK, Etiquetas, NEW c \in Conexiones, Pedido(c)
  PROVE  /\ pc[c] = "libre" /\ pedido[c].op = "ninguna" /\ pc' = [pc EXCEPT ![c] = "accept"]
         /\ UNCHANGED <<estado, locales, listas, tcb, cpu, contexto, respondidos>>
         /\ \A d \in Conexiones \ {c} : pedido'[d] = pedido[d]
         /\ \/ /\ bajas' = bajas
               /\ \E pid \in PIDs : Crea(c, pid)' /\ \A d \in Conexiones : ~Crea(d, pid)
            \/ /\ bajas' = bajas
               /\ pedido'[c].op = "THREAD_CREATION" /\ pedido'[c].PID \in respondidos \ bajas
            \/ /\ pedido'[c].op = "THREAD_KILL" /\ pedido'[c].TID = 0
               /\ pedido'[c].PID \in respondidos \ bajas
               /\ bajas' = bajas \cup {pedido'[c].PID}
            \/ /\ bajas' = bajas
               /\ pedido'[c].op \in {"PROCESS_KILL", "MEMORY_DUMP"}
<1>1. \A p : Pedir(c, p) =>
        /\ pc[c] = "libre" /\ pc' = [pc EXCEPT ![c] = "accept"] /\ pedido'[c] = p
        /\ UNCHANGED <<estado, locales, listas, tcb, cpu, contexto, respondidos>>
        /\ \A d \in Conexiones \ {c} : pedido'[d] = pedido[d]
  BY DEF Pedir, Paso, TypeOK
<1>2. pc[c] = "libre" => pedido[c].op = "ninguna"
  BY DEF Etiquetas
<1>3. CASE PedirProceso(c)
  <2>1. PICK pid \in PIDs, a \in Archivos :
           /\ \A d \in Conexiones : pedido[d].op = "PROCESS_CREATION" => pedido[d].PID # pid
           /\ Pedir(c, [op |-> "PROCESS_CREATION", PID |-> pid, archivo |-> a])
    BY <1>3 DEF PedirProceso
  <2>2. Crea(c, pid)' /\ \A d \in Conexiones : ~Crea(d, pid)
    BY <1>1, <2>1 DEF Crea
  <2> QED
    BY <1>1, <1>2, <1>3, <2>1, <2>2 DEF PedirProceso
<1>4. CASE PedirHilo(c)
  <2>1. PICK pid \in respondidos \ bajas, a \in Archivos :
           Pedir(c, [op |-> "THREAD_CREATION", PID |-> pid, archivo |-> a])
    BY <1>4 DEF PedirHilo
  <2> QED
    BY <1>1, <1>2, <1>4, <2>1 DEF PedirHilo
<1>5. CASE PedirBaja(c)
  <2>1. PICK pid \in respondidos \ bajas :
           /\ Pedir(c, [op |-> "THREAD_KILL", PID |-> pid, TID |-> 0])
           /\ bajas' = bajas \cup {pid}
    BY <1>5 DEF PedirBaja
  <2> QED
    BY <1>1, <1>2, <2>1
<1>6. CASE PedirAviso(c)
  <2>1. PICK op \in {"PROCESS_KILL", "MEMORY_DUMP"} : Pedir(c, [op |-> op])
    BY <1>6 DEF PedirAviso
  <2> QED
    BY <1>1, <1>2, <1>6, <2>1 DEF PedirAviso
<1> QED
  BY <1>3, <1>4, <1>5, <1>6 DEF Pedido

\* The cases of a step, for the proofs that follow.
LEMMA Grupos ==
  ASSUME [Next]_vars
  PROVE  \/ Muerte \/ SoloPc \/ DeLaCpu
         \/ \E c \in Conexiones : Pedido(c) \/ DelKernel(c)
  BY Casos DEF DelKernel, DeLaCpu

\* What a step that is not a request leaves alone.
LEMMA PasosSolos ==
  ASSUME TypeOK, Muerte \/ SoloPc
  PROVE  /\ UNCHANGED <<pedido, locales, listas, tcb, cliente, respondidos>>
         /\ \A c \in Conexiones :
               \/ pc'[c] = pc[c]
               \/ pc[c] = "accept" /\ pc'[c] = "recv"
               \/ /\ pc[c] = "recv" /\ pc'[c] = "cerrada"
                  /\ pedido[c].op \in {"PROCESS_KILL", "MEMORY_DUMP"}
         /\ pc'[Cpu] = pc[Cpu] \/ (pc[Cpu] = "recv" /\ pc'[Cpu] = "perdida")
<1>1. CASE Muerte
  BY <1>1 DEF Muerte
<1>2. ASSUME NEW c \in Conexiones, Aceptar(c)
      PROVE  pc' = [pc EXCEPT ![c] = "recv"] /\ pc[c] = "accept"
  BY <1>2 DEF Aceptar, Paso
<1>3. ASSUME NEW c \in Conexiones, AtenderAviso(c)
      PROVE  /\ pc' = [pc EXCEPT ![c] = "cerrada"] /\ pc[c] = "recv"
             /\ pedido[c].op \in {"PROCESS_KILL", "MEMORY_DUMP"}
  BY <1>3 DEF AtenderAviso, Paso
<1>4. CASE CpuSeVa \/ LeerBasura
  BY <1>4 DEF CpuSeVa, LeerBasura, Paso, TypeOK
<1>5. SoloPc => UNCHANGED <<pedido, locales, listas, tcb, cliente, respondidos>>
  BY DEF SoloPc, Aceptar, AtenderAviso, CpuSeVa, LeerBasura
<1> QED
  BY <1>1, <1>2, <1>3, <1>4, <1>5 DEF SoloPc, TypeOK

\* Every step leaves each thread at a line its request reaches.
LEMMA EtiquetasPaso ==
  ASSUME IInv, [Next]_vars
  PROVE  Etiquetas'
<1> USE DEF IInv, Etiquetas
<1>1. CASE Muerte \/ SoloPc
  BY <1>1, PasosSolos DEF cliente
<1>2. CASE DeLaCpu
  BY <1>2, PasosCpu
<1>3. ASSUME NEW c \in Conexiones, Pedido(c) PROVE Etiquetas'
  <2>1. \A d \in Conexiones \ {c} : pc'[d] = pc[d] /\ pedido'[d] = pedido[d]
    BY <1>3, Peticion, SMTT(20) DEF TypeOK
  <2>2. /\ pc'[c] = "accept" /\ bajas \subseteq bajas' /\ respondidos' = respondidos
        /\ pedido'[c].op = "THREAD_CREATION" => pedido'[c].PID \in respondidos
        /\ pedido'[c].op = "THREAD_KILL" => pedido'[c].PID \in bajas' /\ pedido'[c].TID = 0
    BY <1>3, Peticion, ZenonT(60) DEF TypeOK, Crea
  <2> QED
    BY <2>1, <2>2
<1>4. ASSUME NEW c \in Conexiones, DelKernel(c) PROVE Etiquetas'
  BY <1>4, PasosKernel DEF DelKernel, Paso, Pide, TypeOK, cliente
<1> QED
  BY <1>1, <1>2, <1>3, <1>4, Grupos

\* Steps that leave the lists alone, and every creation as far as it was.
LEMMA ProcesosQuietos ==
  ASSUME Procesos,
         UNCHANGED <<pedido, process_list, TIDs, cuenta, respondidos, bajas>>,
         \A d \in Conexiones : pedido[d].op = "PROCESS_CREATION" =>
            \/ pc'[d] = pc[d]
            \/ {pc[d], pc'[d]} \cap {"list_add_principal", "responder", "cerrada"} = {}
  PROVE  Procesos'
<1>1. \A d \in Conexiones, pid \in PIDs :
         (Crea(d, pid)' <=> Crea(d, pid)) /\ (Mata(d, pid)' <=> Mata(d, pid))
  BY DEF Crea, Mata
<1>2. \A d \in Conexiones, pid \in PIDs : Crea(d, pid) =>
         /\ pc'[d] \in {"list_add_principal", "responder", "cerrada"} <=>
               pc[d] \in {"list_add_principal", "responder", "cerrada"}
         /\ pc'[d] \in {"responder", "cerrada"} <=> pc[d] \in {"responder", "cerrada"}
         /\ pc'[d] = "cerrada" <=> pc[d] = "cerrada"
  BY DEF Crea
<1>3. \A c, d \in Conexiones, pid \in PIDs :
         \/ Crea(c, pid)' /\ Crea(d, pid)'
         \/ Mata(c, pid)' /\ Mata(d, pid)'
         => c = d
  BY <1>1 DEF Procesos
<1>4. \A c \in Conexiones, pid \in PIDs : Crea(c, pid)' =>
         /\ pid \in process_list' <=>
               pc'[c] \in {"list_add_principal", "responder", "cerrada"}
         /\ pid \in respondidos' <=> pc'[c] = "cerrada"
  BY <1>1, <1>2 DEF Procesos
<1>5. \A pid \in PIDs :
         /\ pid \in process_list' => \E c \in Conexiones : Crea(c, pid)'
         /\ TIDs'[pid] # <<>> \/ cuenta'[pid] # 0 =>
               \E c \in Conexiones : Crea(c, pid)' /\ pc'[c] \in {"responder", "cerrada"}
         /\ Len(TIDs'[pid]) <= cuenta'[pid]
  BY <1>1, <1>2 DEF Procesos
<1>6. bajas' \subseteq respondidos' /\ respondidos' \subseteq process_list'
  BY DEF Procesos
<1> QED
  BY ONLY <1>3, <1>4, <1>5, <1>6 DEF Procesos

\* Every step keeps what a process owes to its requests: who created it and who ends it.
LEMMA ProcesosPaso ==
  ASSUME IInv, [Next]_vars
  PROVE  Procesos'
<1>0. TypeOK /\ Etiquetas /\ Procesos
  BY DEF IInv
<1>1. CASE Muerte \/ SoloPc
  <2>1. UNCHANGED <<pedido, process_list, TIDs, cuenta, respondidos, bajas>>
    BY <1>0, <1>1, PasosSolos DEF listas, cliente
  <2>2. \A d \in Conexiones :
           \/ pc'[d] = pc[d] \/ (pc[d] = "accept" /\ pc'[d] = "recv")
           \/ pedido[d].op \in {"PROCESS_KILL", "MEMORY_DUMP"}
    BY <1>0, <1>1, PasosSolos
  <2> QED
    BY <1>0, <2>1, <2>2, ProcesosQuietos
<1>2. CASE DeLaCpu
  <2>1. /\ UNCHANGED <<pedido, process_list, TIDs, cuenta, respondidos, bajas>>
        /\ \A d \in Conexiones : pc'[d] = pc[d]
    BY <1>0, <1>2, PasosCpu DEF listas
  <2> QED
    BY <1>0, <2>1, ProcesosQuietos
<1>3. ASSUME NEW c \in Conexiones, Pedido(c) PROVE Procesos'
  <2>1. \A d \in Conexiones \ {c} : pc'[d] = pc[d] /\ pedido'[d] = pedido[d]
    BY <1>0, <1>3, Peticion DEF TypeOK
  <2>2. /\ pc[c] = "libre" /\ pc'[c] = "accept" /\ pedido[c].op = "ninguna"
        /\ UNCHANGED <<process_list, TIDs, cuenta, respondidos>>
    BY <1>0, <1>3, Peticion DEF TypeOK, listas
  <2>3. CASE pedido'[c].op = "PROCESS_CREATION"
    <3>1. bajas' = bajas /\ \A d \in Conexiones : ~Crea(d, pedido'[c].PID)
      BY <1>0, <1>3, <2>3, Peticion DEF Crea
    <3> QED
      BY <2>1, <2>2, <2>3, <3>1, <1>0 DEF Procesos, Crea, Mata
  <2>4. CASE pedido'[c].op = "THREAD_KILL"
    <3>1. /\ pedido'[c].PID \in respondidos \ bajas /\ bajas' = bajas \cup {pedido'[c].PID}
      BY <1>0, <1>3, <2>4, Peticion DEF Crea
    <3>2. \A d \in Conexiones : ~Mata(d, pedido'[c].PID)
      BY <1>0, <3>1 DEF Etiquetas, Mata
    <3> QED
      BY <2>1, <2>2, <2>4, <3>1, <3>2, <1>0 DEF Procesos, Crea, Mata
  <2>5. CASE pedido'[c].op \notin {"PROCESS_CREATION", "THREAD_KILL"}
    <3>1. bajas' = bajas
      BY <1>0, <1>3, <2>5, Peticion DEF Crea
    <3> QED
      BY <2>1, <2>2, <2>5, <3>1, <1>0 DEF Procesos, Crea, Mata
  <2> QED
    BY <2>3, <2>4, <2>5
<1>4. ASSUME NEW c \in Conexiones,
             IniciarProceso(c) \/ ContarHilos(c) \/ CargarHilo(c) \/ FreeTcb(c)
      PROVE  Procesos'
  <2>1. /\ UNCHANGED <<pedido, process_list, TIDs, cuenta, respondidos, bajas>>
        /\ \A d \in Conexiones \ {c} : pc'[d] = pc[d]
    BY <1>0, <1>4, PasosKernel DEF Paso, TypeOK, listas, cliente
  <2>2. \/ pedido[c].op # "PROCESS_CREATION"
        \/ pc[c] = "recv" /\ pc'[c] = "safe_pcb_add"
    BY <1>0, <1>4, PasosKernel DEF Paso, Pide, TypeOK, Etiquetas
  <2>3. \A d \in Conexiones : pedido[d].op = "PROCESS_CREATION" =>
           \/ pc'[d] = pc[d]
           \/ {pc[d], pc'[d]} \cap {"list_add_principal", "responder", "cerrada"} = {}
    BY <2>1, <2>2
  <2> QED
    BY <1>0, <2>1, <2>3, ProcesosQuietos
<1>5. ASSUME NEW c \in Conexiones, SafePcbAdd(c) \/ ResponderSuccess(c)
      PROVE  Procesos'
  <2>1. /\ Crea(c, pedido[c].PID) /\ UNCHANGED <<pedido, TIDs, cuenta, bajas>>
        /\ \A d \in Conexiones \ {c} : pc'[d] = pc[d]
    BY <1>0, <1>5, PasosKernel DEF Paso, TypeOK, Etiquetas, Crea, listas, cliente
  <2>2. CASE SafePcbAdd(c)
    <3>1. /\ pc[c] = "safe_pcb_add" /\ pc'[c] = "list_add_principal"
          /\ process_list' = process_list \cup {pedido[c].PID} /\ respondidos' = respondidos
      BY <1>0, <2>2, PasosKernel DEF Paso, TypeOK
    <3>2. pedido[c].PID \in PIDs
      BY <1>0, <2>1, Carga DEF Crea
    <3>3. \A d \in Conexiones, pid \in PIDs : Crea(d, pid) =>
             /\ pid \in process_list' <=>
                   pc'[d] \in {"list_add_principal", "responder", "cerrada"}
             /\ pid \in respondidos' <=> pc'[d] = "cerrada"
      BY <1>0, <2>1, <3>1, <3>2 DEF Procesos, Crea
    <3>4. \A pid \in PIDs :
             /\ pid \in process_list' => \E d \in Conexiones : Crea(d, pid)
             /\ TIDs'[pid] # <<>> \/ cuenta'[pid] # 0 =>
                  \E d \in Conexiones : Crea(d, pid) /\ pc'[d] \in {"responder", "cerrada"}
             /\ Len(TIDs'[pid]) <= cuenta'[pid]
      <4>1. \A d \in Conexiones : pc[d] \in {"responder", "cerrada"} =>
               pc'[d] \in {"responder", "cerrada"}
        BY <2>1, <3>1
      <4> QED
        BY <1>0, <2>1, <3>1, <4>1 DEF Procesos
    <3>5. bajas' \subseteq respondidos' /\ respondidos' \subseteq process_list'
      BY <1>0, <2>1, <3>1 DEF Procesos
    <3>6. \A d \in Conexiones, pid \in PIDs :
             (Crea(d, pid)' <=> Crea(d, pid)) /\ (Mata(d, pid)' <=> Mata(d, pid))
      BY <2>1 DEF Crea, Mata
    <3>7. \A a, d \in Conexiones, pid \in PIDs :
             \/ Crea(a, pid)' /\ Crea(d, pid)'
             \/ Mata(a, pid)' /\ Mata(d, pid)'
             => a = d
      BY <1>0, <3>6 DEF Procesos
    <3>8. \A d \in Conexiones, pid \in PIDs : Crea(d, pid)' =>
             /\ pid \in process_list' <=>
                   pc'[d] \in {"list_add_principal", "responder", "cerrada"}
             /\ pid \in respondidos' <=> pc'[d] = "cerrada"
      BY <3>3, <3>6
    <3>9. \A pid \in PIDs :
             /\ pid \in process_list' => \E d \in Conexiones : Crea(d, pid)'
             /\ TIDs'[pid] # <<>> \/ cuenta'[pid] # 0 =>
                  \E d \in Conexiones : Crea(d, pid)' /\ pc'[d] \in {"responder", "cerrada"}
             /\ Len(TIDs'[pid]) <= cuenta'[pid]
      BY <3>4, <3>6
    <3> QED
      BY ONLY <3>5, <3>7, <3>8, <3>9 DEF Procesos
  <2>3. CASE ResponderSuccess(c)
    <3>1. /\ pc[c] = "responder" /\ pc'[c] = "cerrada"
          /\ respondidos' = respondidos \cup {pedido[c].PID} /\ process_list' = process_list
      BY <1>0, <2>3, PasosKernel DEF Paso, TypeOK, listas
    <3>2. pedido[c].PID \in process_list
      BY <1>0, <2>1, <3>1, Carga DEF Procesos, Crea
    <3> QED
      BY <1>0, <2>1, <3>1, <3>2 DEF Procesos, Crea, Mata
  <2> QED
    BY <1>5, <2>2, <2>3
<1>6. ASSUME NEW c \in Conexiones, AgregarPrincipal(c) \/ EnlazarHilo(c) \/ TomarHilo(c)
      PROVE  Procesos'
  <2> DEFINE pid == pedido[c].PID
  <2>1. /\ UNCHANGED <<pedido, process_list, respondidos, bajas>>
        /\ \A d \in Conexiones \ {c} : pc'[d] = pc[d]
        /\ pid \in PIDs /\ TIDs[pid] \in Seq(TCBs) /\ cuenta[pid] \in Nat
    <3>1. pid \in PIDs
      BY <1>6, Principal, Enlazado, Tomada
    <3>2. UNCHANGED <<pedido, process_list, respondidos, bajas>>
      BY <1>6, PasosKernel DEF cliente
    <3>3. \/ pc' = [pc EXCEPT ![c] = "responder"]
          \/ pc' = [pc EXCEPT ![c] = "cerrada"]
          \/ pc' = [pc EXCEPT ![c] = "free_tcb"]
      BY <1>6, PasosKernel DEF Paso
    <3>4. \A d \in Conexiones \ {c} : pc'[d] = pc[d]
      BY <1>0, <3>3 DEF TypeOK
    <3>5. TIDs[pid] \in Seq(TCBs) /\ cuenta[pid] \in Nat
      BY <1>0, <3>1 DEF TypeOK
    <3> QED
      BY <3>1, <3>2, <3>4, <3>5
  <2>2. \A q \in PIDs : q # pid => TIDs'[q] = TIDs[q] /\ cuenta'[q] = cuenta[q]
    <3>1. OtrasListas(c)
      BY <1>6, Principal, Enlazado, Tomada
    <3>2. \/ cuenta' = [cuenta EXCEPT ![pid] = cuenta[pid] + 1]
          \/ cuenta' = [cuenta EXCEPT ![pid] = cuenta[pid] - 1]
      BY <1>6 DEF AgregarPrincipal, EnlazarHilo, TomarHilo
    <3>3. \A q \in PIDs : q # pid => cuenta'[q] = cuenta[q]
      BY <1>0, <3>2 DEF TypeOK
    <3> QED
      BY <3>1, <3>3 DEF OtrasListas
  <2>3. /\ Len(TIDs[pid]) \in Nat /\ Len(TIDs[pid]) <= cuenta[pid]
    <3>1. Len(TIDs[pid]) <= cuenta[pid]
      BY <1>0, <2>1 DEF Procesos
    <3>2. Len(TIDs[pid]) \in Nat
      BY <2>1
    <3> QED
      BY <3>1, <3>2
  <2>4. /\ Len(TIDs'[pid]) <= cuenta'[pid]
        /\ \E d \in Conexiones : Crea(d, pid) /\ pc'[d] \in {"responder", "cerrada"}
    <3>1. CASE AgregarPrincipal(c)
      <4>1. cuenta'[pid] = cuenta[pid] + 1 /\ pc'[c] = "responder"
        BY <1>0, <2>1, <3>1 DEF AgregarPrincipal, TypeOK, Paso
      <4>2. Crea(c, pid) /\ Len(TIDs'[pid]) = 0 + 1
        BY <3>1, Principal DEF Alarga
      <4> QED
        BY <2>1, <4>1, <4>2
    <3>2. CASE EnlazarHilo(c)
      <4>1. cuenta'[pid] = cuenta[pid] + 1
        BY <1>0, <2>1, <3>2 DEF EnlazarHilo, TypeOK
      <4>2. \/ TIDs'[pid] = TIDs[pid]
            \/ \E k \in 0..Len(TIDs[pid]) : Len(TIDs'[pid]) = k + 1
        BY <3>2, Enlazado DEF Alarga
      <4>3. pedido[c].op = "THREAD_CREATION" /\ pid \in respondidos /\ pid \in process_list
        BY <1>0, <3>2, Enlazado DEF Etiquetas, Procesos
      <4>4. PICK d \in Conexiones : Crea(d, pid)
        BY <1>0, <2>1, <4>3 DEF Procesos
      <4>5. pc[d] = "cerrada" /\ d # c
        BY <1>0, <2>1, <4>3, <4>4 DEF Procesos, Crea
      <4>6. Len(TIDs'[pid]) <= cuenta'[pid]
        BY <2>1, <2>3, <4>1, <4>2
      <4> QED
        BY <2>1, <4>4, <4>5, <4>6
    <3>3. CASE TomarHilo(c)
      <4>1. cuenta'[pid] = cuenta[pid] - 1
        BY <1>0, <2>1, <3>3 DEF TomarHilo, TypeOK
      <4>2. Len(TIDs'[pid]) = Len(TIDs[pid]) - 1
        BY <3>3, Tomada DEF Acorta
      <4>3. pedido[c].op = "THREAD_KILL" /\ pid \in respondidos /\ pid \in process_list
        BY <1>0, <3>3, Tomada DEF Procesos
      <4>4. PICK d \in Conexiones : Crea(d, pid)
        BY <1>0, <2>1, <4>3 DEF Procesos
      <4>5. pc[d] = "cerrada" /\ d # c
        BY <1>0, <2>1, <4>3, <4>4 DEF Procesos, Crea
      <4>6. Len(TIDs'[pid]) <= cuenta'[pid]
        BY <2>1, <2>3, <4>1, <4>2
      <4> QED
        BY <2>1, <4>4, <4>5, <4>6
    <3> QED
      BY <1>6, <3>1, <3>2, <3>3
  <2>5. \/ pc[c] = "list_add_principal" /\ pc'[c] = "responder"
        \/ pedido[c].op # "PROCESS_CREATION"
    BY <1>0, <1>6, PasosKernel, Enlazado, Tomada DEF Paso, TypeOK
  <2> QED
    BY <1>0, <2>1, <2>2, <2>4, <2>5, SMTT(20) DEF Procesos, Crea, Mata
<1> QED
  BY <1>1, <1>2, <1>3, <1>4, <1>5, <1>6, Grupos DEF DelKernel

-----------------------------------------------------------------------------
(* Where each TCB is                                                       *)

Enlistados ==
  \A pid \in PIDs : \A i \in DOMAIN TIDs[pid] :
     /\ ~tcb[TIDs[pid][i]].libre /\ tcb[TIDs[pid][i]].PID = pid
     /\ \A j \in 1..i-1 : TIDs[pid][j] # TIDs[pid][i]

ListaSana(pid) ==
  /\ TIDs[pid] \in Seq(TCBs) /\ Len(TIDs[pid]) \in Nat
  /\ DOMAIN TIDs[pid] = 1..Len(TIDs[pid])
  /\ \A i \in 1..Len(TIDs[pid]) :
        /\ TIDs[pid][i] \in TCBs
        /\ ~tcb[TIDs[pid][i]].libre /\ tcb[TIDs[pid][i]].PID = pid
        /\ \A j \in 1..Len(TIDs[pid]) : TIDs[pid][j] = TIDs[pid][i] => j = i

\* The list of a process holds live TCBs of that process, none of them twice.
LEMMA Listas ==
  ASSUME IInv, NEW pid \in PIDs
  PROVE  ListaSana(pid)
<1>1. TIDs[pid] \in Seq(TCBs)
  BY DEF IInv, TypeOK
<1>2. /\ Len(TIDs[pid]) \in Nat /\ DOMAIN TIDs[pid] = 1..Len(TIDs[pid])
      /\ \A i \in 1..Len(TIDs[pid]) : TIDs[pid][i] \in TCBs
  BY <1>1
<1>3. \A i \in 1..Len(TIDs[pid]) :
         /\ ~tcb[TIDs[pid][i]].libre /\ tcb[TIDs[pid][i]].PID = pid
         /\ \A j \in 1..i-1 : TIDs[pid][j] # TIDs[pid][i]
  BY <1>2 DEF IInv, SinColgados
<1>4. ASSUME NEW i \in 1..Len(TIDs[pid]), NEW j \in 1..Len(TIDs[pid]),
             TIDs[pid][j] = TIDs[pid][i]
      PROVE  j = i
  <2>1. j \in 1..i-1 \/ i \in 1..j-1 \/ j = i
    BY <1>2
  <2> QED
    BY <1>3, <1>4, <2>1
<1> QED
  BY <1>1, <1>2, <1>3, <1>4 DEF ListaSana

\* A listed TCB is alive, has one position, and is in no connection's hands.
LEMMA EnLista ==
  ASSUME IInv, NEW pid \in PIDs, NEW i \in DOMAIN TIDs[pid]
  PROVE  /\ i \in 1..Len(TIDs[pid]) /\ TIDs[pid][i] \in TCBs
         /\ ~tcb[TIDs[pid][i]].libre /\ tcb[TIDs[pid][i]].PID = pid
         /\ \A j \in DOMAIN TIDs[pid] : TIDs[pid][j] = TIDs[pid][i] => j = i
         /\ \A j \in 1..i-1 : TIDs[pid][j] # TIDs[pid][i]
         /\ \A c \in Conexiones : EnMano(c) => TIDs[pid][i] # tcb_local[c]
<1>1. ListaSana(pid)
  BY Listas
<1>2. i \in 1..Len(TIDs[pid])
  BY <1>1 DEF ListaSana
<1>3. /\ TIDs[pid][i] \in TCBs
      /\ ~tcb[TIDs[pid][i]].libre /\ tcb[TIDs[pid][i]].PID = pid
      /\ \A j \in DOMAIN TIDs[pid] : TIDs[pid][j] = TIDs[pid][i] => j = i
  BY <1>1, <1>2 DEF ListaSana
<1>4. \A j \in 1..i-1 : TIDs[pid][j] # TIDs[pid][i]
  BY DEF IInv, SinColgados
<1>5. \A c \in Conexiones : EnMano(c) => TIDs[pid][i] # tcb_local[c]
  BY DEF IInv, Propios
<1> QED
  BY <1>2, <1>3, <1>4, <1>5

\* A step that moves no TCB: it changes no list, no TCB but its PC, and gives
\* none to a thread of a connection.
LEMMA SinMover ==
  ASSUME IInv, HeapCrece, UNCHANGED <<pedido, TIDs>>,
         \A t \in TCBs : tcb'[t].libre = tcb[t].libre,
         \A c \in Conexiones : EnMano(c)' => EnMano(c) /\ tcb_local'[c] = tcb_local[c]
  PROVE  Propios' /\ Enlistados'
<1>1. ASSUME NEW pid \in PIDs, NEW i \in DOMAIN TIDs'[pid]
      PROVE  /\ ~tcb'[TIDs'[pid][i]].libre /\ tcb'[TIDs'[pid][i]].PID = pid
             /\ \A j \in 1..i-1 : TIDs'[pid][j] # TIDs'[pid][i]
  <2>0. TIDs'[pid] = TIDs[pid] /\ i \in DOMAIN TIDs[pid]
    OBVIOUS
  <2>1. TIDs'[pid] = TIDs[pid] /\ TIDs[pid][i] \in TCBs
    BY <2>0, EnLista
  <2>2. \A j \in 1..i-1 : TIDs[pid][j] # TIDs[pid][i]
    BY <2>0, EnLista
  <2>3. ~tcb[TIDs[pid][i]].libre /\ tcb[TIDs[pid][i]].PID = pid
    BY <2>0, EnLista
  <2>4. /\ tcb'[TIDs[pid][i]].libre = tcb[TIDs[pid][i]].libre
        /\ tcb'[TIDs[pid][i]].PID = tcb[TIDs[pid][i]].PID
    BY <2>1 DEF HeapCrece
  <2> QED
    BY <2>1, <2>2, <2>3, <2>4
<1>2. \A t \in TCBs : t \in TCBs'
  BY DEF TCBs, HeapCrece, IInv, TypeOK
<1>3. Propios'
  BY <1>2 DEF Propios, HeapCrece, IInv
<1> QED
  BY <1>1, <1>3 DEF Enlistados

\* Every step keeps each TCB in one place: the hands of its connection or a position of
\* the list of its process.
LEMMA LugarPaso ==
  ASSUME IInv, [Next]_vars
  PROVE  Propios' /\ Enlistados'
<1>0. TypeOK /\ Etiquetas /\ Procesos /\ Propios
  BY DEF IInv
<1>9. \A pid \in PIDs : ListaSana(pid)
  BY Listas
<1>1. CASE Muerte \/ SoloPc
  BY <1>0, <1>1, PasosSolos, SinMover, Heap DEF locales, listas, EnMano
<1>2. CASE DeLaCpu
  <2>1. \A t \in TCBs : tcb'[t].libre = tcb[t].libre
    BY <1>2, Guardado DEF DeLaCpu, PedirCpu, BuscarHilo, ExecutionContext, GetInstruction
  <2> QED
    BY <1>0, <1>2, <2>1, PasosCpu, SinMover, Heap DEF listas, EnMano
<1>3. ASSUME NEW c \in Conexiones, Pedido(c) PROVE Propios' /\ Enlistados'
  <2>1. /\ UNCHANGED <<tcb, tcb_local, TIDs>> /\ ~EnMano(c)'
        /\ \A d \in Conexiones \ {c} : pc'[d] = pc[d] /\ pedido'[d] = pedido[d]
    BY <1>0, <1>3, Peticion, SMTT(20) DEF TypeOK, EnMano, locales, listas
  <2>2. Propios'
    BY <1>0, <2>1 DEF Propios, EnMano, TCBs
  <2>3. Enlistados'
    BY <2>1 DEF Enlistados, IInv, SinColgados
  <2> QED
    BY <2>2, <2>3
<1>4. ASSUME NEW c \in Conexiones, SafePcbAdd(c) \/ ResponderSuccess(c) \/ ContarHilos(c)
      PROVE  Propios' /\ Enlistados'
  BY <1>0, <1>4, PasosKernel, SinMover, Heap, SMTT(20) DEF locales, listas, EnMano, Paso, Pide, TypeOK
<1>5. ASSUME NEW c \in Conexiones, IniciarProceso(c) \/ CargarHilo(c)
      PROVE  Propios' /\ Enlistados'
  <2> DEFINE n == Len(tcb) + 1
  <2>1. /\ n \notin TCBs /\ n \in TCBs' /\ TCBs \subseteq TCBs'
        /\ ~tcb'[n].libre /\ tcb'[n].PID = pedido[c].PID
        /\ \A t \in TCBs : tcb'[t] = tcb[t]
    <3>1. Len(tcb) \in Nat
      BY <1>0 DEF TypeOK
    <3>2. \E tid \in Nat : tcb'[n] = ThreadInitiate(pedido[c].PID, tid, pedido[c].archivo)
      BY <1>5, Nuevo
    <3>3. Len(tcb') = Len(tcb) + 1 /\ \A t \in TCBs : tcb'[t] = tcb[t]
      BY <1>5, Nuevo
    <3> QED
      BY <3>1, <3>2, <3>3 DEF TCBs, ThreadInitiate
  <2>2. /\ UNCHANGED <<pedido, TIDs>> /\ tcb_local'[c] = n
        /\ \A d \in Conexiones \ {c} : pc'[d] = pc[d] /\ tcb_local'[d] = tcb_local[d]
    BY <1>0, <1>5 DEF IniciarProceso, CargarHilo, Paso, TypeOK, listas
  <2> HIDE DEF n
  <2>3. Enlistados'
    <3>1. ASSUME NEW pid \in PIDs, NEW i \in DOMAIN TIDs'[pid]
          PROVE  /\ ~tcb'[TIDs'[pid][i]].libre /\ tcb'[TIDs'[pid][i]].PID = pid
                 /\ \A j \in 1..i-1 : TIDs'[pid][j] # TIDs'[pid][i]
      <4>1. TIDs'[pid] = TIDs[pid] /\ i \in DOMAIN TIDs[pid]
        BY <2>2
      <4>2. /\ TIDs[pid][i] \in TCBs
            /\ ~tcb[TIDs[pid][i]].libre /\ tcb[TIDs[pid][i]].PID = pid
            /\ \A j \in 1..i-1 : TIDs[pid][j] # TIDs[pid][i]
        BY <4>1, EnLista
      <4>3. tcb'[TIDs[pid][i]] = tcb[TIDs[pid][i]]
        BY <2>1, <4>2
      <4> QED
        BY <4>1, <4>2, <4>3
    <3> QED
      BY <3>1 DEF Enlistados
  <2>4. \A pid \in PIDs : \A i \in DOMAIN TIDs[pid] : TIDs[pid][i] # n
    BY <1>9, <2>1 DEF ListaSana
  <2>5. \A d \in Conexiones \ {c} : EnMano(d)' => EnMano(d) /\ tcb_local[d] # n
    BY <1>0, <2>1, <2>2 DEF EnMano, Propios
  <2>6. Propios'
    BY <1>0, <2>1, <2>2, <2>4, <2>5 DEF Propios
  <2> QED
    BY <2>3, <2>6
<1>6. ASSUME NEW c \in Conexiones, AgregarPrincipal(c) \/ EnlazarHilo(c)
      PROVE  Propios' /\ Enlistados'
  <2> DEFINE pid == pedido[c].PID
  <2>1. /\ UNCHANGED <<pedido, tcb, tcb_local>> /\ EnMano(c) /\ ~EnMano(c)' /\ pid \in PIDs
        /\ \A d \in Conexiones \ {c} : pc'[d] = pc[d]
    <3>1. \E e \in {"responder", "cerrada"} : pc' = [pc EXCEPT ![c] = e]
      BY <1>6, PasosKernel DEF Paso
    <3>2. UNCHANGED <<pedido, tcb, tcb_local>> /\ EnMano(c) /\ pid \in PIDs
      BY <1>6, PasosKernel, Principal, Enlazado DEF Paso, EnMano, locales
    <3> QED
      BY <1>0, <3>1, <3>2 DEF TypeOK, EnMano
  <2>2. /\ \A q \in PIDs : q # pid => TIDs'[q] = TIDs[q]
        /\ \/ TIDs'[pid] = TIDs[pid]
           \/ \E k \in 0..Len(TIDs[pid]) : Alarga(c, k)
    BY <1>6, Principal, Enlazado DEF OtrasListas, Alarga
  <2>3. \A q \in PIDs : \A i \in DOMAIN TIDs'[q] :
           \/ \E j \in DOMAIN TIDs[q] : TIDs'[q][i] = TIDs[q][j]
           \/ q = pid /\ TIDs'[q][i] = tcb_local[c]
    <3>1. ASSUME NEW k \in 0..Len(TIDs[pid]), Alarga(c, k), NEW i \in DOMAIN TIDs'[pid]
          PROVE  \/ \E j \in DOMAIN TIDs[pid] : TIDs'[pid][i] = TIDs[pid][j]
                 \/ TIDs'[pid][i] = tcb_local[c]
      BY <1>9, <2>1, <3>1 DEF Alarga, ListaSana
    <3> QED
      BY <2>2, <3>1
  <2>4. \A q \in PIDs : \A i \in DOMAIN TIDs'[q] : \A j \in 1..i-1 : TIDs'[q][j] # TIDs'[q][i]
    <3>1. ASSUME NEW q \in PIDs, TIDs'[q] = TIDs[q], NEW i \in DOMAIN TIDs'[q], NEW j \in 1..i-1
          PROVE  TIDs'[q][j] # TIDs'[q][i]
      <4>1. i \in DOMAIN TIDs[q] /\ \A k \in 1..i-1 : TIDs[q][k] # TIDs[q][i]
        BY <3>1 DEF IInv, SinColgados
      <4> QED
        BY <3>1, <4>1
    <3>2. ASSUME NEW k \in 0..Len(TIDs[pid]), Alarga(c, k),
                 NEW i \in DOMAIN TIDs'[pid], NEW j \in 1..i-1
          PROVE  TIDs'[pid][j] # TIDs'[pid][i]
      <4>1. /\ i \in 1..(k + 1) /\ j \in 1..k /\ j \in DOMAIN TIDs[pid] /\ k \in Nat
            /\ TIDs'[pid][j] = TIDs[pid][j]
        BY <1>9, <2>1, <3>2 DEF Alarga, ListaSana
      <4>2. CASE i = k + 1
        <5>1. TIDs'[pid][i] = tcb_local[c]
          BY <3>2, <4>2 DEF Alarga
        <5>2. TIDs[pid][j] # tcb_local[c]
          BY <1>0, <2>1, <4>1 DEF Propios
        <5> QED
          BY <4>1, <5>1, <5>2
      <4>3. CASE i # k + 1
        <5>1. i \in 1..k /\ i \in 1..Len(TIDs[pid]) /\ j # i
          <6>1. Len(TIDs[pid]) \in Nat
            BY <1>9, <2>1 DEF ListaSana
          <6> QED
            BY <4>1, <4>3, <6>1
        <5>2. TIDs'[pid][i] = TIDs[pid][i] /\ j \in 1..Len(TIDs[pid])
          BY <1>9, <2>1, <3>2, <4>1, <5>1 DEF Alarga, ListaSana
        <5>3. i \in DOMAIN TIDs[pid]
          BY <1>9, <2>1, <5>1 DEF ListaSana
        <5>4. TIDs[pid][j] = TIDs[pid][i] => j = i
          <6>1. pid \in PIDs /\ i \in DOMAIN TIDs[pid] /\ j \in DOMAIN TIDs[pid]
            BY <2>1, <4>1, <5>3
          <6> HIDE DEF pid
          <6> QED
            BY <6>1, EnLista
        <5> QED
          BY <4>1, <5>1, <5>2, <5>4
      <4> QED
        BY <4>2, <4>3
    <3> QED
      BY <2>2, <3>1, <3>2
  <2>5. Enlistados'
    <3>1. ASSUME NEW q \in PIDs, NEW i \in DOMAIN TIDs'[q]
          PROVE  ~tcb'[TIDs'[q][i]].libre /\ tcb'[TIDs'[q][i]].PID = q
      <4>1. CASE \E j \in DOMAIN TIDs[q] : TIDs'[q][i] = TIDs[q][j]
        BY <1>9, <2>1, <4>1 DEF ListaSana
      <4>2. CASE q = pid /\ TIDs'[q][i] = tcb_local[c]
        BY <1>0, <2>1, <4>2 DEF Propios
      <4> QED
        BY <2>3, <4>1, <4>2
    <3> QED
      BY <2>4, <3>1 DEF Enlistados
  <2>6. Propios'
    BY <1>0, <2>1, <2>3 DEF Propios, EnMano, TCBs
  <2> QED
    BY <2>5, <2>6
<1>7. ASSUME NEW c \in Conexiones, TomarHilo(c)
      PROVE  Propios' /\ Enlistados'
  <2> DEFINE pid == pedido[c].PID
  <2>1. PICK i \in 1..Len(TIDs[pid]) :
           /\ Acorta(c, i) /\ tcb_local' = [tcb_local EXCEPT ![c] = TIDs[pid][i]]
    BY <1>7, Tomada
  <2>2. /\ UNCHANGED <<pedido, tcb>> /\ pid \in PIDs
        /\ \A q \in PIDs : q # pid => TIDs'[q] = TIDs[q]
        /\ pc[c] = "recv" /\ EnMano(c)' /\ tcb_local'[c] = TIDs[pid][i]
        /\ \A d \in Conexiones \ {c} : pc'[d] = pc[d] /\ tcb_local'[d] = tcb_local[d]
    <3>1. pc[c] = "recv" /\ pc' = [pc EXCEPT ![c] = "free_tcb"]
      BY <1>7, PasosKernel DEF Paso
    <3>2. /\ UNCHANGED <<pedido, tcb>> /\ pid \in PIDs
          /\ \A q \in PIDs : q # pid => TIDs'[q] = TIDs[q]
      BY <1>7, PasosKernel, Tomada DEF OtrasListas
    <3> QED
      BY <1>0, <2>1, <3>1, <3>2 DEF TypeOK, EnMano
  <2>8. /\ i \in DOMAIN TIDs[pid] /\ TIDs[pid][i] \in TCBs
        /\ ~tcb[TIDs[pid][i]].libre /\ tcb[TIDs[pid][i]].PID = pid
        /\ \A k \in DOMAIN TIDs[pid] : TIDs[pid][k] = TIDs[pid][i] => k = i
        /\ \A d \in Conexiones : EnMano(d) => TIDs[pid][i] # tcb_local[d]
    <3>1. pid \in PIDs /\ ListaSana(pid) /\ i \in 1..Len(TIDs[pid])
      BY <1>9, <2>1, <2>2
    <3> HIDE DEF pid
    <3>2. i \in DOMAIN TIDs[pid]
      BY <3>1 DEF ListaSana
    <3> QED
      BY <3>1, <3>2, EnLista
  <2> DEFINE viejo(j) == IF j < i THEN j ELSE j + 1
  <2>3. \A j \in DOMAIN TIDs'[pid] :
           /\ viejo(j) \in 1..Len(TIDs[pid]) /\ viejo(j) # i
           /\ TIDs'[pid][j] = TIDs[pid][viejo(j)]
    <3> DEFINE n == Len(TIDs[pid])
    <3>1. n \in Nat
      BY <1>9, <2>2 DEF ListaSana
    <3>2. /\ i \in 1..n /\ DOMAIN TIDs'[pid] = 1..(n - 1)
          /\ \A j \in 1..(n - 1) :
                TIDs'[pid][j] = IF j < i THEN TIDs[pid][j] ELSE TIDs[pid][j + 1]
      BY <2>1 DEF Acorta
    <3> HIDE DEF n
    <3>3. \A j \in 1..(n - 1) : viejo(j) \in 1..n /\ viejo(j) # i
      BY <3>1, <3>2
    <3>4. \A j \in 1..(n - 1) : TIDs'[pid][j] = TIDs[pid][viejo(j)]
      BY <3>2
    <3> QED
      BY <3>2, <3>3, <3>4 DEF n
  <2>4. \A q \in PIDs : \A j \in DOMAIN TIDs'[q] :
           /\ \E k \in DOMAIN TIDs[q] : TIDs'[q][j] = TIDs[q][k]
           /\ TIDs'[q][j] # TIDs[pid][i]
    <3>1. ASSUME NEW j \in DOMAIN TIDs'[pid]
          PROVE  /\ \E k \in DOMAIN TIDs[pid] : TIDs'[pid][j] = TIDs[pid][k]
                 /\ TIDs'[pid][j] # TIDs[pid][i]
      <4>1. /\ viejo(j) \in 1..Len(TIDs[pid]) /\ viejo(j) # i
            /\ TIDs'[pid][j] = TIDs[pid][viejo(j)]
        BY <2>3
      <4> HIDE DEF viejo
      <4>2. DOMAIN TIDs[pid] = 1..Len(TIDs[pid])
        BY <1>9, <2>2 DEF ListaSana
      <4>3. TIDs[pid][viejo(j)] = TIDs[pid][i] => viejo(j) = i
        BY <2>8, <4>1, <4>2
      <4> QED
        BY <4>1, <4>2, <4>3
    <3>2. ASSUME NEW q \in PIDs, q # pid, NEW j \in DOMAIN TIDs'[q]
          PROVE  /\ \E k \in DOMAIN TIDs[q] : TIDs'[q][j] = TIDs[q][k]
                 /\ TIDs'[q][j] # TIDs[pid][i]
      <4>1. TIDs'[q] = TIDs[q] /\ j \in DOMAIN TIDs[q]
        BY <2>2, <3>2
      <4>2. tcb[TIDs[q][j]].PID = q
        BY <4>1, EnLista
      <4> QED
        BY <2>8, <3>2, <4>1, <4>2
    <3> QED
      BY <3>1, <3>2
  <2>5. \A q \in PIDs : \A k \in DOMAIN TIDs'[q] : \A j \in 1..k-1 : TIDs'[q][j] # TIDs'[q][k]
    <3>1. ASSUME NEW k \in DOMAIN TIDs'[pid], NEW j \in 1..k-1
          PROVE  TIDs'[pid][j] # TIDs'[pid][k]
      <4>1. k \in Nat /\ j \in DOMAIN TIDs'[pid] /\ viejo(j) # viejo(k)
        <5> DEFINE n == Len(TIDs[pid])
        <5>1. n \in Nat
          BY <1>9, <2>2 DEF ListaSana
        <5>2. DOMAIN TIDs'[pid] = 1..(n - 1)
          BY <2>1 DEF Acorta
        <5> HIDE DEF n
        <5>3. k \in 1..(n - 1)
          BY <5>2
        <5>4. j \in 1..(n - 1) /\ j < k /\ k \in Nat
          BY <5>1, <5>3
        <5>5. viejo(j) # viejo(k)
          BY <5>1, <5>4
        <5> QED
          BY <5>2, <5>4, <5>5
      <4>2. /\ viejo(j) \in 1..Len(TIDs[pid]) /\ viejo(k) \in 1..Len(TIDs[pid])
            /\ TIDs'[pid][j] = TIDs[pid][viejo(j)] /\ TIDs'[pid][k] = TIDs[pid][viejo(k)]
        BY <2>3, <4>1
      <4>3. viejo(j) # viejo(k)
        BY <4>1
      <4> HIDE DEF viejo
      <4>4. \A a, b \in 1..Len(TIDs[pid]) : TIDs[pid][a] = TIDs[pid][b] => a = b
        BY <1>9, <2>2 DEF ListaSana
      <4> QED
        BY <4>2, <4>3, <4>4
    <3>2. ASSUME NEW q \in PIDs, q # pid, NEW k \in DOMAIN TIDs'[q], NEW j \in 1..k-1
          PROVE  TIDs'[q][j] # TIDs'[q][k]
      <4>1. TIDs'[q] = TIDs[q]
        BY <2>2, <3>2
      <4>2. k \in DOMAIN TIDs[q] /\ \A l \in 1..k-1 : TIDs[q][l] # TIDs[q][k]
        BY <4>1 DEF IInv, SinColgados
      <4> QED
        BY <4>1, <4>2
    <3> QED
      BY <3>1, <3>2
  <2>6. Enlistados'
    <3>1. ASSUME NEW q \in PIDs, NEW j \in DOMAIN TIDs'[q]
          PROVE  ~tcb'[TIDs'[q][j]].libre /\ tcb'[TIDs'[q][j]].PID = q
      <4>1. PICK k \in DOMAIN TIDs[q] : TIDs'[q][j] = TIDs[q][k]
        BY <2>4
      <4>2. ~tcb[TIDs[q][k]].libre /\ tcb[TIDs[q][k]].PID = q
        BY EnLista
      <4> QED
        BY <2>2, <4>1, <4>2
    <3> QED
      BY <2>5, <3>1 DEF Enlistados
  <2>7. Propios'
    <3>1. /\ TIDs[pid][i] \in TCBs /\ ~tcb[TIDs[pid][i]].libre /\ tcb[TIDs[pid][i]].PID = pid
          /\ \A d \in Conexiones : EnMano(d) => tcb_local[d] # TIDs[pid][i]
      BY <2>8
    <3>2. \A d \in Conexiones \ {c} : EnMano(d)' => EnMano(d)
      BY <2>2 DEF EnMano
    <3>3. TCBs' = TCBs
      BY <2>2 DEF TCBs
    <3> QED
      BY <1>0, <2>2, <2>4, <3>1, <3>2, <3>3 DEF Propios
  <2> QED
    BY <2>6, <2>7
<1>8. ASSUME NEW c \in Conexiones, FreeTcb(c)
      PROVE  Propios' /\ Enlistados'
  <2>1. /\ UNCHANGED <<pedido, tcb_local, TIDs>> /\ EnMano(c) /\ ~EnMano(c)'
        /\ \A d \in Conexiones \ {c} : pc'[d] = pc[d]
    <3>1. pc[c] = "free_tcb" /\ pc' = [pc EXCEPT ![c] = "cerrada"]
      BY <1>8, PasosKernel DEF Paso
    <3>2. UNCHANGED <<pedido, tcb_local, TIDs>>
      BY <1>8, PasosKernel DEF locales, listas
    <3> QED
      BY <1>0, <3>1, <3>2 DEF TypeOK, EnMano
  <2>2. \A t \in TCBs : t # tcb_local[c] => tcb'[t] = tcb[t]
    BY <1>8, Liberado
  <2>3. TCBs' = TCBs
    BY <1>8, Liberado DEF TCBs
  <2>4. Enlistados'
    <3>1. ASSUME NEW q \in PIDs, NEW i \in DOMAIN TIDs'[q]
          PROVE  /\ ~tcb'[TIDs'[q][i]].libre /\ tcb'[TIDs'[q][i]].PID = q
                 /\ \A j \in 1..i-1 : TIDs'[q][j] # TIDs'[q][i]
      <4>1. TIDs'[q] = TIDs[q] /\ i \in DOMAIN TIDs[q]
        BY <2>1
      <4>2. /\ TIDs[q][i] \in TCBs /\ TIDs[q][i] # tcb_local[c]
            /\ ~tcb[TIDs[q][i]].libre /\ tcb[TIDs[q][i]].PID = q
            /\ \A j \in 1..i-1 : TIDs[q][j] # TIDs[q][i]
        BY <2>1, <4>1, EnLista
      <4>3. tcb'[TIDs[q][i]] = tcb[TIDs[q][i]]
        BY <2>2, <4>2
      <4> QED
        BY <4>1, <4>2, <4>3
    <3> QED
      BY <3>1 DEF Enlistados
  <2>5. Propios'
    BY <1>0, <2>1, <2>2, <2>3 DEF Propios, EnMano
  <2> QED
    BY <2>4, <2>5
<1> QED
  BY <1>1, <1>2, <1>3, <1>4, <1>5, <1>6, <1>7, <1>8, Grupos DEF DelKernel

-----------------------------------------------------------------------------
(* The main TCBs                                                           *)

\* A connection that creates a process goes on with its own TCB.
LEMMA Creador ==
  ASSUME IInv, [Next]_vars, NEW c \in Conexiones,
         pedido'[c].op = "PROCESS_CREATION", pc'[c] \notin {"accept", "recv"}
  PROVE  \/ IniciarProceso(c)
         \/ /\ pedido'[c] = pedido[c] /\ tcb_local'[c] = tcb_local[c]
            /\ pc[c] \notin {"accept", "recv"}
            /\ pc'[c] \in {"responder", "cerrada"} =>
                  AgregarPrincipal(c) \/ pc[c] \in {"responder", "cerrada"}
<1>0. TypeOK /\ Etiquetas
  BY DEF IInv
<1>1. CASE Muerte \/ SoloPc
  BY <1>0, <1>1, PasosSolos DEF locales
<1>2. CASE DeLaCpu
  BY <1>0, <1>2, PasosCpu
<1>3. ASSUME NEW e \in Conexiones, Pedido(e)
      PROVE  /\ pedido'[c] = pedido[c] /\ tcb_local'[c] = tcb_local[c] /\ pc'[c] = pc[c]
  <2>1. pc' = [pc EXCEPT ![e] = "accept"] /\ tcb_local' = tcb_local
    BY <1>0, <1>3, Peticion DEF locales
  <2>2. c # e
    BY <1>0, <2>1 DEF TypeOK
  <2> QED
    BY <1>0, <1>3, <2>1, <2>2, Peticion DEF TypeOK
<1>4. ASSUME NEW e \in Conexiones, DelKernel(e), e # c
      PROVE  pedido'[c] = pedido[c] /\ tcb_local'[c] = tcb_local[c] /\ pc'[c] = pc[c]
  <2>1. pedido' = pedido /\ pc'[c] = pc[c]
    BY <1>0, <1>4, PasosKernel DEF DelKernel, Paso, TypeOK
  <2>2. tcb_local'[c] = tcb_local[c]
    BY <1>0, <1>4 DEF DelKernel, IniciarProceso, SafePcbAdd, AgregarPrincipal, ResponderSuccess,
       ContarHilos, CargarHilo, EnlazarHilo, TomarHilo, FreeTcb, TypeOK, locales
  <2> QED
    BY <2>1, <2>2
<1>5. CASE DelKernel(c)
  <2>1. pedido' = pedido
    BY <1>5, PasosKernel DEF DelKernel
  <2>2. IniciarProceso(c) \/ SafePcbAdd(c) \/ AgregarPrincipal(c) \/ ResponderSuccess(c)
    BY <1>0, <1>5, <2>1, PasosKernel DEF DelKernel, Paso, Pide, Etiquetas
  <2> QED
    BY <1>0, <2>1, <2>2, PasosKernel DEF Paso, TypeOK, locales
<1> QED
  BY <1>1, <1>2, <1>3, <1>4, <1>5, Grupos

\* What a step gives to a thread of a connection.
LEMMA EnManoPaso ==
  ASSUME IInv, [Next]_vars, NEW d \in Conexiones, EnMano(d)'
  PROVE  \/ EnMano(d) /\ tcb_local'[d] = tcb_local[d] /\ pedido'[d] = pedido[d]
         \/ (IniciarProceso(d) \/ CargarHilo(d)) /\ tcb_local'[d] \notin TCBs
         \/ TomarHilo(d) /\ pedido' = pedido
            /\ pedido[d].op = "THREAD_KILL" /\ tcb[tcb_local'[d]].PID = pedido[d].PID
<1>0. TypeOK /\ Etiquetas
  BY DEF IInv
<1>1. CASE Muerte \/ SoloPc
  BY <1>0, <1>1, PasosSolos DEF locales, EnMano
<1>2. CASE DeLaCpu
  BY <1>0, <1>2, PasosCpu DEF EnMano
<1>3. ASSUME NEW e \in Conexiones, Pedido(e)
      PROVE  EnMano(d) /\ tcb_local'[d] = tcb_local[d] /\ pedido'[d] = pedido[d]
  <2>1. pc' = [pc EXCEPT ![e] = "accept"] /\ tcb_local' = tcb_local
    BY <1>0, <1>3, Peticion DEF locales
  <2>2. d # e
    BY <1>0, <2>1 DEF TypeOK, EnMano
  <2> QED
    BY <1>0, <1>3, <2>1, <2>2, Peticion DEF TypeOK, EnMano
<1>4. ASSUME NEW e \in Conexiones, DelKernel(e), e # d
      PROVE  EnMano(d) /\ tcb_local'[d] = tcb_local[d] /\ pedido'[d] = pedido[d]
  <2>1. pedido' = pedido /\ pc'[d] = pc[d]
    BY <1>0, <1>4, PasosKernel DEF DelKernel, Paso, TypeOK
  <2>2. tcb_local'[d] = tcb_local[d]
    BY <1>0, <1>4 DEF DelKernel, IniciarProceso, SafePcbAdd, AgregarPrincipal, ResponderSuccess,
       ContarHilos, CargarHilo, EnlazarHilo, TomarHilo, FreeTcb, TypeOK, locales
  <2> QED
    BY <2>1, <2>2 DEF EnMano
<1>5. CASE IniciarProceso(d) \/ CargarHilo(d)
  <2>1. tcb_local'[d] = Len(tcb) + 1
    BY <1>0, <1>5 DEF IniciarProceso, CargarHilo, TypeOK, Hilos
  <2>2. Len(tcb) \in Nat
    BY <1>0 DEF TypeOK
  <2> QED
    BY <1>5, <2>1, <2>2 DEF TCBs
<1>6. CASE TomarHilo(d)
  <2> DEFINE pid == pedido[d].PID
  <2>1. PICK i \in 1..Len(TIDs[pid]) : tcb_local' = [tcb_local EXCEPT ![d] = TIDs[pid][i]]
    BY <1>6, Tomada
  <2>2. pedido' = pedido /\ pedido[d].op = "THREAD_KILL" /\ pid \in PIDs
    BY <1>6, Tomada, PasosKernel
  <2>3. tcb[TIDs[pid][i]].PID = pid
    BY <2>2, Listas DEF ListaSana
  <2> QED
    BY <1>0, <1>6, <2>1, <2>2, <2>3 DEF TypeOK
<1>7. CASE SafePcbAdd(d) \/ AgregarPrincipal(d) \/ ResponderSuccess(d) \/ ContarHilos(d)
           \/ EnlazarHilo(d) \/ FreeTcb(d)
  <2>1. SafePcbAdd(d)
    BY <1>0, <1>7, PasosKernel DEF Paso, TypeOK, EnMano
  <2> QED
    BY <2>1, PasosKernel DEF Paso, EnMano, locales
<1> QED
  BY <1>1, <1>2, <1>3, <1>4, <1>5, <1>6, <1>7, Grupos DEF DelKernel

\* The TCB of a creation in progress is still the one it loaded after the step.
LEMMA FichaPaso ==
  ASSUME IInv, [Next]_vars, NEW c \in Conexiones,
         pedido'[c].op = "PROCESS_CREATION", pc'[c] \notin {"accept", "recv"}
  PROVE  Ficha(c)'
<1>0. TypeOK /\ Etiquetas /\ Len(tcb) \in Nat
  BY DEF IInv, TypeOK
<1>1. CASE IniciarProceso(c)
  <2> DEFINE n == Len(tcb) + 1
  <2>1. /\ tcb_local'[c] = n /\ pedido' = pedido /\ n \in TCBs' /\ n \notin TCBs
        /\ tcb'[n] = ThreadInitiate(pedido[c].PID, 0, pedido[c].archivo)
        /\ pedido[c].archivo \in DOMAIN Lineas
    BY <1>0, <1>1, Nuevo DEF IniciarProceso, TypeOK, TCBs
  <2>2. ASSUME NEW d \in Conexiones, EnMano(d)', tcb_local'[d] = tcb_local'[c] PROVE d = c
    <3>1. SUFFICES ASSUME d # c PROVE FALSE
      OBVIOUS
    <3>2. tcb_local'[d] = tcb_local[d] /\ pc'[d] = pc[d]
      BY <1>0, <1>1, <3>1 DEF IniciarProceso, Paso, TypeOK
    <3>3. tcb_local[d] \in TCBs
      BY <2>2, <3>2 DEF IInv, Propios, EnMano
    <3> QED
      BY <2>1, <2>2, <3>2, <3>3
  <2> QED
    BY <2>1, <2>2 DEF Ficha, ThreadInitiate
<1>2. CASE /\ pedido'[c] = pedido[c] /\ tcb_local'[c] = tcb_local[c]
           /\ pc[c] \notin {"accept", "recv"}
  <2>1. Ficha(c)
    BY <1>2 DEF IInv, Principales
  <2> DEFINE p == tcb_local[c]
  <2>2. /\ p \in TCBs' /\ p \in TCBs /\ tcb'[p].PID = tcb[p].PID /\ tcb'[p].TID = tcb[p].TID
        /\ tcb'[p].lineas = tcb[p].lineas
    BY <1>0, <2>1, Heap DEF Ficha, HeapCrece, TCBs
  <2>3. ASSUME NEW d \in Conexiones, EnMano(d)', tcb_local'[d] = p
        PROVE  d = c \/ Mata(d, pedido[c].PID)'
    <3>1. CASE EnMano(d) /\ tcb_local'[d] = tcb_local[d] /\ pedido'[d] = pedido[d]
      BY <1>2, <2>1, <2>3, <3>1 DEF Ficha, Mata
    <3>2. CASE TomarHilo(d) /\ pedido' = pedido
               /\ pedido[d].op = "THREAD_KILL" /\ tcb[tcb_local'[d]].PID = pedido[d].PID
      BY <2>1, <2>3, <3>2 DEF Ficha, Mata
    <3> QED
      BY <2>2, <2>3, <3>1, <3>2, EnManoPaso
  <2> QED
    BY <1>2, <2>1, <2>2, <2>3 DEF Ficha, Mata
<1> QED
  BY <1>1, <1>2, Creador

\* A step that changes neither the list of a process nor the threads of its
\* own THREAD_CREATIONs leaves its main TCB where it was.
LEMMA LugarQuieto ==
  ASSUME IInv, HeapCrece, NEW c \in Conexiones, EnSuLugar(c),
         pedido[c].op = "PROCESS_CREATION", pedido[c].PID \in PIDs,
         pedido'[c] = pedido[c], tcb_local'[c] = tcb_local[c],
         TIDs'[pedido[c].PID] = TIDs[pedido[c].PID],
         Tomado(pedido[c].PID)' <=> Tomado(pedido[c].PID),
         \A d \in Conexiones :
            pedido'[d].op = "THREAD_CREATION" /\ pc'[d] \in {"thread_initiate", "list_add"} =>
               \/ /\ pedido'[d] = pedido[d] /\ pc'[d] = pc[d] /\ tcb_local'[d] = tcb_local[d]
                  /\ TID_nuevo'[d] = TID_nuevo[d] /\ visto'[d] = visto[d]
               \/ pedido'[d].PID = pedido[c].PID /\ Encabeza(c) => Secundario(d)'
  PROVE  EnSuLugar(c)'
<1> DEFINE pid == pedido[c].PID
<1>1. CASE Tomado(pid)
  BY <1>1 DEF EnSuLugar
<1>2. CASE ~Tomado(pid)
  <2>1. Encabeza(c)
    BY <1>2 DEF EnSuLugar
  <2>2. ASSUME NEW i \in DOMAIN TIDs'[pid], i > 1 PROVE tcb'[TIDs'[pid][i]].TID # 0
    <3>1. TIDs'[pid] = TIDs[pid] /\ i \in DOMAIN TIDs[pid]
      OBVIOUS
    <3>2. TIDs[pid][i] \in TCBs
      BY <3>1, EnLista
    <3>3. tcb'[TIDs[pid][i]].TID = tcb[TIDs[pid][i]].TID
      BY <3>2 DEF HeapCrece
    <3> QED
      BY <2>1, <2>2, <3>1, <3>3 DEF Encabeza
  <2>3. ASSUME NEW d \in Conexiones, pedido'[d].op = "THREAD_CREATION", pedido'[d].PID = pid
        PROVE  Secundario(d)'
    <3>1. CASE /\ pedido'[d] = pedido[d] /\ pc'[d] = pc[d] /\ tcb_local'[d] = tcb_local[d]
               /\ TID_nuevo'[d] = TID_nuevo[d] /\ visto'[d] = visto[d]
      <4>1. Secundario(d)
        BY <2>1, <2>3, <3>1 DEF Encabeza
      <4>2. pc[d] = "list_add" => tcb_local[d] \in TCBs
        BY DEF IInv, Propios, EnMano
      <4> QED
        BY <3>1, <4>1, <4>2 DEF Secundario, HeapCrece
    <3>2. CASE pc'[d] \notin {"thread_initiate", "list_add"}
      BY <3>2 DEF Secundario
    <3> QED
      BY <2>1, <2>3, <3>1, <3>2
  <2> QED
    BY <1>2, <2>1, <2>2, <2>3 DEF EnSuLugar, Encabeza
<1> QED
  BY <1>1, <1>2

\* Two processes are created by two connections, and one THREAD_KILL takes a
\* main TCB.
LEMMA Creados ==
  ASSUME IInv, NEW c \in Conexiones, pedido[c].op = "PROCESS_CREATION",
         pc[c] \in {"list_add_principal", "responder", "cerrada"}
  PROVE  /\ pedido[c].PID \in PIDs /\ pedido[c].PID \in process_list
         /\ pc[c] # "cerrada" => pedido[c].PID \notin respondidos
         /\ pc[c] # "cerrada" =>
               \A d \in Conexiones : pedido[d].op \in {"THREAD_CREATION", "THREAD_KILL"} =>
                  pedido[d].PID # pedido[c].PID
         /\ \A d \in Conexiones : 
               pedido[d].op = "PROCESS_CREATION" /\ pedido[d].PID = pedido[c].PID => d = c
<1>1. pedido[c].PID \in PIDs
  BY Carga DEF IInv
<1>2. /\ pedido[c].PID \in process_list
      /\ pedido[c].PID \in respondidos <=> pc[c] = "cerrada"
      /\ \A d \in Conexiones : 
            pedido[d].op = "PROCESS_CREATION" /\ pedido[d].PID = pedido[c].PID => d = c
  BY <1>1 DEF IInv, Procesos, Crea
<1>3. \A d \in Conexiones : pedido[d].op \in {"THREAD_CREATION", "THREAD_KILL"} =>
         pedido[d].PID \in respondidos
  BY DEF IInv, Etiquetas, Procesos
<1> QED
  BY <1>1, <1>2, <1>3

\* The main TCB of an answered creation is where its process keeps it after the step.
LEMMA LugarPrincipal ==
  ASSUME IInv, [Next]_vars, NEW c \in Conexiones,
         pedido'[c].op = "PROCESS_CREATION", pc'[c] \in {"responder", "cerrada"}
  PROVE  EnSuLugar(c)'
<1> DEFINE pid == pedido[c].PID
<1>0. TypeOK /\ Etiquetas /\ HeapCrece
  BY Heap DEF IInv
<1>1. CASE AgregarPrincipal(c)
  <2>1. /\ UNCHANGED <<pedido, tcb_local>> /\ pc[c] = "list_add_principal"
        /\ pedido[c].op = "PROCESS_CREATION"
        /\ \A d \in Conexiones \ {c} : pc'[d] = pc[d]
    BY <1>0, <1>1, PasosKernel DEF Paso, TypeOK, Etiquetas, locales
  <2>2. \A d \in Conexiones : pedido[d].op \in {"THREAD_CREATION", "THREAD_KILL"} =>
           pedido[d].PID # pid
    BY <2>1, Creados
  <2>3. Alarga(c, 0)
    BY <1>1, Principal
  <2>4. ~Tomado(pid)'
    BY <2>1, <2>2 DEF Tomado, Mata
  <2> QED
    BY <2>1, <2>2, <2>3, <2>4 DEF EnSuLugar, Encabeza, Alarga
<1>2. CASE ~AgregarPrincipal(c)
  <2>1. /\ pedido'[c] = pedido[c] /\ tcb_local'[c] = tcb_local[c]
        /\ pc[c] \in {"responder", "cerrada"} /\ pedido[c].op = "PROCESS_CREATION"
    <3>1. ~IniciarProceso(c)
      BY <1>0 DEF IniciarProceso, Paso, TypeOK
    <3> QED
      BY <1>2, <3>1, Creador
  <2>2. Ficha(c) /\ EnSuLugar(c) /\ pid \in PIDs
    BY <2>1, Creados DEF IInv, Principales
  <2>3. \A d \in Conexiones :
           pedido[d].op = "PROCESS_CREATION" /\ pedido[d].PID = pid => d = c
    BY <2>1, Creados
  <2> DEFINE Ajeno(d) ==
               pedido'[d].op = "THREAD_CREATION" /\ pc'[d] \in {"thread_initiate", "list_add"} =>
                 \/ /\ pedido'[d] = pedido[d] /\ pc'[d] = pc[d] /\ tcb_local'[d] = tcb_local[d]
                    /\ TID_nuevo'[d] = TID_nuevo[d] /\ visto'[d] = visto[d]
                 \/ pedido'[d].PID = pid /\ Encabeza(c) => Secundario(d)'
  <2>4. (/\ TIDs'[pid] = TIDs[pid] /\ (Tomado(pid)' <=> Tomado(pid))
         /\ \A d \in Conexiones : Ajeno(d)) => EnSuLugar(c)'
    BY <1>0, <2>1, <2>2, LugarQuieto
  <2>5. CASE Muerte \/ SoloPc
    <3>1. \A d \in Conexiones : Ajeno(d)
      BY <1>0, <2>5, PasosSolos DEF locales
    <3>2. Tomado(pid)' <=> Tomado(pid)
      BY <1>0, <2>5, PasosSolos DEF Tomado, Mata
    <3>3. TIDs' = TIDs
      BY <1>0, <2>5, PasosSolos DEF listas
    <3> QED
      BY <2>4, <3>1, <3>2, <3>3
  <2>6. CASE DeLaCpu
    <3>1. \A d \in Conexiones : Ajeno(d)
      BY <1>0, <2>6, PasosCpu
    <3>2. Tomado(pid)' <=> Tomado(pid)
      BY <1>0, <2>6, PasosCpu DEF Tomado, Mata
    <3>3. TIDs' = TIDs
      BY <1>0, <2>6, PasosCpu DEF listas
    <3> QED
      BY <2>4, <3>1, <3>2, <3>3
  <2>7. ASSUME NEW e \in Conexiones, Pedido(e) PROVE EnSuLugar(c)'
    <3>1. /\ pc[e] = "libre" /\ pc'[e] = "accept" /\ UNCHANGED <<tcb_local, TID_nuevo, visto, TIDs>>
          /\ \A d \in Conexiones \ {e} : pc'[d] = pc[d] /\ pedido'[d] = pedido[d]
      BY <1>0, <2>7, Peticion, SMTT(20) DEF TypeOK, locales, listas
    <3>2. \A d \in Conexiones : Ajeno(d)
      BY <3>1
    <3>3. Tomado(pid)' <=> Tomado(pid)
      BY <3>1 DEF Tomado, Mata
    <3> QED
      BY <2>4, <3>1, <3>2, <3>3
  <2>8. ASSUME NEW e \in Conexiones, DelKernel(e),
               ~ContarHilos(e), ~CargarHilo(e), ~EnlazarHilo(e), ~TomarHilo(e)
        PROVE  EnSuLugar(c)'
    <3>1. \/ IniciarProceso(e) \/ SafePcbAdd(e) \/ AgregarPrincipal(e) \/ ResponderSuccess(e)
          \/ FreeTcb(e)
      BY <2>8 DEF DelKernel
    <3>2. /\ UNCHANGED <<pedido, TID_nuevo, visto>>
          /\ \A d \in Conexiones \ {e} : pc'[d] = pc[d] /\ tcb_local'[d] = tcb_local[d]
      <4>1. UNCHANGED <<pedido, TID_nuevo, visto>> /\ \A d \in Conexiones \ {e} : pc'[d] = pc[d]
        BY <1>0, <3>1, PasosKernel DEF Paso, TypeOK, locales
      <4>2. IniciarProceso(e) \/ tcb_local' = tcb_local
        BY <3>1, PasosKernel DEF locales
      <4> QED
        BY <1>0, <4>1, <4>2 DEF IniciarProceso, TypeOK
    <3>3. pc'[e] \notin {"thread_initiate", "list_add"}
      BY <1>0, <3>1, PasosKernel DEF Paso, TypeOK
    <3>4. \/ pedido[e].op # "THREAD_KILL"
          \/ pc[e] = "free_tcb" /\ pc'[e] = "cerrada"
      BY <1>0, <3>1, PasosKernel DEF Paso, Pide, TypeOK, Etiquetas
    <3>5. Tomado(pid)' <=> Tomado(pid)
      BY <3>2, <3>4 DEF Tomado, Mata
    <3>6. TIDs'[pid] = TIDs[pid]
      <4>1. CASE AgregarPrincipal(e)
        <5>1. pedido[e].op = "PROCESS_CREATION" /\ e # c
          BY <1>2, <4>1, Principal DEF Crea
        <5>2. pedido[e].PID # pid
          BY <2>3, <5>1
        <5> QED
          BY <2>2, <4>1, <5>2, Principal DEF OtrasListas
      <4>2. CASE ~AgregarPrincipal(e)
        BY <3>1, <4>2, PasosKernel DEF listas
      <4> QED
        BY <4>1, <4>2
    <3> QED
      BY <2>4, <3>2, <3>3, <3>5, <3>6
  <2>9. ASSUME NEW e \in Conexiones, ContarHilos(e) \/ CargarHilo(e) PROVE EnSuLugar(c)'
    <3>1. /\ UNCHANGED <<pedido, TIDs, cuenta>> /\ pedido[e].op = "THREAD_CREATION"
          /\ \A d \in Conexiones \ {e} : /\ pc'[d] = pc[d] /\ tcb_local'[d] = tcb_local[d]
                                         /\ visto'[d] = visto[d] /\ TID_nuevo'[d] = TID_nuevo[d]
      BY <1>0, <2>9 DEF ContarHilos, CargarHilo, Paso, Pide, TypeOK, Etiquetas, listas
    <3>2. Tomado(pid)' <=> Tomado(pid)
      BY <3>1 DEF Tomado, Mata
    <3>3. ASSUME pedido[e].PID = pid, Encabeza(c) PROVE Secundario(e)'
      <4>1. CASE ContarHilos(e)
        <5>1. TIDs[pid] \in Seq(TCBs) /\ TIDs[pid] # <<>>
          BY <1>0, <2>2, <3>3 DEF TypeOK, Encabeza
        <5>2. Len(TIDs[pid]) \in Nat /\ Len(TIDs[pid]) # 0
          BY <5>1
        <5>3. cuenta[pid] \in Nat /\ Len(TIDs[pid]) <= cuenta[pid]
          BY <1>0, <2>2 DEF TypeOK, IInv, Procesos
        <5>4. cuenta[pid] # 0
          BY <5>2, <5>3
        <5>5. pc'[e] = "thread_initiate" /\ TID_nuevo'[e] = cuenta[pid]
          BY <1>0, <3>3, <4>1 DEF ContarHilos, Paso, TypeOK
        <5> QED
          BY <5>4, <5>5 DEF Secundario
      <4>2. CASE CargarHilo(e)
        <5>1. pc[e] = "thread_initiate" /\ TID_nuevo[e] # 0
          BY <3>1, <3>3, <4>2 DEF CargarHilo, Paso, Encabeza, Secundario
        <5>2. pc'[e] = "list_add" /\ visto'[e] = TIDs[pid] /\ tcb_local'[e] = Len(tcb) + 1
          BY <1>0, <3>3, <4>2 DEF CargarHilo, Paso, TypeOK
        <5>3. tcb'[Len(tcb) + 1].TID = TID_nuevo[e]
          <6>1. PICK tid \in Nat :
                   /\ CargarHilo(e) => tid = TID_nuevo[e]
                   /\ tcb'[Len(tcb) + 1] =
                         ThreadInitiate(pedido[e].PID, tid, pedido[e].archivo)
            BY <4>2, Nuevo
          <6> QED
            BY <4>2, <6>1 DEF ThreadInitiate
        <5> QED
          BY <3>3, <5>1, <5>2, <5>3 DEF Secundario, Encabeza
      <4> QED
        BY <2>9, <4>1, <4>2
    <3>4. \A d \in Conexiones : Ajeno(d)
      BY <3>1, <3>3
    <3> QED
      BY <2>4, <3>1, <3>2, <3>4
  <2>10. ASSUME NEW e \in Conexiones, EnlazarHilo(e) PROVE EnSuLugar(c)'
    <3>1. /\ UNCHANGED <<pedido, tcb, tcb_local, TID_nuevo, visto>>
          /\ pedido[e].op = "THREAD_CREATION" /\ pc[e] = "list_add" /\ pc'[e] = "cerrada"
          /\ \A d \in Conexiones \ {e} : pc'[d] = pc[d]
      BY <1>0, <2>10, PasosKernel DEF Paso, TypeOK, Etiquetas, locales
    <3>2. Tomado(pid)' <=> Tomado(pid)
      BY <3>1 DEF Tomado, Mata
    <3>3. \A d \in Conexiones : Ajeno(d)
      BY <3>1
    <3>4. CASE TIDs'[pid] = TIDs[pid]
      BY <2>4, <3>2, <3>3, <3>4
    <3>5. ASSUME pedido[e].PID = pid, NEW k \in Nat, Alarga(e, k), visto[e] # <<>> => k # 0
          PROVE  EnSuLugar(c)'
      <4>1. /\ k \in 0..Len(TIDs[pid]) /\ Len(TIDs[pid]) \in Nat
            /\ DOMAIN TIDs[pid] = 1..Len(TIDs[pid])
            /\ TIDs'[pid] # <<>> /\ DOMAIN TIDs'[pid] = 1..(k + 1)
            /\ \A j \in 1..k : TIDs'[pid][j] = TIDs[pid][j]
            /\ TIDs'[pid][k + 1] = tcb_local[e]
        BY <2>2, <3>5, Listas DEF Alarga, ListaSana
      <4>2. CASE Tomado(pid)
        <5>1. tcb_local[e] # tcb_local[c]
          BY <2>1, <2>2, <3>1 DEF Ficha, EnMano, Mata
        <5>2. \A j \in DOMAIN TIDs[pid] : TIDs[pid][j] # tcb_local[c]
          BY <2>2, <4>2 DEF EnSuLugar
        <5>3. \A j \in 1..(k + 1) : TIDs'[pid][j] # tcb_local[c]
          <6>1. ASSUME NEW j \in 1..(k + 1), j # k + 1 PROVE j \in 1..k /\ j \in 1..Len(TIDs[pid])
            BY <4>1, <6>1
          <6> QED
            BY <4>1, <5>1, <5>2, <6>1
        <5> QED
          BY <2>1, <3>2, <4>1, <4>2, <5>3 DEF EnSuLugar
      <4>3. CASE ~Tomado(pid)
        <5>1. Encabeza(c)
          BY <2>2, <4>3 DEF EnSuLugar
        <5>2. k # 0 /\ tcb[tcb_local[e]].TID # 0
          BY <3>1, <3>5, <5>1 DEF Encabeza, Secundario
        <5>3. TIDs'[pid] # <<>> /\ TIDs'[pid][1] = tcb_local[c]
          <6>1. 1 \in 1..k
            BY <5>2
          <6> QED
            BY <4>1, <5>1, <6>1 DEF Encabeza
        <5>4. ASSUME NEW j \in 1..(k + 1), j > 1 PROVE tcb[TIDs'[pid][j]].TID # 0
          <6>1. j # k + 1 => j \in 1..k /\ j \in 1..Len(TIDs[pid])
            BY <4>1
          <6>2. j # k + 1 => TIDs'[pid][j] = TIDs[pid][j] /\ tcb[TIDs[pid][j]].TID # 0
            BY <4>1, <5>1, <5>4, <6>1 DEF Encabeza
          <6> QED
            BY <4>1, <5>2, <6>2
        <5>5. \A d \in Conexiones :
                 pedido'[d].op = "THREAD_CREATION" /\ pedido'[d].PID = pid => Secundario(d)'
          BY <3>1, <5>1 DEF Encabeza, Secundario
        <5> QED
          BY <2>1, <3>1, <3>2, <4>1, <4>3, <5>3, <5>4, <5>5 DEF EnSuLugar, Encabeza
      <4> QED
        BY <4>2, <4>3
    <3>6. pedido[e].PID # pid => TIDs'[pid] = TIDs[pid]
      BY <2>2, <2>10, Enlazado DEF OtrasListas
    <3> QED
      BY <2>10, <3>4, <3>5, <3>6, Enlazado
  <2>11. ASSUME NEW e \in Conexiones, TomarHilo(e) PROVE EnSuLugar(c)'
    <3>1. /\ UNCHANGED <<pedido, tcb, TID_nuevo, visto>>
          /\ pedido[e].op = "THREAD_KILL" /\ pc[e] = "recv" /\ pc'[e] = "free_tcb"
          /\ \A d \in Conexiones \ {e} : pc'[d] = pc[d]
      BY <1>0, <2>11, PasosKernel DEF Paso, Pide, TypeOK
    <3>2. PICK i \in 1..Len(TIDs[pedido[e].PID]) :
             /\ SeDetieneEn(pedido[e].PID, 0, i) /\ Acorta(e, i)
             /\ tcb_local' = [tcb_local EXCEPT ![e] = TIDs[pedido[e].PID][i]]
      BY <2>11, Tomada
    <3>3. CASE pedido[e].PID # pid
      <4>1. TIDs'[pid] = TIDs[pid]
        BY <2>2, <2>11, <3>3, Tomada DEF OtrasListas
      <4>2. Tomado(pid)' <=> Tomado(pid)
        BY <3>1, <3>3 DEF Tomado, Mata
      <4>3. \A d \in Conexiones : Ajeno(d)
        BY <1>0, <3>1, <3>2 DEF TypeOK
      <4> QED
        BY <2>4, <4>1, <4>2, <4>3
    <3>4. CASE pedido[e].PID = pid
      <4>1. Tomado(pid)' /\ Mata(e, pid)
        BY <3>1, <3>4 DEF Tomado, Mata
      <4>2. ~Tomado(pid)
        BY <2>2, <3>1, <4>1 DEF IInv, Procesos, Tomado
      <4>3. Encabeza(c)
        BY <2>2, <4>2 DEF EnSuLugar
      <4>4. /\ Len(TIDs[pid]) \in Nat /\ DOMAIN TIDs[pid] = 1..Len(TIDs[pid])
            /\ i \in 1..Len(TIDs[pid])
        BY <2>2, <3>2, <3>4, Listas DEF ListaSana
      <4>5. tcb[TIDs[pid][i]].TID = 0
        BY <3>2, <3>4 DEF SeDetieneEn
      <4>6. i = 1
        BY <4>3, <4>4, <4>5 DEF Encabeza
      <4>7. /\ DOMAIN TIDs'[pid] = 1..(Len(TIDs[pid]) - 1)
            /\ \A j \in 1..(Len(TIDs[pid]) - 1) : TIDs'[pid][j] = TIDs[pid][j + 1]
        BY <3>2, <3>4, <4>4, <4>6 DEF Acorta
      <4>8. ASSUME NEW j \in 1..(Len(TIDs[pid]) - 1) PROVE TIDs'[pid][j] # tcb_local[c]
        <5>1. j + 1 \in 1..Len(TIDs[pid]) /\ j + 1 # 1 /\ 1 \in 1..Len(TIDs[pid])
          BY <4>4
        <5>2. TIDs[pid][j + 1] # TIDs[pid][1]
          <6>1. ListaSana(pid)
            BY <2>2, Listas
          <6> HIDE DEF pid
          <6> QED
            BY <5>1, <6>1 DEF ListaSana
        <5> QED
          BY <4>3, <4>7, <5>2 DEF Encabeza
      <4> QED
        BY <2>1, <4>1, <4>7, <4>8 DEF EnSuLugar
    <3> QED
      BY <3>3, <3>4
  <2> QED
    BY <2>5, <2>6, <2>7, <2>8, <2>9, <2>10, <2>11, Grupos
<1> QED
  BY <1>1, <1>2

\* Every step keeps the main TCBs of the creations.
LEMMA PrincipalesPaso ==
  ASSUME IInv, [Next]_vars
  PROVE  Principales'
BY FichaPaso, LugarPrincipal DEF Principales

-----------------------------------------------------------------------------
(* What the CPU uses                                                       *)

\* get_thread(pid, 0) stops at the main TCB, and nowhere else, until the kill
\* takes it.
LEMMA Hallado ==
  ASSUME TypeOK, NEW c \in Conexiones, Encabeza(c), Ficha(c),
         pedido[c].PID \in PIDs, pedido[c].PID \in process_list
  PROVE  /\ EsGetThread(pedido[c].PID, 0, tcb_local[c])
         /\ \A t : EsGetThread(pedido[c].PID, 0, t) => t = tcb_local[c]
         /\ \A i : SeDetieneEn(pedido[c].PID, 0, i) => i = 1
<1> DEFINE pid == pedido[c].PID
<1>1. TIDs[pid] \in Seq(TCBs) /\ TIDs[pid] # <<>>
  BY DEF TypeOK, Encabeza
<1>2. /\ 1 \in DOMAIN TIDs[pid] /\ TIDs[pid][1] = tcb_local[c] /\ tcb[tcb_local[c]].TID = 0
      /\ DOMAIN TIDs[pid] \subseteq Nat
  BY <1>1 DEF Encabeza, Ficha
<1>3. \A i : SeDetieneEn(pid, 0, i) => i = 1
  <2>1. ASSUME NEW i, SeDetieneEn(pid, 0, i) PROVE i = 1
    <3>1. i \in DOMAIN TIDs[pid] /\ tcb[TIDs[pid][i]].TID = 0 /\ i >= 1
      BY <1>1, <2>1 DEF SeDetieneEn
    <3>2. ~(i > 1)
      BY <3>1 DEF Encabeza
    <3> QED
      BY <1>2, <3>1, <3>2
  <2> QED
    BY <2>1
<1>4. SeDetieneEn(pid, 0, 1)
  BY <1>2 DEF SeDetieneEn
<1> QED
  BY <1>2, <1>3, <1>4 DEF EsGetThread

\* The main TCB of an answered process that no kill has taken.
LEMMA Vigente ==
  ASSUME TypeOK, Etiquetas, Procesos, Principales, NEW pid \in respondidos, ~Tomado(pid)
  PROVE  \E c \in Conexiones :
            /\ Crea(c, pid) /\ pc[c] = "cerrada" /\ pid \in process_list /\ pid \in PIDs
            /\ Ficha(c) /\ Encabeza(c)
            /\ \A d \in Conexiones : Crea(d, pid) => d = c
<1>1. pid \in PIDs /\ pid \in process_list
  BY DEF TypeOK, Procesos
<1>2. PICK c \in Conexiones : Crea(c, pid)
  BY <1>1 DEF Procesos
<1>3. pc[c] = "cerrada" /\ \A d \in Conexiones : Crea(d, pid) => d = c
  BY <1>1, <1>2 DEF Procesos
<1>4. Ficha(c) /\ Encabeza(c)
  BY <1>2, <1>3 DEF Principales, EnSuLugar, Crea
<1> QED
  BY <1>1, <1>2, <1>3, <1>4

\* Until the kill takes it, the CPU uses the main TCB of the process, and finds
\* it in its list.
UsoVivo ==
  tcb_local[Cpu] # NULL /\ ~Tomado(cpu.PID) =>
     \E c \in Conexiones :
        /\ Crea(c, cpu.PID) /\ pc[c] = "cerrada" /\ cpu.PID \in PIDs
        /\ Ficha(c) /\ Encabeza(c)
        /\ tcb_local[Cpu] = tcb_local[c] /\ ~tcb[tcb_local[Cpu]].libre

Base == TypeOK /\ Etiquetas /\ Procesos /\ Principales /\ EnLaCpu /\ Enlistados

\* The TCB the CPU works on is the live main TCB of an answered creation, while no kill
\* has taken it.
LEMMA Usado == Base => UsoVivo
<1> SUFFICES ASSUME Base, tcb_local[Cpu] # NULL, ~Tomado(cpu.PID)
             PROVE  \E c \in Conexiones :
                      /\ Crea(c, cpu.PID) /\ pc[c] = "cerrada" /\ cpu.PID \in PIDs
                      /\ Ficha(c) /\ Encabeza(c)
                      /\ tcb_local[Cpu] = tcb_local[c] /\ ~tcb[tcb_local[Cpu]].libre
  BY DEF UsoVivo
<1>1. cpu.PID \in respondidos
  BY DEF Base, EnLaCpu
<1>2. PICK c \in Conexiones :
         /\ Crea(c, cpu.PID) /\ pc[c] = "cerrada" /\ cpu.PID \in PIDs
         /\ Ficha(c) /\ Encabeza(c)
  BY <1>1, Vigente DEF Base
<1>3. tcb_local[Cpu] = tcb_local[c]
  BY <1>1, <1>2 DEF Base, EnLaCpu
<1>4. ~tcb[TIDs[cpu.PID][1]].libre
  <2>1. TIDs[cpu.PID] \in Seq(TCBs) /\ TIDs[cpu.PID] # <<>>
    BY <1>2 DEF Base, TypeOK, Encabeza, Crea
  <2>2. 1 \in DOMAIN TIDs[cpu.PID]
    BY <2>1
  <2> QED
    BY <1>2, <2>2 DEF Base, Enlistados
<1> QED
  BY <1>2, <1>3, <1>4 DEF Encabeza, Crea

\* The same after a step.
LEMMA UsadoDespues == Base' => UsoVivo'
BY Usado, PTL

\* The inductive invariant has the part that says what the CPU works on.
LEMMA BaseDeIInv ==
  ASSUME IInv PROVE Base /\ UsoVivo
BY Usado DEF IInv, Base, Enlistados, SinColgados

\* A thread of a connection that creates a process keeps its request and its
\* TCB once the TCB is malloc'ed.
LEMMA Sigue ==
  ASSUME IInv, [Next]_vars, NEW c \in Conexiones,
         pedido[c].op = "PROCESS_CREATION", pc[c] \notin {"accept", "recv"}
  PROVE  /\ pedido'[c] = pedido[c] /\ tcb_local'[c] = tcb_local[c]
         /\ pc'[c] \notin {"accept", "recv"}
<1>0. TypeOK /\ Etiquetas
  BY DEF IInv
<1>1. CASE Muerte \/ SoloPc
  BY <1>0, <1>1, PasosSolos DEF locales
<1>2. CASE DeLaCpu
  BY <1>0, <1>2, PasosCpu
<1>3. ASSUME NEW e \in Conexiones, Pedido(e)
      PROVE  /\ pedido'[c] = pedido[c] /\ tcb_local'[c] = tcb_local[c] /\ pc'[c] = pc[c]
  <2>1. pc' = [pc EXCEPT ![e] = "accept"] /\ tcb_local' = tcb_local /\ pedido[e].op = "ninguna"
    BY <1>0, <1>3, Peticion DEF locales
  <2>2. c # e
    BY <2>1
  <2> QED
    BY <1>0, <1>3, <2>1, <2>2, Peticion DEF TypeOK
<1>4. ASSUME NEW e \in Conexiones, DelKernel(e), e # c
      PROVE  pedido'[c] = pedido[c] /\ tcb_local'[c] = tcb_local[c] /\ pc'[c] = pc[c]
  <2>1. pedido' = pedido /\ pc'[c] = pc[c]
    BY <1>0, <1>4, PasosKernel DEF DelKernel, Paso, TypeOK
  <2>2. tcb_local'[c] = tcb_local[c]
    BY <1>0, <1>4 DEF DelKernel, IniciarProceso, SafePcbAdd, AgregarPrincipal, ResponderSuccess,
       ContarHilos, CargarHilo, EnlazarHilo, TomarHilo, FreeTcb, TypeOK, locales
  <2> QED
    BY <2>1, <2>2
<1>5. CASE DelKernel(c)
  <2>1. SafePcbAdd(c) \/ AgregarPrincipal(c) \/ ResponderSuccess(c)
    BY <1>0, <1>5, PasosKernel DEF DelKernel, Paso, Pide, Etiquetas
  <2> QED
    BY <1>0, <2>1, PasosKernel DEF Paso, TypeOK, locales
<1> QED
  BY <1>1, <1>2, <1>3, <1>4, <1>5, Grupos

\* A process begins to exist, or is taken by its kill, when a thread of a
\* connection leaves recv() for it.
Nace(p) ==
  \E e \in Conexiones : Crea(e, p) /\ pc[e] = "recv" /\ pc'[e] = "safe_pcb_add"

Cae(p) ==
  \E e \in Conexiones : Mata(e, p) /\ pc[e] = "recv" /\ pc'[e] = "free_tcb"

\* A kill takes the main TCB of its process once and for all.
LEMMA TomadoPaso ==
  ASSUME IInv, [Next]_vars, NEW p
  PROVE  Tomado(p)' <=> Tomado(p) \/ Cae(p)
<1>0. TypeOK /\ Etiquetas
  BY DEF IInv
<1> DEFINE Ya(d) == Mata(d, p) /\ pc[d] \in {"free_tcb", "cerrada"}
           Toma(d) == Mata(d, p) /\ pc[d] = "recv" /\ pc'[d] = "free_tcb"
<1>1. SUFFICES ASSUME NEW d \in Conexiones PROVE Ya(d)' <=> Ya(d) \/ Toma(d)
  BY DEF Tomado, Cae
<1>2. CASE Muerte \/ SoloPc
  BY <1>0, <1>2, PasosSolos DEF Mata
<1>3. CASE DeLaCpu
  BY <1>0, <1>3, PasosCpu DEF Mata
<1>4. ASSUME NEW e \in Conexiones, Pedido(e) PROVE Ya(d)' <=> Ya(d) \/ Toma(d)
  <2>1. /\ pc' = [pc EXCEPT ![e] = "accept"] /\ pedido[e].op = "ninguna"
        /\ \A f \in Conexiones \ {e} : pedido'[f] = pedido[f]
    BY <1>0, <1>4, Peticion
  <2> QED
    BY <1>0, <2>1 DEF Mata, TypeOK
<1>5. ASSUME NEW e \in Conexiones, DelKernel(e) PROVE Ya(d)' <=> Ya(d) \/ Toma(d)
  <2>1. pedido' = pedido
    BY <1>5, PasosKernel DEF DelKernel
  <2>2. CASE e # d
    BY <1>0, <1>5, <2>1, <2>2, PasosKernel DEF DelKernel, Paso, TypeOK, Mata
  <2>3. CASE e = d
    BY <1>0, <1>5, <2>1, <2>3, PasosKernel DEF DelKernel, Paso, Pide, TypeOK, Mata, Etiquetas
  <2> QED
    BY <2>2, <2>3
<1> QED
  BY <1>2, <1>3, <1>4, <1>5, Grupos

\* Every step keeps what the connection of the CPU is working on.
LEMMA EnLaCpuPaso ==
  ASSUME IInv, [Next]_vars
  PROVE  EnLaCpu'
<1>0. TypeOK /\ Etiquetas /\ Procesos /\ EnLaCpu /\ Base /\ UsoVivo
  BY BaseDeIInv DEF IInv
<1>1. ASSUME UNCHANGED cpu, tcb_local'[Cpu] = tcb_local[Cpu], respondidos \subseteq respondidos',
             pc'[Cpu] = pc[Cpu] \/ (pc[Cpu] = "recv" /\ pc'[Cpu] = "perdida")
      PROVE  EnLaCpu'
  <2>1. ASSUME tcb_local'[Cpu] # NULL, ~Tomado(cpu.PID)', NEW c \in Conexiones, Crea(c, cpu.PID)'
        PROVE  tcb_local'[Cpu] = tcb_local'[c]
    <3>1. PICK d \in Conexiones : /\ Crea(d, cpu.PID) /\ pc[d] = "cerrada"
                                  /\ tcb_local[Cpu] = tcb_local[d] /\ cpu.PID \in PIDs
      BY <1>0, <1>1, <2>1, TomadoPaso DEF UsoVivo
    <3>2. Crea(d, cpu.PID)' /\ tcb_local'[d] = tcb_local[d]
      BY <1>1, <3>1, Sigue DEF Crea
    <3>3. c = d
      <4>1. PICK pid \in PIDs : pid = cpu.PID
        BY <3>1
      <4>2. Crea(c, pid)' /\ Crea(d, pid)'
        BY <1>1, <2>1, <3>2, <4>1 DEF Crea
      <4> QED
        BY <4>2, ProcesosPaso DEF Procesos
    <3> QED
      BY <1>1, <3>1, <3>2, <3>3
  <2> QED
    BY <1>0, <1>1, <2>1 DEF EnLaCpu
<1>2. CASE Muerte \/ SoloPc
  BY <1>0, <1>1, <1>2, PasosSolos DEF locales, cliente
<1>3. ASSUME NEW e \in Conexiones, Pedido(e) PROVE EnLaCpu'
  BY <1>0, <1>1, <1>3, Peticion DEF TypeOK, locales
<1>4. ASSUME NEW e \in Conexiones, DelKernel(e) PROVE EnLaCpu'
  <2>1. /\ UNCHANGED cpu /\ respondidos \subseteq respondidos' /\ pc'[Cpu] = pc[Cpu]
    BY <1>0, <1>4, PasosKernel DEF DelKernel, Paso, TypeOK, cliente
  <2>2. tcb_local'[Cpu] = tcb_local[Cpu]
    BY <1>0, <1>4, MemoriaAssumption DEF DelKernel, IniciarProceso, SafePcbAdd, AgregarPrincipal,
       ResponderSuccess, ContarHilos, CargarHilo, EnlazarHilo, TomarHilo, FreeTcb, TypeOK,
       locales
  <2> QED
    BY <1>1, <2>1, <2>2
<1>5. CASE PedirCpu
  <2>1. /\ cpu'.PID \in respondidos' /\ tcb_local' = tcb_local /\ pc[Cpu] = "recv"
        /\ pc'[Cpu] \notin {"recv", "perdida"}
    BY <1>0, <1>5 DEF PedirCpu, Paso, TypeOK, locales
  <2> QED
    BY <1>0, <2>1 DEF EnLaCpu
<1>6. CASE BuscarHilo
  <2>1. PICK t \in TCBs : EsGetThread(cpu.PID, 0, t) /\ tcb_local' = [tcb_local EXCEPT ![Cpu] = t]
    <3>1. DOMAIN tcb = TCBs
      BY <1>0 DEF TypeOK, TCBs
    <3> QED
      BY <1>6, <3>1 DEF BuscarHilo
  <2>2. /\ UNCHANGED <<pc, pedido, cpu, respondidos>>
        /\ pc[Cpu] \notin {"recv", "perdida"}
    BY <1>6 DEF BuscarHilo, cliente
  <2>3. ASSUME NEW c \in Conexiones, Crea(c, cpu.PID), ~Tomado(cpu.PID)
        PROVE  t = tcb_local[c]
    <3>1. cpu.PID \in respondidos
      BY <1>0, <2>2 DEF EnLaCpu
    <3>2. Ficha(c) /\ Encabeza(c) /\ cpu.PID \in process_list /\ cpu.PID \in PIDs
      BY <1>0, <2>3, <3>1, Vigente DEF Base
    <3> QED
      BY <1>0, <2>1, <2>3, <3>2, Hallado DEF Crea
  <2>4. Tomado(cpu.PID)' <=> Tomado(cpu.PID)
    BY <2>2 DEF Tomado, Mata
  <2>5. \A c \in Conexiones : tcb_local'[c] = tcb_local[c]
    BY <1>0, <2>1, MemoriaAssumption DEF TypeOK
  <2> QED
    BY <1>0, <2>1, <2>2, <2>3, <2>4, <2>5 DEF EnLaCpu, Crea, TypeOK
<1>7. CASE ExecutionContext \/ GetInstruction \/ UpdateContext
  <2>1. UNCHANGED <<cpu, respondidos>> /\ tcb_local'[Cpu] = NULL
    BY <1>0, <1>7 DEF ExecutionContext, GetInstruction, UpdateContext, Contestar, TypeOK, Hilos,
       cliente
  <2>2. pc'[Cpu] = "recv"
    BY <1>0, <1>7 DEF ExecutionContext, GetInstruction, UpdateContext, Contestar, Paso, TypeOK,
       Hilos
  <2> QED
    BY <2>1, <2>2 DEF EnLaCpu
<1> QED
  BY <1>2, <1>3, <1>4, <1>5, <1>6, <1>7, Grupos DEF DeLaCpu

-----------------------------------------------------------------------------
(* The invariant                                                           *)

\* No step leaves a pointer to a freed TCB, except the one the CPU may hold of a killed
\* process.
LEMMA ColgadosPaso ==
  ASSUME IInv, [Next]_vars
  PROVE  SinColgados'
<1>1. Base'
  BY TipoPaso, EtiquetasPaso, ProcesosPaso, PrincipalesPaso, EnLaCpuPaso, LugarPaso DEF Base
<1>2. tcb_local'[Cpu] # NULL /\ tcb'[tcb_local'[Cpu]].libre => Tomado(cpu.PID)'
  BY <1>1, UsadoDespues DEF UsoVivo
<1>3. \A c \in Conexiones : pc'[c] = "free_tcb" => ~tcb'[tcb_local'[c]].libre
  BY LugarPaso DEF Propios, EnMano
<1> QED
  BY <1>2, <1>3, LugarPaso DEF SinColgados, Enlistados

\* The last step of the process is one of those that kill it.
Fatal ==
  \/ \E c \in Conexiones : AbortaSinArchivo(c) \/ AbortaLista(c)
  \/ AbortaPerdida \/ AbortaCpu \/ AbortaNull

\* Only the fatal steps of the threads stop the module.
LEMMA Ultimo ==
  ASSUME [Next]_vars, estado' = "abortado"
  PROVE  Fatal \/ UNCHANGED vars
<1>2. SoloPc \/ DeLaCpu => estado = "vivo" /\ estado' = estado
  BY DEF SoloPc, DeLaCpu, Aceptar, AtenderAviso, CpuSeVa, LeerBasura, PedirCpu, BuscarHilo,
     ExecutionContext, GetInstruction, UpdateContext, Contestar, Paso
<1>3. \A c \in Conexiones : Pedido(c) => estado = "vivo" /\ estado' = estado
  BY DEF Pedido, PedirProceso, PedirHilo, PedirBaja, PedirAviso, Pedir, Paso
<1>4. \A c \in Conexiones : DelKernel(c) => estado = "vivo" /\ estado' = estado
  BY PasosKernel DEF DelKernel, Paso
<1>5. \/ UNCHANGED vars \/ Fatal \/ SoloPc \/ DeLaCpu
      \/ \E c \in Conexiones : Pedido(c) \/ DelKernel(c)
  BY DEF Next, Clientes, AtenderKernel, AtenderCpu, SoloPc, DeLaCpu, Pedido, DelKernel, Fatal
<1> QED
  BY <1>2, <1>3, <1>4, <1>5

\* Until the kill takes it, what the CPU looks up is there.
LEMMA Encontrado ==
  ASSUME IInv, NEW pid \in respondidos, ~Tomado(pid)
  PROVE  ~SinHilo(pid, 0)
<1>1. PICK c \in Conexiones :
         Crea(c, pid) /\ pid \in process_list /\ pid \in PIDs /\ Ficha(c) /\ Encabeza(c)
  BY Vigente DEF IInv
<1>2. EsGetThread(pid, 0, tcb_local[c])
  BY <1>1, Hallado DEF Crea, IInv
<1>3. tcb_local[c] \in DOMAIN tcb
  BY <1>1 DEF Ficha, TCBs, IInv, TypeOK
<1> QED
  BY <1>2, <1>3 DEF SinHilo

\* The thread that is to be killed is there, since it is killed once.
LEMMA Victima ==
  ASSUME IInv, NEW c \in Conexiones, Pide(c, "THREAD_KILL")
  PROVE  ~SinVictima(c)
<1> DEFINE pid == pedido[c].PID
<1>1. /\ pid \in PIDs /\ pid \in respondidos /\ pid \in process_list /\ pedido[c].TID = 0
      /\ Mata(c, pid) /\ pc[c] = "recv"
  BY Carga DEF Pide, IInv, Etiquetas, Procesos, Mata
<1>2. PICK d \in Conexiones : Crea(d, pid)
  BY <1>1 DEF IInv, Procesos
<1>3. pc[d] = "cerrada"
  BY <1>1, <1>2 DEF IInv, Procesos
<1>4. ~Tomado(pid)
  <2>1. \A e \in Conexiones : Mata(e, pid) => e = c
    BY <1>1 DEF IInv, Procesos
  <2> QED
    BY <1>1, <2>1 DEF Tomado
<1>5. Ficha(d) /\ Encabeza(d)
  BY <1>2, <1>3, <1>4 DEF IInv, Principales, EnSuLugar, Crea
<1>6. EsGetThread(pid, 0, tcb_local[d])
  BY <1>1, <1>2, <1>5, Hallado DEF IInv, Crea
<1>7. tcb_local[d] \in DOMAIN tcb
  BY <1>5 DEF Ficha, TCBs, IInv, TypeOK
<1> QED
  BY <1>1, <1>6, <1>7 DEF SinVictima, SinHilo

\* The module dies only for one of the reasons MuerteJustificada gives.
LEMMA MuertePaso ==
  ASSUME IInv, [Next]_vars
  PROVE  MuerteJustificada'
<1> SUFFICES ASSUME estado' = "abortado" PROVE MuerteJustificada'
  BY DEF MuerteJustificada
<1>0. TypeOK /\ Etiquetas /\ EnLaCpu /\ Base /\ UsoVivo
  BY BaseDeIInv DEF IInv
<1>1. CASE UNCHANGED vars
  BY <1>1 DEF IInv, MuerteJustificada, Tomado, Mata, Crea, vars, listas, cliente
<1>2. CASE Fatal
  <2>0. UNCHANGED <<pc, pedido, cuenta, TIDs, cpu, bajas>>
    BY <1>2 DEF Fatal, AbortaSinArchivo, AbortaLista, AbortaPerdida, AbortaCpu, AbortaNull,
       Abortar, listas, cliente
  <2>1. ASSUME NEW c \in Conexiones, AbortaSinArchivo(c) PROVE MuerteJustificada'
    <3>1. pedido[c].op \in {"PROCESS_CREATION", "THREAD_CREATION"}
      BY <1>0, <2>1 DEF AbortaSinArchivo, Pide, Etiquetas
    <3> QED
      BY <2>0, <2>1, <3>1 DEF AbortaSinArchivo, MuerteJustificada
  <2>2. ASSUME NEW c \in Conexiones, AbortaLista(c) PROVE MuerteJustificada'
    <3>1. pedido[c].PID \in PIDs
      BY <1>0, <2>2, Carga DEF AbortaLista, Etiquetas
    <3> QED
      BY <2>0, <2>2, <3>1 DEF AbortaLista, MuerteJustificada
  <2>3. CASE AbortaPerdida
    BY <2>0, <2>3 DEF AbortaPerdida, MuerteJustificada
  <2>4. CASE AbortaCpu
    <3>1. pc[Cpu] = "GET_INSTRUCTION" /\ tcb_local[Cpu] # NULL
      BY <2>4 DEF AbortaCpu
    <3>2. CASE Tomado(cpu.PID)
      BY <2>0, <3>2 DEF MuerteJustificada, Tomado, Mata
    <3>3. CASE ~Tomado(cpu.PID)
      <4>1. PICK c \in Conexiones : /\ Crea(c, cpu.PID) /\ Ficha(c)
                                    /\ tcb_local[Cpu] = tcb_local[c]
                                    /\ ~tcb[tcb_local[Cpu]].libre
        BY <1>0, <3>1, <3>3 DEF UsoVivo
      <4>2. cpu.PC >= tcb[tcb_local[Cpu]].lineas
        BY <2>4, <4>1 DEF AbortaCpu
      <4>3. cpu.PC >= Lineas[pedido[c].archivo]
        BY <4>1, <4>2 DEF Ficha
      <4> QED
        BY <2>0, <3>1, <4>1, <4>3 DEF MuerteJustificada, Crea
    <3> QED
      BY <3>2, <3>3
  <2>5. CASE AbortaNull
    <3>1. \A c \in Conexiones : ~SinProceso(c)
      BY DEF SinProceso, Pide, IInv, Etiquetas, Procesos
    <3>2. \A c \in Conexiones : ~SinVictima(c)
      BY Victima DEF SinVictima
    <3>3. SinInvocador
      BY <2>5, <3>1, <3>2 DEF AbortaNull
    <3>4. Tomado(cpu.PID)
      BY <1>0, <3>3, Encontrado DEF SinInvocador, EnLaCpu
    <3> QED
      BY <2>0, <3>4 DEF MuerteJustificada, Tomado, Mata
  <2> QED
    BY <1>2, <2>1, <2>2, <2>3, <2>4, <2>5 DEF Fatal
<1> QED
  BY <1>1, <1>2, Ultimo

\* The inductive invariant holds when the module starts.
LEMMA InvInicial == Init => IInv
<1> SUFFICES ASSUME Init PROVE IInv
  OBVIOUS
<1>1. /\ \A c \in Conexiones : pc[c] = "libre" /\ pedido[c].op = "ninguna"
      /\ pc[Cpu] = "recv" /\ tcb_local[Cpu] = NULL /\ estado = "vivo" /\ tcb = <<>>
      /\ \A p \in PIDs : TIDs[p] = <<>> /\ cuenta[p] = 0 /\ Len(TIDs[p]) = 0
      /\ process_list = {} /\ respondidos = {} /\ bajas = {}
  BY DEF Init
<1>2. TypeOK
  <2>1. /\ pc \in [Hilos -> EtiquetasKernel \cup EtiquetasCpu]
        /\ \A c \in Conexiones : pc[c] \in EtiquetasKernel
        /\ pc[Cpu] \in EtiquetasCpu
    BY DEF Init, EtiquetasKernel, EtiquetasCpu
  <2>2. pedido \in [Conexiones -> PedidosPosibles]
    BY DEF Init, PedidosPosibles
  <2>3. TCBs = {} /\ \A S : <<>> \in Seq(S)
    BY <1>1 DEF TCBs
  <2>4. /\ TID_nuevo \in [Conexiones -> Nat] /\ tcb_local \in [Hilos -> {NULL} \cup TCBs]
        /\ visto \in [Conexiones -> Seq(TCBs)]
        /\ TIDs \in [PIDs -> Seq(TCBs)] /\ cuenta \in [PIDs -> Nat]
    BY <2>3 DEF Init
  <2>5. /\ cpu \in [PID : PIDs \cup {NULL}, PC : Nat] /\ contexto \in Nat
    BY DEF Init
  <2> QED
    BY <1>1, <2>1, <2>2, <2>3, <2>4, <2>5 DEF TypeOK
<1>3. Etiquetas /\ Procesos /\ Propios /\ Principales
  BY <1>1 DEF Etiquetas, Procesos, Propios, EnMano, Principales, Crea, Mata
<1>4. EnLaCpu /\ SinColgados /\ MuerteJustificada
  BY <1>1 DEF EnLaCpu, SinColgados, MuerteJustificada, TCBs, Crea
<1> QED
  BY <1>2, <1>3, <1>4 DEF IInv

\* Every step keeps the inductive invariant.
LEMMA InvPaso == IInv /\ [Next]_vars => IInv'
BY TipoPaso, EtiquetasPaso, ProcesosPaso, LugarPaso, PrincipalesPaso, EnLaCpuPaso, ColgadosPaso,
   MuertePaso DEF IInv

-----------------------------------------------------------------------------
(* The theorems                                                            *)

\* Each connection of the kernel has its own request, each TCB is in one place,
\* and the main TCB of each process goes from the thread that creates it to
\* the head of its list, and from there to the thread that kills it.
THEOREM Invariante == Spec => []IInv
BY InvInicial, InvPaso, PTL DEF Spec

\* Memoria's globals and its threads' locals keep their types: every TCB a list
\* or a thread refers to was malloc'ed.
THEOREM Tipos == Spec => []TypeOK
<1>1. IInv => TypeOK
  BY DEF IInv
<1> QED
  BY <1>1, Invariante, PTL

\* Where the inductive invariant holds, an answered process has its main TCB loaded.
LEMMA CargadoPorIInv == IInv => RespondidoCargado
<1> SUFFICES ASSUME IInv, NEW c \in Conexiones, pedido[c].op = "PROCESS_CREATION",
                    pedido[c].PID \in respondidos, ~Tomado(pedido[c].PID)
             PROVE  \E t \in TCBs :
                       /\ EsGetThread(pedido[c].PID, 0, t)
                       /\ ~tcb[t].libre /\ tcb[t].PID = pedido[c].PID
                       /\ tcb[t].lineas = Lineas[pedido[c].archivo]
  BY DEF RespondidoCargado
<1>1. /\ pedido[c].PID \in process_list /\ pedido[c].PID \in PIDs
      /\ Ficha(c) /\ Encabeza(c)
  BY Vigente DEF IInv, Crea
<1>2. EsGetThread(pedido[c].PID, 0, tcb_local[c])
  BY <1>1, Hallado DEF IInv
<1>3. 1 \in DOMAIN TIDs[pedido[c].PID] /\ TIDs[pedido[c].PID][1] = tcb_local[c]
  <2> DEFINE s == TIDs[pedido[c].PID]
  <2>1. s # <<>> /\ s[1] = tcb_local[c]
    BY <1>1 DEF Encabeza
  <2>2. s \in Seq(TCBs)
    BY <1>1 DEF IInv, TypeOK
  <2> HIDE DEF s
  <2>3. 1 \in DOMAIN s
    BY <2>1, <2>2
  <2> QED
    BY <2>1, <2>3 DEF s
<1>4. ~tcb[tcb_local[c]].libre
  <2>1. pedido[c].PID \in PIDs /\ 1 \in DOMAIN TIDs[pedido[c].PID]
    BY <1>1, <1>3
  <2>2. ~tcb[TIDs[pedido[c].PID][1]].libre
    BY <2>1, EnLista
  <2> QED
    BY <1>3, <2>2
<1> QED
  BY <1>1, <1>2, <1>4 DEF Ficha

\* From the answer to PROCESS_CREATION until the kill of the process is asked,
\* get_thread(pid, 0) finds its main thread, allocated and with its program.
THEOREM Cargado == Spec => []RespondidoCargado
BY CargadoPorIInv, Invariante, PTL

\* free_tcb leaves no list, and no thread that will free again, with the TCB it
\* freed; nor the thread of a CPU that drops the threads the kernel kills.
THEOREM Colgados == Spec => []SinColgados
<1>1. IInv => SinColgados
  BY DEF IInv
<1> QED
  BY <1>1, Invariante, PTL

\* Memoria dies only of a missing file, of a connection of the CPU that is lost,
\* of a CPU that goes on with a killed thread, or of a list two threads changed
\* at once: get_process and get_thread never answer NULL otherwise.
THEOREM Muertes == Spec => []MuerteJustificada
<1>1. IInv => MuerteJustificada
  BY DEF IInv
<1> QED
  BY <1>1, Invariante, PTL

-----------------------------------------------------------------------------
(* Memoria implements Contextos.                                           *)

\* The context of a process is the PC of the TCB its creator malloc'ed.
ContextoBien ==
  \A p \in PIDs, c \in Conexiones : Crea(c, p) => Contexto(p) = tcb[tcb_local[c]].PC

\* A process has one creator.
LEMMA ContextoDeTcb == Procesos => ContextoBien
<1> SUFFICES ASSUME Procesos, NEW p \in PIDs, NEW c \in Conexiones, Crea(c, p)
             PROVE  Contexto(p) = tcb[tcb_local[c]].PC
  BY DEF ContextoBien
<1>1. \A d \in Conexiones : Crea(d, p) => d = c
  BY DEF Procesos
<1>2. (CHOOSE d \in Conexiones : Crea(d, p)) = c
  BY <1>1
<1> QED
  BY <1>2 DEF Contexto

\* The same after a step.
LEMMA ContextoDespues == Procesos' => ContextoBien'
BY ContextoDeTcb, PTL

\* Processes begin and cease to exist at process_initiate() and take_thread().
LEMMA ExistePaso ==
  ASSUME IInv, [Next]_vars, NEW p \in PIDs
  PROVE  Existe(p)' <=> (Existe(p) \/ Nace(p)) /\ ~Cae(p)
<1>0. TypeOK /\ Etiquetas /\ Procesos
  BY DEF IInv
<1> DEFINE Alguno == \E c \in Conexiones : Crea(c, p) /\ pc[c] \notin {"accept", "recv"}
<1>1. Alguno' <=> Alguno \/ Nace(p)
  <2>1. ASSUME NEW c \in Conexiones, Crea(c, p)', pc'[c] \notin {"accept", "recv"}
        PROVE  Alguno \/ Nace(p)
    <3>1. CASE IniciarProceso(c)
      <4>1. Crea(c, p) /\ pc[c] = "recv" /\ pc'[c] = "safe_pcb_add"
        BY <1>0, <2>1, <3>1, PasosKernel DEF Crea, Pide, Paso, TypeOK
      <4> QED
        BY <4>1 DEF Nace
    <3>2. CASE pedido'[c] = pedido[c] /\ pc[c] \notin {"accept", "recv"}
      BY <2>1, <3>2 DEF Crea
    <3> QED
      BY <2>1, <3>1, <3>2, Creador DEF Crea
  <2>2. ASSUME NEW c \in Conexiones, Crea(c, p), pc[c] \notin {"accept", "recv"}
        PROVE  Alguno'
    BY <2>2, Sigue DEF Crea
  <2>3. ASSUME NEW c \in Conexiones, Crea(c, p), pc[c] = "recv", pc'[c] = "safe_pcb_add"
        PROVE  Alguno'
    <3>1. pedido'[c] = pedido[c]
      <4>1. ASSUME NEW e \in Conexiones, Pedido(e) PROVE pedido'[c] = pedido[c]
        BY <1>0, <2>3, <4>1, Peticion
      <4> QED
        BY <1>0, <4>1, Grupos, PasosSolos, PasosCpu, PasosKernel DEF DelKernel
    <3> QED
      BY <2>3, <3>1 DEF Crea
  <2> QED
    BY <2>1, <2>2, <2>3 DEF Nace
<1>2. Nace(p) => ~Tomado(p)
  BY <1>0 DEF Nace, Tomado, Mata, Etiquetas, Procesos
<1> QED
  BY <1>1, <1>2, TomadoPaso DEF Existe

\* The step leaves the context of p as it was.
Intacto(p) ==
  /\ Existe(p)' <=> Existe(p)
  /\ Existe(p) => Contexto(p)' = Contexto(p)

\* A step that neither creates nor kills p leaves its context alone, if it
\* leaves the PC of its main TCB alone.
LEMMA Queda ==
  ASSUME IInv, [Next]_vars, NEW p \in PIDs, ~Nace(p), ~Cae(p)
  PROVE  /\ Existe(p)' <=> Existe(p)
         /\ Existe(p) => \E c \in Conexiones :
               /\ Ficha(c) /\ Crea(c, p) /\ tcb_local[c] \in TCBs /\ tcb[tcb_local[c]].PID = p
               /\ Contexto(p) = tcb[tcb_local[c]].PC /\ Contexto(p)' = tcb'[tcb_local[c]].PC
<1>1. Existe(p)' <=> Existe(p)
  BY ExistePaso
<1>2. ASSUME Existe(p)
      PROVE  \E c \in Conexiones :
               /\ Ficha(c) /\ Crea(c, p) /\ tcb_local[c] \in TCBs /\ tcb[tcb_local[c]].PID = p
               /\ Contexto(p) = tcb[tcb_local[c]].PC /\ Contexto(p)' = tcb'[tcb_local[c]].PC
  <2>1. PICK c \in Conexiones : Crea(c, p) /\ pc[c] \notin {"accept", "recv"}
    BY <1>2 DEF Existe
  <2>2. Crea(c, p)' /\ tcb_local'[c] = tcb_local[c]
    BY <2>1, Sigue DEF Crea
  <2>3. ContextoBien /\ ContextoBien'
    BY ProcesosPaso, ContextoDeTcb, ContextoDespues DEF IInv
  <2>4. Ficha(c)
    BY <2>1 DEF IInv, Principales, Crea
  <2> QED
    BY <2>1, <2>2, <2>3, <2>4 DEF ContextoBien, Ficha, Crea
<1> QED
  BY <1>1, <1>2

\* What the steps do to the contexts, read as steps of Contextos.
Tabla == [p \in {p \in PIDs : Existe(p)} |-> Contexto(p)]

\* A step that touches no context leaves the table as it was.
LEMMA TablaIgual ==
  ASSUME \A p \in PIDs : Intacto(p)
  PROVE  Tabla' = Tabla
BY DEF Tabla, Intacto

\* A step that gives one process a context at PC 0 is Crear.
LEMMA TablaCrear ==
  ASSUME NEW pid \in PIDs, \A p \in PIDs : p # pid => Intacto(p), UNCHANGED <<cpu, contexto>>,
         ~Existe(pid), Existe(pid)', Contexto(pid)' = 0
  PROVE  C!Crear(pid)
<1>1. /\ DOMAIN Tabla = {p \in PIDs : Existe(p)}
      /\ \A p \in DOMAIN Tabla : Tabla[p] = Contexto(p)
  BY DEF Tabla
<1>2. Tabla' = [p \in DOMAIN Tabla \cup {pid} |-> IF p = pid THEN 0 ELSE Tabla[p]]
  <2>1. {p \in PIDs : Existe(p)'} = DOMAIN Tabla \cup {pid}
    BY <1>1 DEF Intacto
  <2>2. \A p \in DOMAIN Tabla \cup {pid} : Contexto(p)' = IF p = pid THEN 0 ELSE Tabla[p]
    BY <1>1 DEF Intacto
  <2> QED
    BY <2>1, <2>2 DEF Tabla
<1>3. pid \notin DOMAIN Tabla
  BY <1>1
<1> QED
  BY <1>2, <1>3 DEF C!Crear, Tabla

\* A step that takes the context of one process away is Terminar.
LEMMA TablaTerminar ==
  ASSUME NEW pid \in PIDs, \A p \in PIDs : p # pid => Intacto(p), UNCHANGED <<cpu, contexto>>,
         Existe(pid), ~Existe(pid)'
  PROVE  C!Terminar(pid)
<1>1. /\ DOMAIN Tabla = {p \in PIDs : Existe(p)}
      /\ \A p \in DOMAIN Tabla : Tabla[p] = Contexto(p)
  BY DEF Tabla
<1>2. Tabla' = [p \in DOMAIN Tabla \ {pid} |-> Tabla[p]]
  <2>1. {p \in PIDs : Existe(p)'} = DOMAIN Tabla \ {pid}
    BY <1>1 DEF Intacto
  <2>2. \A p \in DOMAIN Tabla \ {pid} : Contexto(p)' = Tabla[p]
    BY <1>1 DEF Intacto
  <2> QED
    BY <2>1, <2>2 DEF Tabla
<1>3. pid \in DOMAIN Tabla
  BY <1>1
<1> QED
  BY <1>2, <1>3 DEF C!Terminar, Tabla

\* A step that writes the PC of the CPU on one context stores it there.
LEMMA TablaGuardar ==
  ASSUME NEW pid \in PIDs, \A p \in PIDs : p # pid => Intacto(p),
         Existe(pid), Existe(pid)', Contexto(pid)' = cpu.PC
  PROVE  /\ pid \in DOMAIN Tabla
         /\ Tabla' = [Tabla EXCEPT ![pid] = cpu.PC]
<1>1. /\ DOMAIN Tabla = {p \in PIDs : Existe(p)}
      /\ \A p \in DOMAIN Tabla : Tabla[p] = Contexto(p)
  BY DEF Tabla
<1>2. Tabla' = [Tabla EXCEPT ![pid] = cpu.PC]
  <2>1. {p \in PIDs : Existe(p)'} = DOMAIN Tabla
    BY <1>1 DEF Intacto
  <2>2. \A p \in DOMAIN Tabla : Contexto(p)' = IF p = pid THEN cpu.PC ELSE Tabla[p]
    BY <1>1 DEF Intacto
  <2>3. Tabla' = [p \in DOMAIN Tabla |-> IF p = pid THEN cpu.PC ELSE Tabla[p]]
    BY <2>1, <2>2 DEF Tabla
  <2>4. Tabla = [p \in DOMAIN Tabla |-> Tabla[p]]
    BY DEF Tabla
  <2> QED
    BY <2>3, <2>4
<1> QED
  BY <1>1, <1>2

\* The steps of the CPU.
LEMMA RefinaCpu ==
  ASSUME IInv, [Next]_vars, DeLaCpu
  PROVE  C!Next \/ UNCHANGED C!vars
<1>0. TypeOK /\ Procesos /\ ContextoBien /\ EnLaCpu /\ UsoVivo
  BY BaseDeIInv, ContextoDeTcb DEF IInv
<1>1. \A p : ~Nace(p) /\ ~Cae(p)
  BY <1>0, PasosCpu DEF Nace, Cae
<1>2. ASSUME UNCHANGED tcb PROVE Tabla' = Tabla
  <2>1. \A p \in PIDs : Intacto(p)
    BY <1>1, <1>2, Queda DEF Intacto
  <2> QED
    BY <2>1, TablaIgual
<1>3. CASE BuscarHilo \/ GetInstruction
  <2>1. UNCHANGED <<tcb, cpu, contexto>>
    BY <1>3 DEF BuscarHilo, GetInstruction, cliente
  <2> QED
    BY <1>2, <2>1 DEF C!vars, Tabla
<1>4. CASE PedirCpu
  <2>1. UNCHANGED <<tcb, contexto>> /\ cpu' \in [PID : PIDs, PC : Nat]
    <3>1. PICK pid \in respondidos, c \in Conexiones :
             /\ Crea(c, pid)
             /\ \E linea \in 0..Lineas[pedido[c].archivo] : cpu' = [PID |-> pid, PC |-> linea]
      BY <1>4 DEF PedirCpu, Crea
    <3>2. pid \in PIDs /\ pedido[c].archivo \in DOMAIN Lineas
      BY <1>0, <3>1 DEF IInv, Procesos, Principales, Ficha, Crea, TypeOK
    <3> QED
      BY <1>4, <3>1, <3>2 DEF PedirCpu
  <2>2. C!Pedir
    BY <1>2, <2>1 DEF C!Pedir, Tabla
  <2> QED
    BY <2>2 DEF C!Next
<1>5. ASSUME Tomado(cpu.PID) PROVE cpu.PID \notin DOMAIN Tabla
  BY <1>5 DEF Tabla, Existe
<1>6. ASSUME ~Tomado(cpu.PID), tcb_local[Cpu] # NULL
      PROVE  /\ cpu.PID \in PIDs /\ Existe(cpu.PID) /\ cpu.PID \in DOMAIN Tabla
             /\ tcb_local[Cpu] \in TCBs /\ ~tcb[tcb_local[Cpu]].libre
             /\ tcb[tcb_local[Cpu]].PID = cpu.PID
             /\ Tabla[cpu.PID] = tcb[tcb_local[Cpu]].PC
  <2>1. PICK c \in Conexiones : /\ Crea(c, cpu.PID) /\ pc[c] = "cerrada" /\ cpu.PID \in PIDs
                                /\ Ficha(c) /\ tcb_local[Cpu] = tcb_local[c]
                                /\ ~tcb[tcb_local[Cpu]].libre
    BY <1>0, <1>6 DEF UsoVivo
  <2>2. Existe(cpu.PID)
    BY <1>6, <2>1 DEF Existe
  <2>3. tcb_local[Cpu] \in TCBs /\ tcb[tcb_local[Cpu]].PID = cpu.PID
    BY <2>1 DEF Ficha, Crea
  <2>4. Contexto(cpu.PID) = tcb[tcb_local[Cpu]].PC
    BY <1>0, <2>1 DEF ContextoBien
  <2> QED
    BY <2>1, <2>2, <2>3, <2>4 DEF Tabla
<1>7. CASE ExecutionContext
  <2>1. tcb_local[Cpu] # NULL /\ UNCHANGED <<tcb, cpu>> /\ Tabla' = Tabla
    BY <1>2, <1>7 DEF ExecutionContext, Contestar
  <2>2. /\ contexto' \in Nat
        /\ ~tcb[tcb_local[Cpu]].libre => contexto' = tcb[tcb_local[Cpu]].PC
    <3>1. tcb_local[Cpu] \in TCBs /\ tcb[tcb_local[Cpu]].lineas \in Nat
      <4>1. tcb_local[Cpu] \in TCBs
        BY <1>0, <2>1 DEF TypeOK, Hilos
      <4>2. tcb \in Seq(RegistroTcb) /\ tcb_local[Cpu] \in 1..Len(tcb)
        BY <1>0, <4>1 DEF TypeOK, RegistroTcb, TCBs
      <4>3. tcb[tcb_local[Cpu]] \in RegistroTcb
        BY <4>2
      <4> QED
        BY <4>1, <4>3 DEF RegistroTcb
    <3>2. \A leido \in 0..tcb[tcb_local[Cpu]].lineas : leido \in Nat
      BY <3>1
    <3> QED
      BY <1>7, <3>2 DEF ExecutionContext
  <2>3. CASE Tomado(cpu.PID)
    <3>1. C!LeerSuelto
      BY <1>5, <2>1, <2>2, <2>3 DEF C!LeerSuelto, Tabla
    <3> QED
      BY <3>1 DEF C!Next
  <2>4. CASE ~Tomado(cpu.PID)
    <3>1. C!Leer
      BY <1>6, <2>1, <2>2, <2>4 DEF C!Leer, Tabla
    <3> QED
      BY <3>1 DEF C!Next
  <2> QED
    BY <2>3, <2>4
<1>8. CASE UpdateContext
  <2>1. tcb_local[Cpu] # NULL /\ UNCHANGED <<cpu, contexto>>
    BY <1>8 DEF UpdateContext, Contestar, cliente
  <2>2. PICK t \in TCBs : /\ tcb[tcb_local[Cpu]].libre \/ t = tcb_local[Cpu]
                          /\ tcb'[t].PC = cpu.PC
                          /\ \A u \in TCBs : u # t => tcb'[u] = tcb[u]
    BY <1>8, Guardado
  <2>3. ASSUME NEW p \in PIDs, tcb[t].PID # p \/ (Existe(p) => Contexto(p) = Contexto(p)')
        PROVE  Intacto(p)
    BY <1>1, <2>2, <2>3, Queda DEF Intacto
  <2>4. ASSUME NEW q \in PIDs, tcb[t].PID = q, Existe(q), Contexto(q)' = cpu.PC
        PROVE  q \in DOMAIN Tabla /\ Tabla' = [Tabla EXCEPT ![q] = cpu.PC]
    <3>1. Existe(q)'
      BY <1>1, <2>4, Queda
    <3>2. \A p \in PIDs : p # q => Intacto(p)
      BY <2>3, <2>4
    <3> QED
      BY <2>4, <3>1, <3>2, TablaGuardar
  <2>5. ASSUME NEW p \in PIDs PROVE Intacto(p) \/ (Existe(p) /\ tcb[t].PID = p /\ Contexto(p)' = cpu.PC)
    BY <1>1, <2>2, Queda DEF Intacto
  <2>6. CASE Tomado(cpu.PID)
    <3>1. CASE \A p \in PIDs : Intacto(p)
      BY <2>1, <3>1, TablaIgual DEF C!vars, Tabla
    <3>2. ASSUME NEW q \in PIDs, ~Intacto(q) PROVE C!GuardarSuelto
      <4>1. q \in DOMAIN Tabla /\ Tabla' = [Tabla EXCEPT ![q] = cpu.PC]
        BY <2>4, <2>5, <3>2
      <4> QED
        BY <1>5, <2>1, <2>6, <4>1 DEF C!GuardarSuelto, Tabla
    <3> QED
      BY <3>1, <3>2 DEF C!Next
  <2>7. CASE ~Tomado(cpu.PID)
    <3>1. t = tcb_local[Cpu] /\ tcb[t].PID = cpu.PID /\ cpu.PID \in PIDs /\ Existe(cpu.PID)
      BY <1>6, <2>1, <2>2, <2>7
    <3>2. \E q \in PIDs : q = cpu.PID /\ Contexto(q)' = cpu.PC
      <4>1. PICK c \in Conexiones : /\ Crea(c, cpu.PID) /\ tcb_local[Cpu] = tcb_local[c]
                                    /\ pc[c] = "cerrada"
        BY <1>0, <2>1, <2>7 DEF UsoVivo
      <4>2. Crea(c, cpu.PID)' /\ tcb_local'[c] = tcb_local[c]
        BY <2>1, <4>1, Sigue DEF Crea
      <4>3. ContextoBien'
        BY ProcesosPaso, ContextoDespues
      <4>4. PICK q \in PIDs : q = cpu.PID
        BY <3>1
      <4>5. Contexto(q)' = tcb'[tcb_local'[c]].PC
        BY <2>1, <4>2, <4>3, <4>4 DEF ContextoBien, Crea
      <4> QED
        BY <2>1, <2>2, <3>1, <4>1, <4>2, <4>4, <4>5
    <3>3. cpu.PID \in DOMAIN Tabla /\ Tabla' = [Tabla EXCEPT ![cpu.PID] = cpu.PC]
      BY <2>4, <3>1, <3>2
    <3>4. C!Guardar
      BY <2>1, <3>3 DEF C!Guardar, Tabla
    <3> QED
      BY <3>4 DEF C!Next
  <2> QED
    BY <2>6, <2>7
<1> QED
  BY <1>3, <1>4, <1>7, <1>8 DEF DeLaCpu

\* The steps of the connections of the kernel.
LEMMA RefinaKernel ==
  ASSUME IInv, [Next]_vars, NEW e \in Conexiones, DelKernel(e)
  PROVE  C!Next \/ UNCHANGED C!vars
<1>0. TypeOK /\ Etiquetas /\ Procesos
  BY DEF IInv
<1>1. UNCHANGED <<pedido, cpu, contexto>>
  BY PasosKernel DEF DelKernel, cliente
<1>2. \A t \in TCBs : tcb'[t].PC = tcb[t].PC
  BY Nuevo, Liberado, PasosKernel DEF DelKernel
<1>3. ASSUME NEW p \in PIDs, ~Nace(p), ~Cae(p) PROVE Intacto(p)
  BY <1>2, <1>3, Queda DEF Intacto
<1>4. \A d \in Conexiones : d # e => pc'[d] = pc[d]
  BY <1>0, PasosKernel DEF DelKernel, Paso, TypeOK
<1>5. CASE IniciarProceso(e)
  <2>1. /\ pc[e] = "recv" /\ pc'[e] = "safe_pcb_add" /\ pedido[e].op = "PROCESS_CREATION"
        /\ pedido[e].PID \in PIDs
    BY <1>0, <1>5, Carga, PasosKernel DEF Pide, Paso, TypeOK
  <2>2. PICK pid \in PIDs : pid = pedido[e].PID
    BY <2>1
  <2>3. Nace(pid) /\ \A p : ~Cae(p) /\ (p # pid => ~Nace(p))
    BY <1>4, <2>1, <2>2 DEF Nace, Cae, Crea
  <2>4. \A p \in PIDs : p # pid => Intacto(p)
    BY <1>3, <2>3
  <2>5. ~Existe(pid) /\ Existe(pid)'
    <3>1. \A c \in Conexiones : Crea(c, pid) => c = e
      BY <1>0, <2>1, <2>2 DEF Procesos, Crea
    <3>2. ~Existe(pid)
      BY <2>1, <3>1 DEF Existe
    <3>3. ~Tomado(pid)
      <4>1. pid \notin respondidos
        BY <1>0, <2>1, <2>2 DEF Procesos, Crea
      <4> QED
        BY <1>0, <4>1 DEF Tomado, Mata, Etiquetas, Procesos
    <3>4. Existe(pid)'
      BY <1>1, <2>1, <2>2, <2>3, <3>3, TomadoPaso DEF Existe, Crea
    <3> QED
      BY <3>2, <3>4
  <2>6. Contexto(pid)' = 0
    <3>1. tcb'[tcb_local'[e]].PC = 0
      <4>1. tcb_local'[e] = Len(tcb) + 1
        BY <1>0, <1>5 DEF IniciarProceso, TypeOK, Hilos
      <4>2. PICK tid \in Nat : tcb'[Len(tcb) + 1] =
                                  ThreadInitiate(pedido[e].PID, tid, pedido[e].archivo)
        BY <1>5, Nuevo
      <4> QED
        BY <4>1, <4>2 DEF ThreadInitiate
    <3>2. ContextoBien' /\ Crea(e, pid)'
      BY <1>1, <2>1, <2>2, ProcesosPaso, ContextoDespues DEF Crea
    <3> QED
      BY <3>1, <3>2 DEF ContextoBien
  <2>7. C!Crear(pid)
    BY <1>1, <2>4, <2>5, <2>6, TablaCrear
  <2> QED
    BY <2>7 DEF C!Next
<1>6. CASE TomarHilo(e)
  <2>0. pc[e] = "recv" /\ pc'[e] = "free_tcb" /\ pedido[e].op = "THREAD_KILL"
    BY <1>0, <1>6, PasosKernel DEF Pide, Paso, TypeOK
  <2>1. /\ pc[e] = "recv" /\ pc'[e] = "free_tcb" /\ pedido[e].op = "THREAD_KILL"
        /\ pedido[e].PID \in respondidos
    BY <1>0, <2>0 DEF Etiquetas, Procesos
  <2>2. PICK pid \in PIDs : pid = pedido[e].PID
    BY <1>0, <2>1 DEF TypeOK
  <2>3. Cae(pid) /\ \A p : ~Nace(p) /\ (p # pid => ~Cae(p))
    BY <1>4, <2>1, <2>2 DEF Nace, Cae, Mata
  <2>4. \A p \in PIDs : p # pid => Intacto(p)
    BY <1>3, <2>3
  <2>5. Existe(pid)
    <3>1. PICK c \in Conexiones : Crea(c, pid)
      BY <1>0, <2>1, <2>2 DEF Procesos
    <3>2. pc[c] = "cerrada"
      BY <1>0, <2>1, <2>2, <3>1 DEF Procesos
    <3>3. ~Tomado(pid)
      BY <1>0, <2>1, <2>2 DEF Procesos, Tomado, Mata
    <3> QED
      BY <3>1, <3>2, <3>3 DEF Existe
  <2>6. ~Existe(pid)'
    BY <2>3, ExistePaso
  <2>7. C!Terminar(pid)
    BY <1>1, <2>4, <2>5, <2>6, TablaTerminar
  <2> QED
    BY <2>7 DEF C!Next
<1>7. CASE \/ SafePcbAdd(e) \/ AgregarPrincipal(e) \/ ResponderSuccess(e) \/ ContarHilos(e)
           \/ CargarHilo(e) \/ EnlazarHilo(e) \/ FreeTcb(e)
  <2>1. pc'[e] \notin {"safe_pcb_add", "free_tcb"}
    BY <1>0, <1>7, PasosKernel DEF Paso, TypeOK
  <2>2. \A p : ~Nace(p) /\ ~Cae(p)
    BY <1>4, <2>1 DEF Nace, Cae
  <2>3. \A p \in PIDs : Intacto(p)
    BY <1>3, <2>2
  <2> QED
    BY <1>1, <2>3, TablaIgual DEF C!vars, Tabla
<1> QED
  BY <1>5, <1>6, <1>7 DEF DelKernel

\* Every step is a step of Contextos or a stutter.
LEMMA RefinaPaso == IInv /\ [Next]_vars => [C!Next]_(C!vars)
<1> SUFFICES ASSUME IInv, [Next]_vars PROVE C!Next \/ UNCHANGED C!vars
  OBVIOUS
<1>0. TypeOK /\ Etiquetas
  BY DEF IInv
<1>1. ASSUME UNCHANGED <<tcb, cpu, contexto>>,
             \A c \in Conexiones : pc'[c] \notin {"safe_pcb_add", "free_tcb"} \/ pc'[c] = pc[c]
      PROVE  UNCHANGED C!vars
  <2>1. \A p \in PIDs : Intacto(p)
    BY <1>1, Queda DEF Intacto, Nace, Cae
  <2> QED
    BY <1>1, <2>1, TablaIgual DEF C!vars, Tabla
<1>2. CASE Muerte \/ SoloPc
  BY <1>0, <1>1, <1>2, PasosSolos DEF cliente
<1>3. ASSUME NEW c \in Conexiones, Pedido(c) PROVE UNCHANGED C!vars
  <2>1. /\ UNCHANGED <<tcb, cpu, contexto>> /\ pc' = [pc EXCEPT ![c] = "accept"]
    BY <1>0, <1>3, Peticion
  <2> QED
    BY <1>0, <1>1, <2>1 DEF TypeOK
<1> QED
  BY <1>2, <1>3, RefinaCpu, RefinaKernel, Grupos

\* The module starts with no context.
LEMMA RefinaInicio == Init => C!Init
<1> SUFFICES ASSUME Init PROVE C!Init
  OBVIOUS
<1>1. /\ \A c \in Conexiones : pedido[c].op = "ninguna"
      /\ cpu = [PID |-> 0, PC |-> 0] /\ contexto = 0
  BY DEF Init
<1>2. {p \in PIDs : Existe(p)} = {}
  BY <1>1 DEF Existe, Crea
<1>3. Tabla = [p \in {} |-> 0]
  BY <1>2 DEF Tabla
<1> QED
  BY <1>1, <1>3 DEF C!Init, Tabla

\* The lists, the TCBs and the threads of the connections amount to one context
\* per process: the last one the CPU stored, from process_initiate() to
\* take_thread(), whatever the kernel asks for meanwhile.  What the CPU asks of
\* a process that is gone is answered with anything, and what it stores for it
\* lands nowhere or in one other context.
THEOREM Implementa == Spec => Refina
<1>1. IInv /\ [Next]_vars => [C!Next]_(C!vars)
  BY RefinaPaso
<1> QED
  BY <1>1, RefinaInicio, Invariante, PTL DEF Spec, Refina, C!Spec

=============================================================================
