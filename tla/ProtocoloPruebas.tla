-------------------------- MODULE ProtocoloPruebas --------------------------
(***************************************************************************)
(* Why every call is taken for what it was, and every answer for what was  *)
(* answered: what each end has still to read is, byte by byte, the rest of *)
(* what the other sent.                                                    *)
(***************************************************************************)
EXTENDS ProtocoloProps, BuffersPruebas

-----------------------------------------------------------------------------
(* Bytes on their way                                                      *)

\* Concatenation and its parts, under names of their own: the proofs use the
\* facts of this section about them and nothing else.
Junta(s, t)    == s \o t
Primeros(s, n) == SubSeq(s, 1, n)
Demas(s, n)    == SubSeq(s, n + 1, Len(s))

\* Its length and its elements.
LEMMA Juntar ==
  ASSUME NEW S, NEW s \in Seq(S), NEW t \in Seq(S)
  PROVE  /\ Junta(s, t) \in Seq(S)
         /\ Len(Junta(s, t)) = Len(s) + Len(t)
         /\ Len(s) \in Nat /\ Len(t) \in Nat
         /\ \A i \in 1..Len(s) : Junta(s, t)[i] = s[i]
<1>1. /\ s \o t \in Seq(S) /\ Len(s \o t) = Len(s) + Len(t)
      /\ \A i \in 1..Len(s) + Len(t) :
            (s \o t)[i] = IF i <= Len(s) THEN s[i] ELSE t[i - Len(s)]
  BY ConcatProperties
<1>2. Len(s) \in Nat /\ Len(t) \in Nat
  BY LenProperties
<1>3. \A i \in 1..Len(s) : i \in 1..Len(s) + Len(t) /\ i <= Len(s)
  BY <1>2
<1> QED
  BY <1>1, <1>2, <1>3 DEF Junta

\* It is associative.
LEMMA Asociar ==
  ASSUME NEW S, NEW s \in Seq(S), NEW t \in Seq(S), NEW u \in Seq(S)
  PROVE  Junta(Junta(s, t), u) = Junta(s, Junta(t, u))
<1>1. (s \o t) \o u = s \o (t \o u)
  BY ConcatAssociative
<1> QED
  BY <1>1 DEF Junta

\* What begins alike ends alike.
LEMMA Cancelar ==
  ASSUME NEW S, NEW s \in Seq(S), NEW t \in Seq(S), NEW u \in Seq(S),
         Junta(s, t) = Junta(s, u)
  PROVE  t = u
<1>1. \A x, y, z \in Seq(S) : Junta(x, y) = Junta(x, z) => y = z
  BY ConcatSimplifications, Zenon DEF Junta
<1> QED
  BY <1>1

\* The empty sequence adds nothing.
LEMMA Vacias ==
  ASSUME NEW S, NEW s \in Seq(S), NEW t \in Seq(S)
  PROVE  /\ Junta(s, <<>>) = s /\ Junta(<<>>, s) = s
         /\ Junta(s, t) = <<>> <=> s = <<>> /\ t = <<>>
         /\ <<>> \in Seq(S)
         /\ Len(s) = 0 <=> s = <<>>
<1>1. s \o <<>> = s /\ <<>> \o s = s
  BY ConcatEmptySeq
<1>2. s \o t = <<>> <=> s = <<>> /\ t = <<>>
  BY ConcatEqualIffEmpty
<1>3. <<>> \in Seq(S) /\ (Len(s) = 0 <=> s = <<>>)
  BY EmptySeq
<1> QED
  BY <1>1, <1>2, <1>3 DEF Junta

\* A sequence is its first elements and the others.
LEMMA Partir ==
  ASSUME NEW S, NEW s \in Seq(S), NEW k \in 0..Len(s)
  PROVE  /\ Primeros(s, k) \in Seq(S) /\ Len(Primeros(s, k)) = k
         /\ Demas(s, k) \in Seq(S) /\ Len(Demas(s, k)) = Len(s) - k
         /\ Junta(Primeros(s, k), Demas(s, k)) = s
<1>1. Len(s) \in Nat /\ \A i \in 1..Len(s) : s[i] \in S
  BY LenProperties, ElementOfSeq
<1>2. /\ SubSeq(s, 1, k) \in Seq(S)
      /\ Len(SubSeq(s, 1, k)) = IF 1 <= k THEN k - 1 + 1 ELSE 0
  <2>1. \A i \in 1..k : s[i] \in S
    BY <1>1
  <2>2. 1 \in Int /\ k \in Int
    OBVIOUS
  <2> QED
    BY <2>1, <2>2, SubSeqProperties
<1>3. /\ SubSeq(s, k + 1, Len(s)) \in Seq(S)
      /\ Len(SubSeq(s, k + 1, Len(s))) =
           IF k + 1 <= Len(s) THEN Len(s) - (k + 1) + 1 ELSE 0
  <2>1. \A i \in k + 1..Len(s) : s[i] \in S
    BY <1>1
  <2>2. k + 1 \in Int /\ Len(s) \in Int
    BY <1>1
  <2> QED
    BY <2>1, <2>2, SubSeqProperties
<1>4. SubSeq(s, 1, k) \o SubSeq(s, k + 1, Len(s)) = SubSeq(s, 1, Len(s))
  <2>1. 1 \in 1..Len(s) + 1 /\ k \in 1 - 1..Len(s) /\ Len(s) \in k..Len(s)
    BY <1>1
  <2> QED
    BY <2>1, ConcatAdjacentSubSeq
<1>5. SubSeq(s, 1, Len(s)) = s
  BY SubSeqFull
<1>6. Len(SubSeq(s, 1, k)) = k /\ Len(SubSeq(s, k + 1, Len(s))) = Len(s) - k
  BY <1>1, <1>2, <1>3
<1> QED
  BY <1>2, <1>3, <1>4, <1>5, <1>6 DEF Junta, Primeros, Demas

\* A delivery changes nothing of what is still to be read.
LEMMA Llegar ==
  ASSUME NEW S, NEW s \in Seq(S), NEW t \in Seq(S), NEW k \in 1..Len(t)
  PROVE  /\ Junta(s, Primeros(t, k)) \in Seq(S) /\ Demas(t, k) \in Seq(S)
         /\ Junta(Junta(s, Primeros(t, k)), Demas(t, k)) = Junta(s, t)
         /\ k = Len(t) => Demas(t, k) = <<>>
<1>1. Len(t) \in Nat /\ k \in 0..Len(t)
  BY LenProperties
<1>2. /\ Primeros(t, k) \in Seq(S) /\ Demas(t, k) \in Seq(S)
      /\ Junta(Primeros(t, k), Demas(t, k)) = t /\ Len(Demas(t, k)) = Len(t) - k
  BY <1>1, Partir
<1>3. Junta(s, Primeros(t, k)) \in Seq(S)
  BY <1>2, Juntar
<1>4. Junta(Junta(s, Primeros(t, k)), Demas(t, k)) =
        Junta(s, Junta(Primeros(t, k), Demas(t, k)))
  BY <1>2, Asociar
<1>5. k = Len(t) => Demas(t, k) = <<>>
  BY <1>1, <1>2, Vacias
<1> QED
  BY <1>2, <1>3, <1>4, <1>5

\* A recv() of what was sent first takes that, and leaves what was sent after.
LEMMA Recibir ==
  ASSUME NEW S, NEW s \in Seq(S), NEW t \in Seq(S), NEW a \in Seq(S), NEW b \in Seq(S),
         Junta(s, t) = Junta(a, b), NEW n, n = Len(a), n <= Len(s)
  PROVE  /\ Primeros(s, n) = a
         /\ Demas(s, n) \in Seq(S) /\ Junta(Demas(s, n), t) = b
         /\ \A i \in 1..n : s[i] = a[i]
<1> DEFINE p == Primeros(s, n)
           resto == Demas(s, n)
<1>1. Len(s) \in Nat /\ Len(a) \in 0..Len(s)
  BY LenProperties
<1>2. p \in Seq(S) /\ Len(p) = Len(a) /\ resto \in Seq(S) /\ Junta(p, resto) = s
  BY <1>1, Partir
<1> HIDE DEF p, resto
<1>3. \A i \in 1..Len(a) : s[i] = a[i]
  <2>1. \A i \in 1..Len(s) : Junta(s, t)[i] = s[i]
    BY Juntar
  <2>2. \A i \in 1..Len(a) : Junta(a, b)[i] = a[i]
    BY Juntar
  <2>3. \A i \in 1..Len(a) : i \in 1..Len(s)
    BY <1>1
  <2> QED
    BY <2>1, <2>2, <2>3
<1>4. p = a
  <2>1. \A i \in 1..Len(p) : p[i] = a[i]
    <3>1. \A i \in 1..Len(p) : Junta(p, resto)[i] = p[i]
      BY <1>2, Juntar
    <3> QED
      BY <1>2, <1>3, <3>1
  <2> QED
    BY <1>2, <2>1, SeqEqual
<1>5. Junta(a, Junta(resto, t)) = Junta(a, b)
  <2>1. Junta(Junta(a, resto), t) = Junta(a, Junta(resto, t))
    BY <1>2, Asociar
  <2> QED
    BY <1>2, <1>4, <2>1
<1>6. Junta(resto, t) \in Seq(S)
  BY <1>2, Juntar
<1>7. Junta(resto, t) = b
  BY <1>5, <1>6, Cancelar
<1> QED
  BY <1>2, <1>3, <1>4, <1>7 DEF p, resto

\* The same, of one byte.
LEMMA RecibirUno ==
  ASSUME NEW S, NEW s \in Seq(S), NEW t \in Seq(S), NEW a \in Seq(S), NEW b \in Seq(S),
         Junta(s, t) = Junta(a, b)
  PROVE  Len(a) = 1 /\ Len(s) >= 1 =>
            Demas(s, 1) \in Seq(S) /\ Junta(Demas(s, 1), t) = b /\ s[1] = a[1]
<1>1. ASSUME NEW n, n = Len(a), n <= Len(s)
      PROVE  /\ Demas(s, n) \in Seq(S) /\ Junta(Demas(s, n), t) = b
             /\ \A i \in 1..n : s[i] = a[i]
  BY <1>1, Recibir
<1>2. \A n : n = Len(a) /\ n <= Len(s) =>
        /\ Demas(s, n) \in Seq(S) /\ Junta(Demas(s, n), t) = b
        /\ \A i \in 1..n : s[i] = a[i]
  BY <1>1
<1>3. ASSUME Len(a) = 1, Len(s) >= 1
      PROVE  Demas(s, 1) \in Seq(S) /\ Junta(Demas(s, 1), t) = b /\ s[1] = a[1]
  <2>1. 1 = Len(a) /\ 1 <= Len(s)
    BY <1>3
  <2>2. /\ Demas(s, 1) \in Seq(S) /\ Junta(Demas(s, 1), t) = b
        /\ \A i \in 1..1 : s[i] = a[i]
    BY ONLY <1>2, <2>1, Zenon
  <2> QED
    BY <2>2
<1> QED
  BY <1>3

\* And of four.
LEMMA RecibirCuatro ==
  ASSUME NEW S, NEW s \in Seq(S), NEW t \in Seq(S), NEW a \in Seq(S), NEW b \in Seq(S),
         Junta(s, t) = Junta(a, b)
  PROVE  Len(a) = 4 /\ Len(s) >= 4 =>
            /\ Demas(s, 4) \in Seq(S) /\ Junta(Demas(s, 4), t) = b
            /\ s[1] = a[1] /\ s[2] = a[2] /\ s[3] = a[3] /\ s[4] = a[4]
<1>1. ASSUME NEW n, n = Len(a), n <= Len(s)
      PROVE  /\ Demas(s, n) \in Seq(S) /\ Junta(Demas(s, n), t) = b
             /\ \A i \in 1..n : s[i] = a[i]
  BY <1>1, Recibir
<1>2. \A n : n = Len(a) /\ n <= Len(s) =>
        /\ Demas(s, n) \in Seq(S) /\ Junta(Demas(s, n), t) = b
        /\ \A i \in 1..n : s[i] = a[i]
  BY <1>1
<1>3. ASSUME Len(a) = 4, Len(s) >= 4
      PROVE  /\ Demas(s, 4) \in Seq(S) /\ Junta(Demas(s, 4), t) = b
             /\ s[1] = a[1] /\ s[2] = a[2] /\ s[3] = a[3] /\ s[4] = a[4]
  <2>1. 4 = Len(a) /\ 4 <= Len(s)
    BY <1>3
  <2>2. /\ Demas(s, 4) \in Seq(S) /\ Junta(Demas(s, 4), t) = b
        /\ \A i \in 1..4 : s[i] = a[i]
    BY ONLY <1>2, <2>1, Zenon
  <2> QED
    BY <2>2
<1> QED
  BY <1>3

\* The same, of all that was sent.
LEMMA RecibirTodo ==
  ASSUME NEW S, NEW s \in Seq(S), NEW t \in Seq(S), NEW n, n <= Len(s),
         Junta(s, t) \in Seq(S), n = Len(Junta(s, t))
  PROVE  Primeros(s, n) = Junta(s, t) /\ Demas(s, n) = <<>> /\ t = <<>>
<1>1. Len(s) \in Nat /\ Len(t) \in Nat /\ Len(Junta(s, t)) = Len(s) + Len(t)
  BY Juntar
<1>2. n = Len(s) /\ Len(t) = 0
  BY <1>1
<1>3. t = <<>> /\ Junta(s, t) = s
  BY <1>2, Vacias
<1>4. /\ Primeros(s, n) \in Seq(S) /\ Demas(s, n) \in Seq(S)
      /\ Len(Demas(s, n)) = 0 /\ Junta(Primeros(s, n), Demas(s, n)) = s
  BY <1>1, <1>2, Partir
<1>5. Demas(s, n) = <<>>
  BY <1>4, Vacias
<1>6. Primeros(s, n) = s
  BY <1>4, <1>5, Vacias
<1> QED
  BY <1>3, <1>5, <1>6

\* What was sent last is at the end.
LEMMA Finales ==
  ASSUME NEW S, NEW s \in Seq(S), NEW t \in Seq(S)
  PROVE  t \in Suffixes(Junta(s, t)) /\ \A e \in Suffixes(s) : e \in Seq(S)
<1>1. ASSUME t # <<>>
      PROVE  t \in Suffixes(Junta(s, t))
  <2>1. /\ Len(s) \in Nat /\ Len(t) \in Nat /\ Len(Junta(s, t)) = Len(s) + Len(t)
        /\ Junta(s, t) \in Seq(S)
    BY Juntar
  <2>2. Len(t) # 0
    BY <1>1, Vacias, EmptySeq
  <2> DEFINE n == Len(s)
             st == Junta(s, t)
  <2>3. Junta(st, <<>>) = Junta(s, t) /\ <<>> \in Seq(S)
    BY <2>1, Vacias
  <2>4. Junta(Demas(st, n), <<>>) = t /\ Demas(st, n) \in Seq(S)
    <3>1. st \in Seq(S) /\ n = Len(s) /\ n <= Len(st) /\ Junta(st, <<>>) = Junta(s, t)
      BY <2>1, <2>3
    <3> HIDE DEF st, n
    <3>2. ASSUME NEW m, m = Len(s), m <= Len(st),
                 NEW e \in Seq(S), Junta(st, e) = Junta(s, t)
          PROVE  Demas(st, m) \in Seq(S) /\ Junta(Demas(st, m), e) = t
      BY <3>1, <3>2, Recibir
    <3> QED
      BY <2>3, <3>1, <3>2
  <2>5. Demas(st, n) = t
    BY <2>4, Vacias
  <2>6. n + 1 \in 1..Len(st)
    BY <2>1, <2>2
  <2> QED
    BY <2>5, <2>6 DEF Suffixes, Demas
<1>2. t = <<>> => t \in Suffixes(Junta(s, t))
  BY DEF Suffixes
<1>3. ASSUME NEW e \in Suffixes(s)
      PROVE  e \in Seq(S)
  <2>1. CASE e = <<>>
    BY <2>1, Vacias
  <2>2. CASE e # <<>>
    <3>1. PICK l \in 1..Len(s) : e = SubSeq(s, l, Len(s))
      BY <1>3, <2>2 DEF Suffixes
    <3>2. \A i \in l..Len(s) : s[i] \in S
      BY <3>1, LenProperties, ElementOfSeq
    <3> QED
      BY <3>1, <3>2, SubSeqProperties
  <2> QED
    BY <2>1, <2>2
<1> QED
  BY <1>1, <1>2, <1>3

\* Also of what follows one or two others, or none.
LEMMA Colgar ==
  ASSUME NEW S, NEW s \in Seq(S), NEW t \in Seq(S), NEW u \in Seq(S)
  PROVE  /\ u \in Suffixes(u)
         /\ Junta(t, u) \in Seq(S) /\ u \in Suffixes(Junta(t, u))
         /\ Junta(s, Junta(t, u)) \in Seq(S) /\ u \in Suffixes(Junta(s, Junta(t, u)))
<1>1. <<>> \in Seq(S) /\ Junta(<<>>, u) = u
  BY Vacias
<1>2. u \in Suffixes(Junta(<<>>, u))
  BY <1>1, Finales
<1>3. Junta(t, u) \in Seq(S) /\ Junta(s, t) \in Seq(S)
  BY Juntar
<1>4. Junta(s, Junta(t, u)) \in Seq(S)
  BY <1>3, Juntar
<1>5. Junta(Junta(s, t), u) = Junta(s, Junta(t, u))
  BY Asociar
<1>6. u \in Suffixes(Junta(t, u)) /\ u \in Suffixes(Junta(Junta(s, t), u))
  BY <1>3, Finales
<1> QED
  BY <1>1, <1>2, <1>3, <1>4, <1>5, <1>6

-----------------------------------------------------------------------------
(* What is sent                                                            *)

\* The operations; those that are answered, with a buffer or with a byte.
LEMMA Operaciones ==
  /\ Ops = {"PROCESS_CREATION", "THREAD_CREATION", "THREAD_KILL",
            "GET_EXECUTION_CONTEXT", "UPDATE_CONTEXT", "GET_INSTRUCTION", "DISPATCH"}
  /\ DOMAIN Contesta \subseteq Ops /\ ContestaByte \subseteq Ops
  /\ DOMAIN Contesta \cap ContestaByte = {}
  /\ \A o \in Ops : Codigo[o] \in 0..255
  /\ \A o, p \in Ops : Codigo[o] = Codigo[p] => o = p
  BY DEF Ops, Codigo, Contesta, ContestaByte

\* The three bytes nobody wrote, or those left of them.
LEMMA Rellenos ==
  /\ Relleno(0) = <<>>
  /\ Relleno(3) = <<BASURA, BASURA, BASURA>>
  /\ \A n \in Nat : Relleno(n) \in Seq(Octetos) /\ Len(Relleno(n)) = n
  BY DEF Relleno, Octetos

\* Reading one of them leaves the others.
LEMMA Saltado ==
  ASSUME NEW s \in Seq(Octetos), NEW t \in Seq(Octetos), NEW u \in Seq(Octetos),
         NEW n \in Nat \ {0}, Junta(s, t) = Junta(Relleno(n), u), Len(s) >= 1
  PROVE  /\ s[1] = BASURA
         /\ Junta(Demas(s, 1), t) = Junta(Relleno(n - 1), u)
<1> DEFINE a == Relleno(1)
           b == Relleno(n - 1)
<1>1. /\ a \in Seq(Octetos) /\ Len(a) = 1 /\ b \in Seq(Octetos) /\ Len(b) = n - 1
      /\ Relleno(n) \in Seq(Octetos) /\ Len(Relleno(n)) = n
      /\ n - 1 \in Nat
  <2>1. 1 \in Nat /\ n - 1 \in Nat
    OBVIOUS
  <2> QED
    BY <2>1, Rellenos
<1>2. /\ \A i \in 1..n : Relleno(n)[i] = BASURA
      /\ a[1] = BASURA /\ \A i \in 1..n - 1 : b[i] = BASURA
  BY DEF Relleno
<1> HIDE DEF a, b
<1>3. Relleno(n) = Junta(a, b)
  <2>1. /\ a \o b \in Seq(Octetos) /\ Len(a \o b) = Len(a) + Len(b)
        /\ \A i \in 1..Len(a) + Len(b) :
              (a \o b)[i] = IF i <= Len(a) THEN a[i] ELSE b[i - Len(a)]
    BY <1>1, ConcatProperties
  <2>2. Len(a \o b) = n /\ \A i \in 1..n : (a \o b)[i] = BASURA
    <3>1. Len(a) + Len(b) = n
      BY <1>1
    <3>2. ASSUME NEW i \in 1..n PROVE (a \o b)[i] = BASURA
      <4>1. CASE i = 1
        BY <1>1, <1>2, <2>1, <3>1, <4>1
      <4>2. CASE i # 1
        <5>1. i - 1 \in 1..n - 1 /\ ~(i <= 1)
          BY <4>2
        <5> QED
          BY <1>1, <1>2, <2>1, <3>1, <5>1
      <4> QED
        BY <4>1, <4>2
    <3> QED
      BY <2>1, <3>1, <3>2
  <2> DEFINE ab == a \o b
  <2>3. ab \in Seq(Octetos) /\ Len(Relleno(n)) = Len(ab)
        /\ \A i \in 1..Len(Relleno(n)) : Relleno(n)[i] = ab[i]
    BY <1>1, <1>2, <2>1, <2>2
  <2> HIDE DEF ab
  <2>4. Relleno(n) = ab
    BY <1>1, <2>3, SeqEqual
  <2> QED
    BY <2>4 DEF ab, Junta
<1>4. Junta(s, t) = Junta(a, Junta(b, u))
  BY <1>1, <1>3, Asociar
<1>5. Junta(b, u) \in Seq(Octetos)
  BY <1>1, Juntar
<1>6. Junta(Demas(s, 1), t) = Junta(b, u) /\ s[1] = a[1]
  BY <1>1, <1>4, <1>5, RecibirUno
<1> QED
  BY <1>1, <1>2, <1>6 DEF b

\* A word is read from its four bytes.
LEMMA Leida ==
  ASSUME NEW v, EnUint32(v), NEW s,
         s[1] = buffer_add_uint32(v)[1], s[2] = buffer_add_uint32(v)[2],
         s[3] = buffer_add_uint32(v)[3], s[4] = buffer_add_uint32(v)[4]
  PROVE  buffer_read_uint32(s) = v
<1>1. buffer_read_uint32(s) = buffer_read_uint32(buffer_add_uint32(v))
  BY DEF buffer_read_uint32
<1> QED
  BY <1>1, IdaYVuelta DEF EnUint32

\* A packet: its operation, its size, what its fields fill, and three bytes more.
LEMMA Enviado ==
  ASSUME NEW con \in DOMAIN Llamadas, NEW c \in Llamadas[con]
  PROVE  /\ c.op \in Ops /\ c = [op |-> c.op, datos |-> c.datos] /\ c # Ninguna
         /\ EnUint32(Tamano(c)) /\ Tamano(c) \in Nat
         /\ Len(Serializar(Paquete[c.op].campos, c.datos)) = Tamano(c)
         /\ Cuerpo(c) \in Seq(0..255) /\ Len(Cuerpo(c)) = Tamano(c)
         /\ Deserializar(Lee[c.op], Cuerpo(c), 0) = c.datos
<1>1. /\ c = [op |-> c.op, datos |-> c.datos] /\ c.op \in Ops
      /\ EsMensaje(Paquete[c.op].campos, c.datos) /\ EnUint32(Tamano(c))
  BY ProtocoloAssumption
<1>2. /\ Serializar(Paquete[c.op].campos, c.datos) \in Seq(0..255)
      /\ Len(Serializar(Paquete[c.op].campos, c.datos)) = Tamano(c)
      /\ Cuerpo(c) = Serializar(Paquete[c.op].campos, c.datos)
      /\ Deserializar(Lee[c.op], Serializar(Paquete[c.op].campos, c.datos), 0) = c.datos
  BY <1>1, Paquetes DEF Cuerpo
<1>3. c # Ninguna
  BY <1>1, Operaciones DEF Ninguna
<1>4. Tamano(c) \in Nat
  BY <1>1 DEF EnUint32
<1> QED
  BY <1>1, <1>2, <1>3, <1>4

\* The same, in the order it is read.
LEMMA EnPartes ==
  ASSUME NEW con \in DOMAIN Llamadas, NEW c \in Llamadas[con]
  PROVE  LET k == <<Codigo[c.op]>>
             w == buffer_add_uint32(Tamano(c))
             resto == Junta(Cuerpo(c), Relleno(3))
         IN  /\ enviar_paquete(c) = Junta(k, Junta(w, resto))
             /\ k \in Seq(Octetos) /\ Len(k) = 1 /\ k[1] = Codigo[c.op]
             /\ w \in Seq(Octetos) /\ Len(w) = 4
             /\ Cuerpo(c) \in Seq(Octetos) /\ Relleno(3) \in Seq(Octetos)
             /\ resto \in Seq(Octetos) /\ Len(resto) = Tamano(c) + 3
             /\ Junta(w, resto) \in Seq(Octetos) /\ Len(Junta(w, resto)) = Tamano(c) + 7
             /\ enviar_paquete(c) \in Seq(Octetos) /\ Len(enviar_paquete(c)) = Tamano(c) + 8
             /\ enviar_paquete(c)[1] = Codigo[c.op]
<1> DEFINE k == <<Codigo[c.op]>>
           w == buffer_add_uint32(Tamano(c))
           C == Cuerpo(c)
           R == Relleno(3)
<1>1. /\ c.op \in Ops /\ EnUint32(Tamano(c)) /\ Tamano(c) \in Nat
      /\ C \in Seq(0..255) /\ Len(C) = Tamano(c)
  BY Enviado
<1>2. k \in Seq(Octetos) /\ Len(k) = 1 /\ k[1] = Codigo[c.op]
  <2>1. Codigo[c.op] \in Octetos
    BY <1>1, Operaciones DEF Octetos
  <2> QED
    BY <2>1
<1>3. w \in Seq(Octetos) /\ Len(w) = 4
  BY <1>1, CuatroBytes, SeqMonotonic DEF Octetos
<1>4. C \in Seq(Octetos)
  BY <1>1, SeqMonotonic DEF Octetos
<1>5. R \in Seq(Octetos) /\ Len(R) = 3 /\ R = <<BASURA, BASURA, BASURA>>
  BY Rellenos
<1>6. enviar_paquete(c) = Junta(Junta(Junta(k, w), C), R)
  BY <1>5 DEF enviar_paquete, Cuerpo, Junta
<1> HIDE DEF k, w, C, R
<1>7. /\ Junta(k, w) \in Seq(Octetos) /\ Junta(C, R) \in Seq(Octetos)
      /\ Len(Junta(C, R)) = Tamano(c) + 3
  <2>1. Junta(k, w) \in Seq(Octetos)
    BY <1>2, <1>3, Juntar
  <2>2. Junta(C, R) \in Seq(Octetos) /\ Len(Junta(C, R)) = Len(C) + Len(R)
    BY <1>4, <1>5, Juntar
  <2>3. Len(C) + Len(R) = Tamano(c) + 3
    BY <1>1, <1>5
  <2> QED
    BY <2>1, <2>2, <2>3
<1>8. Junta(w, Junta(C, R)) \in Seq(Octetos) /\ Len(Junta(w, Junta(C, R))) = Tamano(c) + 7
  <2>1. /\ Junta(w, Junta(C, R)) \in Seq(Octetos)
        /\ Len(Junta(w, Junta(C, R))) = Len(w) + Len(Junta(C, R))
    BY <1>3, <1>7, Juntar
  <2>2. Len(w) + Len(Junta(C, R)) = Tamano(c) + 7
    BY <1>1, <1>3, <1>7
  <2> QED
    BY <2>1, <2>2
<1>9. Junta(Junta(Junta(k, w), C), R) = Junta(k, Junta(w, Junta(C, R)))
  <2>1. Junta(Junta(Junta(k, w), C), R) = Junta(Junta(k, w), Junta(C, R))
    <3> DEFINE x == Junta(k, w)
    <3>1. x \in Seq(Octetos) /\ R \in Seq(Octetos)
      BY <1>5, <1>7
    <3> HIDE DEF x
    <3>2. Junta(Junta(x, C), R) = Junta(x, Junta(C, R))
      BY <1>4, <3>1, Asociar
    <3> QED
      BY <3>2 DEF x
  <2>2. Junta(Junta(k, w), Junta(C, R)) = Junta(k, Junta(w, Junta(C, R)))
    BY <1>2, <1>3, <1>7, Asociar
  <2> QED
    BY <2>1, <2>2
<1>10. /\ Junta(k, Junta(w, Junta(C, R))) \in Seq(Octetos)
       /\ Len(Junta(k, Junta(w, Junta(C, R)))) = Tamano(c) + 8
       /\ Junta(k, Junta(w, Junta(C, R)))[1] = k[1]
  <2> DEFINE m == Junta(w, Junta(C, R))
  <2>1. m \in Seq(Octetos) /\ Len(m) = Tamano(c) + 7
    BY <1>8
  <2> HIDE DEF m
  <2>2. /\ Junta(k, m) \in Seq(Octetos) /\ Len(Junta(k, m)) = Len(k) + Len(m)
        /\ \A i \in 1..Len(k) : Junta(k, m)[i] = k[i]
    BY <1>2, <2>1, Juntar
  <2>3. Len(Junta(k, m)) = Tamano(c) + 8 /\ Junta(k, m)[1] = k[1]
    BY <1>1, <1>2, <2>1, <2>2
  <2> QED
    BY <2>2, <2>3 DEF m
<1> QED
  BY <1>1, <1>2, <1>3, <1>4, <1>5, <1>6, <1>7, <1>8, <1>9, <1>10 DEF k, w, C, R

\* An answer: its size, its offset, which is 0, and what its fields fill.
LEMMA Contestado ==
  ASSUME NEW o \in DOMAIN Contesta, NEW r \in Respuestas[o]
  PROVE  LET n == TamanoRespuesta(o, r)
             w == buffer_add_uint32(n)
             z == buffer_add_uint32(0)
             C == CuerpoRespuesta(o, r)
         IN  /\ EnUint32(n) /\ n \in Nat
             /\ Len(Serializar(Contesta[o], r)) = n
             /\ C \in Seq(0..255) /\ Len(C) = n /\ Deserializar(Contesta[o], C, 0) = r
             /\ w \in Seq(0..255) /\ Len(w) = 4
             /\ z \in Seq(0..255) /\ Len(z) = 4 /\ EnUint32(0)
             /\ Junta(z, C) \in Seq(0..255) /\ Len(Junta(z, C)) = n + 4
             /\ enviar_buffer(o, r) = Junta(w, Junta(z, C))
             /\ enviar_buffer(o, r) \in Seq(0..255)
             /\ Len(enviar_buffer(o, r)) = n + 8
<1> DEFINE n == TamanoRespuesta(o, r)
           w == buffer_add_uint32(n)
           z == buffer_add_uint32(0)
           C == CuerpoRespuesta(o, r)
<1>1. EsMensaje(Contesta[o], r) /\ EnUint32(n)
  BY ProtocoloAssumption
<1>2. /\ Len(Serializar(Contesta[o], r)) = n
      /\ C \in Seq(0..255) /\ Len(C) = n /\ Deserializar(Contesta[o], C, 0) = r
  BY <1>1, Contestaciones DEF CuerpoRespuesta
<1>3. n \in Nat /\ EnUint32(0)
  BY <1>1 DEF EnUint32
<1>4. w \in Seq(0..255) /\ Len(w) = 4 /\ z \in Seq(0..255) /\ Len(z) = 4
  BY <1>1, <1>3, CuatroBytes
<1>5. enviar_buffer(o, r) = Junta(Junta(w, z), C)
  BY DEF enviar_buffer, CuerpoRespuesta, Junta
<1> HIDE DEF w, z, C, n
<1>6. Junta(z, C) \in Seq(0..255) /\ Len(Junta(z, C)) = n + 4
  <2>1. Junta(z, C) \in Seq(0..255) /\ Len(Junta(z, C)) = Len(z) + Len(C)
    BY <1>2, <1>4, Juntar, ZenonT(60)
  <2>2. Len(z) + Len(C) = n + 4
    BY <1>2, <1>3, <1>4
  <2> QED
    BY <2>1, <2>2
<1>7. /\ Junta(w, Junta(z, C)) \in Seq(0..255)
      /\ Len(Junta(w, Junta(z, C))) = n + 8
  <2>1. /\ Junta(w, Junta(z, C)) \in Seq(0..255)
        /\ Len(Junta(w, Junta(z, C))) = Len(w) + Len(Junta(z, C))
    BY <1>4, <1>6, Juntar, ZenonT(60)
  <2>2. Len(w) + Len(Junta(z, C)) = n + 8
    BY <1>3, <1>4, <1>6
  <2> QED
    BY <2>1, <2>2
<1>8. Junta(Junta(w, z), C) = Junta(w, Junta(z, C))
  BY <1>2, <1>4, Asociar
<1> QED
  BY <1>1, <1>2, <1>3, <1>4, <1>5, <1>6, <1>7, <1>8 DEF w, z, C, n

-----------------------------------------------------------------------------
(* The inductive invariant                                                 *)

\* What the caller has still to read comes from the handler of this call: the
\* rest of its answer, and what it sent after.
LEMMA HayRespuesta ==
  ASSUME IInv, en_cli # <<>> \/ Contestada
  PROVE  /\ Contestada /\ atendida # Ninguna /\ llamada # Ninguna /\ op = llamada.op
         /\ contestado \in Respuestas[op] /\ motivos \in Nat
         /\ srv \in {"op", "dispatch", "cerrada"}
         /\ vuelta \in Seq(0..255) /\ en_cli \in Seq(0..255)
         /\ \E siguen \in Seq(0..255) :
              LET resto == Junta(en_cli, vuelta)
                  w     == buffer_add_uint32(TamanoRespuesta(op, contestado))
                  z     == buffer_add_uint32(0)
                  D     == Junta(CuerpoRespuesta(op, contestado), siguen)
              IN  /\ motivos < 2 => siguen = <<>>
                  /\ cli = "libre" => resto = siguen
                  /\ cli = "byte" => resto = <<contestado>>
                  /\ cli = "size" => resto = Junta(w, Junta(z, D))
                  /\ cli \in {"offset", "stream"} => size = TamanoRespuesta(op, contestado)
                  /\ cli = "offset" => resto = Junta(z, D)
                  /\ cli = "stream" => offset = 0 /\ resto = D
<1> USE DEF IInv
<1>1. vuelta \in Seq(0..255) /\ en_cli \in Seq(0..255) /\ motivos \in Nat
  BY ProtocoloAssumption DEF TypeOK
<1>2. Contestada
  BY DEF Vuelta
<1>3. atendida # Ninguna
  BY <1>2 DEF Contestada
<1>4. srv \in {"op", "dispatch", "cerrada"}
  BY <1>3 DEF Ida, SinAtender, TypeOK
<1>5. PICK siguen \in Suffixes(Junta(en_cli, vuelta)) : Resto(siguen)
  BY <1>2 DEF Vuelta, Junta
<1>6. siguen \in Seq(0..255)
  BY <1>1, <1>5, Juntar, Finales
<1>7. /\ llamada # Ninguna /\ op = llamada.op /\ contestado \in Respuestas[op]
  BY <1>2, <1>3 DEF PorTurnos
<1> QED
  BY <1>1, <1>2, <1>3, <1>4, <1>5, <1>6, <1>7 DEF Resto, Junta

\* There is as much of it as the caller will ask for.
LEMMA Quedan ==
  ASSUME IInv, Contestada
  PROVE  /\ Len(Junta(en_cli, vuelta)) \in Nat /\ Falta \in Nat
         /\ Len(Junta(en_cli, vuelta)) >= Falta
<1>1. /\ op = llamada.op /\ contestado \in Respuestas[op] /\ llamada # Ninguna
      /\ vuelta \in Seq(0..255) /\ en_cli \in Seq(0..255)
  BY HayRespuesta
<1> DEFINE resto == Junta(en_cli, vuelta)
           n == TamanoRespuesta(op, contestado)
           w == buffer_add_uint32(n)
           z == buffer_add_uint32(0)
           C == CuerpoRespuesta(op, contestado)
<1>2. PICK siguen \in Seq(0..255) :
        /\ cli = "byte" => resto = <<contestado>>
        /\ cli = "size" => resto = Junta(w, Junta(z, Junta(C, siguen)))
        /\ cli \in {"offset", "stream"} => size = n
        /\ cli = "offset" => resto = Junta(z, Junta(C, siguen))
        /\ cli = "stream" => resto = Junta(C, siguen)
  BY HayRespuesta
<1>3. Len(resto) \in Nat
  BY <1>1, Juntar
<1>4. CASE cli \in {"size", "offset", "stream"}
  <2>1. op \in DOMAIN Contesta
    BY <1>1, <1>4 DEF IInv, PorTurnos
  <2>2. /\ n \in Nat /\ w \in Seq(0..255) /\ Len(w) = 4 /\ z \in Seq(0..255) /\ Len(z) = 4
        /\ C \in Seq(0..255) /\ Len(C) = n
    BY <1>1, <2>1, Contestado
  <2> HIDE DEF n, w, z, C, resto
  <2> DEFINE D == Junta(C, siguen)
  <2>3. D \in Seq(0..255) /\ Len(D) = n + Len(siguen) /\ Len(siguen) \in Nat
    BY <2>2, Juntar
  <2> HIDE DEF D
  <2>4. Junta(z, D) \in Seq(0..255) /\ Len(Junta(z, D)) = 4 + Len(D)
    <3>1. Junta(z, D) \in Seq(0..255) /\ Len(Junta(z, D)) = Len(z) + Len(D)
      BY <2>2, <2>3, Juntar
    <3> QED
      BY <2>2, <3>1
  <2>5. Len(Junta(w, Junta(z, D))) = 8 + Len(D)
    <3>1. Len(Junta(w, Junta(z, D))) = Len(w) + Len(Junta(z, D))
      BY <2>2, <2>4, Juntar
    <3> QED
      BY <2>2, <2>3, <2>4, <3>1
  <2>6. CASE cli = "size"
    <3>1. resto = Junta(w, Junta(z, D)) /\ Falta = 8 + n
      BY <1>2, <2>6 DEF Falta, D, n
    <3> QED
      BY <1>3, <2>2, <2>3, <2>5, <3>1 DEF resto
  <2>7. CASE cli = "offset"
    <3>1. resto = Junta(z, D) /\ Falta = 4 + n
      BY <1>2, <2>7 DEF Falta, D
    <3> QED
      BY <1>3, <2>2, <2>3, <2>4, <3>1 DEF resto
  <2>8. CASE cli = "stream"
    <3>1. resto = D /\ Falta = n
      BY <1>2, <2>8 DEF Falta, D
    <3> QED
      BY <1>3, <2>2, <2>3, <3>1 DEF resto
  <2> QED
    BY <1>4, <2>6, <2>7, <2>8
<1>5. CASE cli = "byte"
  <2>1. resto = <<contestado>> /\ Falta = 1
    BY <1>2, <1>5 DEF Falta
  <2> QED
    BY <1>3, <2>1
<1>6. CASE cli = "libre"
  BY <1>3, <1>6 DEF Falta
<1> QED
  BY <1>4, <1>5, <1>6 DEF IInv, TypeOK

\* Nothing is on its way when the connection is made.
LEMMA Inicial == Init => IInv
<1> SUFFICES ASSUME Init PROVE IInv
  OBVIOUS
<1> USE DEF Init
<1>1. <<>> \o <<>> = <<>> /\ Relleno(0) = <<>> /\ 0 \in 0..3
  BY Rellenos
<1>2. TypeOK
  BY ProtocoloAssumption DEF TypeOK
<1>3. PorTurnos
  BY DEF PorTurnos, SinAtender, Contestada
<1>4. Ida
  BY <1>1 DEF Ida, SinAtender
<1>5. Vuelta
  BY <1>1 DEF Vuelta, Resto, Contestada
<1>6. Enteros /\ CortoSoloSiParte
  BY DEF Enteros, Falta, CortoSoloSiParte
<1> QED
  BY <1>2, <1>3, <1>4, <1>5, <1>6 DEF IInv

\* What is delivered is still to be read.
LEMMA PasoLlegaIda == IInv /\ LlegaIda => IInv'
<1> SUFFICES ASSUME IInv, LlegaIda PROVE IInv'
  OBVIOUS
<1> USE DEF IInv
<1>1. PICK k \in 1..Len(ida) :
        /\ en_srv' = en_srv \o SubSeq(ida, 1, k)
        /\ ida' = SubSeq(ida, k + 1, Len(ida))
        /\ IF k = Len(ida) THEN UNCHANGED cortes
           ELSE cortes < MaxCortes /\ cortes' = cortes + 1
  BY DEF LlegaIda
<1>2. /\ fallo = "no"
      /\ UNCHANGED <<conexion, vuelta, en_cli, srv, cli, op, size, offset, llamada,
                     atendida, contestado, motivos, entendido, hechas, fallo>>
  BY DEF LlegaIda
<1>3. ida \in Seq(Octetos) /\ en_srv \in Seq(Octetos)
  BY DEF TypeOK
<1>4. /\ en_srv' \in Seq(Octetos) /\ ida' \in Seq(Octetos)
      /\ en_srv' \o ida' = en_srv \o ida
      /\ k = Len(ida) => ida' = <<>>
  <2>1. en_srv' = Junta(en_srv, Primeros(ida, k)) /\ ida' = Demas(ida, k)
    BY <1>1 DEF Junta, Primeros, Demas
  <2>2. /\ en_srv' \in Seq(Octetos) /\ ida' \in Seq(Octetos)
        /\ Junta(en_srv', ida') = Junta(en_srv, ida)
        /\ k = Len(ida) => ida' = <<>>
    BY <1>3, <2>1, Llegar
  <2> QED
    BY <2>2 DEF Junta
<1>5. cortes' \in 0..MaxCortes /\ (cortes' = 0 => cortes = 0 /\ ida' = <<>>)
  <2>1. cortes \in 0..MaxCortes /\ MaxCortes \in Nat
    BY ProtocoloAssumption DEF TypeOK
  <2>2. CASE k = Len(ida)
    BY <1>1, <1>4, <2>1, <2>2
  <2>3. CASE k # Len(ida)
    <3>1. cortes < MaxCortes /\ cortes' = cortes + 1
      BY <1>1, <2>3
    <3> QED
      BY <2>1, <3>1
  <2> QED
    BY <2>2, <2>3
<1>6. TypeOK'
  BY <1>2, <1>4, <1>5 DEF TypeOK
<1>7. PorTurnos'
  BY <1>2 DEF PorTurnos, SinAtender, Contestada
<1>8. Ida'
  BY <1>2, <1>4 DEF Ida, SinAtender
<1>9. Vuelta'
  BY <1>2 DEF Vuelta, Resto, Contestada
<1>10. Enteros' /\ CortoSoloSiParte'
  BY <1>2, <1>5 DEF Enteros, Falta, CortoSoloSiParte
<1> QED
  BY <1>6, <1>7, <1>8, <1>9, <1>10

\* Nor does a delivery the other way change what is still to be read.
LEMMA PasoLlegaVuelta == IInv /\ LlegaVuelta => IInv'
<1> SUFFICES ASSUME IInv, LlegaVuelta PROVE IInv'
  OBVIOUS
<1> USE DEF IInv
<1>1. PICK k \in 1..Len(vuelta) :
        /\ en_cli' = en_cli \o SubSeq(vuelta, 1, k)
        /\ vuelta' = SubSeq(vuelta, k + 1, Len(vuelta))
        /\ IF k = Len(vuelta) THEN UNCHANGED cortes
           ELSE cortes < MaxCortes /\ cortes' = cortes + 1
  BY DEF LlegaVuelta
<1>2. /\ fallo = "no"
      /\ UNCHANGED <<conexion, ida, en_srv, srv, cli, op, size, offset, llamada,
                     atendida, contestado, motivos, entendido, hechas, fallo>>
  BY DEF LlegaVuelta
<1>3. vuelta \in Seq(0..255) /\ en_cli \in Seq(0..255)
  BY DEF TypeOK
<1>4. /\ en_cli' \in Seq(0..255) /\ vuelta' \in Seq(0..255)
      /\ en_cli' \o vuelta' = en_cli \o vuelta
      /\ k = Len(vuelta) => vuelta' = <<>>
  <2>1. en_cli' = Junta(en_cli, Primeros(vuelta, k)) /\ vuelta' = Demas(vuelta, k)
    BY <1>1 DEF Junta, Primeros, Demas
  <2>2. /\ en_cli' \in Seq(0..255) /\ vuelta' \in Seq(0..255)
        /\ Junta(en_cli', vuelta') = Junta(en_cli, vuelta)
        /\ k = Len(vuelta) => vuelta' = <<>>
    BY <1>3, <2>1, Llegar
  <2> QED
    BY <2>2 DEF Junta
<1>5. cortes' \in 0..MaxCortes /\ (cortes' = 0 => cortes = 0 /\ vuelta' = <<>>)
  <2>1. cortes \in 0..MaxCortes /\ MaxCortes \in Nat
    BY ProtocoloAssumption DEF TypeOK
  <2>2. CASE k = Len(vuelta)
    BY <1>1, <1>4, <2>1, <2>2
  <2>3. CASE k # Len(vuelta)
    <3>1. cortes < MaxCortes /\ cortes' = cortes + 1
      BY <1>1, <2>3
    <3> QED
      BY <2>1, <3>1
  <2> QED
    BY <2>2, <2>3
<1>6. TypeOK'
  BY <1>2, <1>4, <1>5 DEF TypeOK
<1>7. PorTurnos'
  BY <1>2 DEF PorTurnos, SinAtender, Contestada
<1>8. Ida'
  BY <1>2 DEF Ida, SinAtender
<1>9. Vuelta'
  <2>1. Contestada' = Contestada
    BY <1>2 DEF Contestada
  <2>2. CASE Contestada
    <3>1. PICK siguen \in Suffixes(en_cli \o vuelta) : Resto(siguen)
      BY <2>2 DEF Vuelta
    <3>2. Resto(siguen)' /\ siguen \in Suffixes(en_cli' \o vuelta')
      BY <1>2, <1>4, <3>1, Zenon DEF Resto
    <3> QED
      BY <2>1, <2>2, <3>2, Zenon DEF Vuelta
  <2>3. CASE ~Contestada
    <3>1. vuelta = <<>>
      BY <2>3 DEF Vuelta
    <3>2. Len(vuelta) = 0
      BY <3>1
    <3> QED
      BY <1>1, <3>2
  <2> QED
    BY <2>2, <2>3
<1>10. Enteros' /\ CortoSoloSiParte'
  <2>1. ASSUME cortes' = 0, en_cli' # <<>>
        PROVE  Len(en_cli') >= Falta
    <3>1. Junta(en_cli', <<>>) = Junta(en_cli, vuelta)
      BY <1>4, <1>5, <2>1 DEF Junta
    <3>2. en_cli' = Junta(en_cli, vuelta)
      BY <1>4, <3>1, Vacias
    <3>3. Contestada
      <4> SUFFICES ASSUME ~Contestada PROVE FALSE
        OBVIOUS
      <4>1. en_cli = <<>> /\ vuelta = <<>>
        BY DEF Vuelta
      <4> QED
        BY <1>3, <2>1, <3>2, <4>1, Vacias
    <3> QED
      BY <3>2, <3>3, Quedan
  <2>2. Falta' = Falta
    BY <1>2 DEF Falta
  <2> QED
    BY <1>2, <1>5, <2>1, <2>2 DEF Enteros, CortoSoloSiParte, SinAtender
<1> QED
  BY <1>6, <1>7, <1>8, <1>9, <1>10

\* A call is made when nothing is left of the one before but the three bytes,
\* or on a connection of its own.
LEMMA PasoLlamar == IInv /\ Llamar => IInv'
<1> SUFFICES ASSUME IInv, Llamar PROVE IInv'
  OBVIOUS
<1> USE DEF IInv
<1>1. PICK c \in Llamadas[conexion] :
        /\ llamada' = c
        /\ cli' = Espera(c.op)
        /\ IF srv = "cerrada"
           THEN ida' = enviar_paquete(c) /\ en_srv' = <<>> /\ srv' = "op"
           ELSE ida' = ida \o enviar_paquete(c) /\ UNCHANGED <<en_srv, srv>>
  BY DEF Llamar
<1>2. /\ fallo = "no" /\ cli = "libre" /\ hechas < MaxLlamadas
      /\ conexion = "kernel_memoria" /\ hechas > 0 => srv = "cerrada"
      /\ hechas' = hechas + 1 /\ atendida' = Ninguna
      /\ conexion = "kernel_cpu" => hechas = 0
      /\ UNCHANGED <<conexion, vuelta, en_cli, op, size, offset, contestado,
                     motivos, entendido, cortes, fallo>>
  BY DEF Llamar
<1>3. /\ conexion \in DOMAIN Llamadas /\ ida \in Seq(Octetos) /\ en_srv \in Seq(Octetos)
      /\ en_cli \in Seq(0..255) /\ vuelta \in Seq(0..255)
  BY DEF TypeOK
<1>4. c.op \in Ops /\ c # Ninguna
  BY <1>3, Enviado
<1>5. enviar_paquete(c) \in Seq(Octetos)
  BY <1>3, EnPartes
<1>6. conexion # "kernel_memoria" => ~SinAtender
  BY <1>2, <1>3, ProtocoloAssumption DEF PorTurnos, SinAtender, Contestada
<1>6a. motivos = 0 /\ srv # "dispatch"
  <2>1. CASE conexion = "kernel_cpu"
    <3>1. atendida = Ninguna
      BY <1>2, <2>1 DEF PorTurnos
    <3> QED
      BY <3>1, ProtocoloAssumption DEF PorTurnos, TypeOK
  <2>2. CASE conexion # "kernel_cpu"
    BY <2>2, ProtocoloAssumption DEF PorTurnos, TypeOK
  <2> QED
    BY <2>1, <2>2
<1>7. srv # "cerrada" => srv = "op" /\ ~SinAtender
  <2> SUFFICES ASSUME srv # "cerrada" PROVE srv = "op" /\ ~SinAtender
    OBVIOUS
  <2>1. ~SinAtender
    BY <1>2, <1>6 DEF PorTurnos, SinAtender, Contestada, TypeOK
  <2> QED
    BY <1>6a, <2>1 DEF Ida, TypeOK
<1>8. srv # "cerrada" /\ cortes = 0 => ida = <<>>
  BY <1>7 DEF Enteros
<1>9. /\ srv' = "op" /\ ida' \in Seq(Octetos) /\ en_srv' \in Seq(Octetos)
      /\ \E n \in 0..3 : Junta(en_srv', ida') = Junta(Relleno(n), enviar_paquete(c))
      /\ cortes = 0 => ida' = enviar_paquete(c)
  <2>1. CASE srv = "cerrada"
    <3>1. srv' = "op" /\ ida' = enviar_paquete(c) /\ en_srv' = <<>> /\ 0 \in 0..3
      BY <1>1, <2>1
    <3>2. /\ Junta(<<>>, enviar_paquete(c)) = Junta(Relleno(0), enviar_paquete(c))
          /\ <<>> \in Seq(Octetos)
      BY <1>5, Rellenos, Vacias
    <3>3. Junta(en_srv', ida') = Junta(Relleno(0), enviar_paquete(c))
      BY <3>1, <3>2
    <3> QED
      BY <1>5, <3>1, <3>2, <3>3
  <2>2. CASE srv # "cerrada"
    <3>1. PICK n \in 0..3 : Junta(en_srv, ida) = Relleno(n)
      BY <1>7, <2>2 DEF Ida, Junta
    <3>2. ida' = Junta(ida, enviar_paquete(c)) /\ UNCHANGED <<en_srv, srv>>
      BY <1>1, <2>2 DEF Junta
    <3>3. Junta(Junta(en_srv, ida), enviar_paquete(c)) =
            Junta(en_srv, Junta(ida, enviar_paquete(c)))
      BY <1>3, <1>5, Asociar
    <3>4. Junta(ida, enviar_paquete(c)) \in Seq(Octetos)
      BY <1>3, <1>5, Juntar
    <3>5. ida = <<>> => Junta(ida, enviar_paquete(c)) = enviar_paquete(c)
      BY <1>5, Vacias
    <3>6. Junta(en_srv', ida') = Junta(Relleno(n), enviar_paquete(c))
      BY <3>1, <3>2, <3>3
    <3> QED
      BY <1>3, <1>7, <1>8, <2>2, <3>2, <3>4, <3>5, <3>6
  <2> QED
    BY <2>1, <2>2
<1>10. en_cli = <<>> /\ vuelta = <<>>
  <2> SUFFICES ASSUME Contestada PROVE en_cli = <<>> /\ vuelta = <<>>
    BY DEF Vuelta
  <2>2. Junta(en_cli, vuelta) = <<>>
    BY <1>6a, <1>2, HayRespuesta
  <2> QED
    BY <1>3, <2>2, Vacias
<1>11. TypeOK'
  BY <1>1, <1>2, <1>9, ProtocoloAssumption DEF TypeOK, Espera
<1>12. PorTurnos'
  <2>1. hechas' > 0 /\ llamada' = c /\ llamada' # Ninguna /\ atendida' = Ninguna
    BY <1>1, <1>2, <1>4 DEF TypeOK
  <2>2. /\ cli' = "byte" => c.op \in ContestaByte
        /\ cli' = "size" => c.op \in DOMAIN Contesta
        /\ cli' = "libre" => c.op \notin DOMAIN Contesta \cup ContestaByte
        /\ cli' \in {"size", "byte", "libre"}
    BY <1>1 DEF Espera
  <2> QED
    BY <1>6a, <1>2, <1>9, <2>1, <2>2 DEF PorTurnos, SinAtender, Contestada
<1>13. Ida'
  BY <1>1, <1>2, <1>4, <1>9 DEF Ida, SinAtender, Junta
<1>14. Vuelta'
  BY <1>2, <1>10 DEF Vuelta, Contestada
<1>15. Enteros' /\ CortoSoloSiParte'
  BY <1>1, <1>2, <1>4, <1>9, <1>10 DEF Enteros, Falta, CortoSoloSiParte, SinAtender
<1> QED
  BY <1>11, <1>12, <1>13, <1>14, <1>15

\* What an operation is taken for is the one that was called: the server is at
\* the first byte of a packet, or at one nobody wrote, which is none.
LEMMA PasoRecvOp == IInv /\ RecvOp => IInv'
<1> SUFFICES ASSUME IInv, RecvOp PROVE IInv'
  OBVIOUS
<1> USE DEF IInv
<1>1. PICK o \in Ops :
        /\ RecvSrv("op", "size", 1)
        /\ Codigo[o] = Head(en_srv)
        /\ op' = o
        /\ UNCHANGED <<vuelta, size, atendida, contestado>>
  BY DEF RecvOp
<1>2. /\ fallo = "no" /\ srv = "op" /\ srv' = "size" /\ Len(en_srv) >= 1
      /\ en_srv' = Demas(en_srv, 1)
      /\ UNCHANGED <<conexion, ida, en_cli, cli, offset, llamada, motivos, entendido,
                     hechas, cortes, fallo, vuelta, size, atendida, contestado>>
  BY <1>1 DEF RecvSrv, Demas
<1>3. /\ conexion \in DOMAIN Llamadas /\ ida \in Seq(Octetos) /\ en_srv \in Seq(Octetos)
      /\ en_cli \in Seq(0..255) /\ vuelta \in Seq(0..255)
  BY DEF TypeOK
<1>4. en_srv[1] \in 0..255 /\ en_srv[1] = Codigo[o] /\ en_srv[1] # BASURA
  <2>1. en_srv[1] = Head(en_srv)
    BY <1>2, <1>3
  <2>2. Codigo[o] \in 0..255
    BY Operaciones
  <2> QED
    BY <1>1, <2>1, <2>2 DEF BASURA
<1>5. SinAtender
  <2> SUFFICES ASSUME ~SinAtender PROVE FALSE
    OBVIOUS
  <2>1. PICK n \in 0..3 : Junta(en_srv, ida) = Relleno(n)
    BY <1>2 DEF Ida, Junta
  <2>2. Relleno(n) \in Seq(Octetos) /\ <<>> \in Seq(Octetos)
        /\ Junta(Relleno(n), <<>>) = Relleno(n)
    BY Rellenos, Vacias, SMTT(20)
  <2>3. CASE n = 0
    BY <1>2, <1>3, <2>1, <2>3, Rellenos, Vacias
  <2>4. CASE n # 0
    <3>1. n \in Nat \ {0} /\ Junta(en_srv, ida) = Junta(Relleno(n), <<>>)
      BY <2>1, <2>2, <2>4
    <3> QED
      BY <1>2, <1>3, <1>4, <2>2, <3>1, Saltado
  <2> QED
    BY <2>3, <2>4
<1>6. llamada # Ninguna /\ llamada \in Llamadas[conexion] /\ atendida = Ninguna
  BY <1>5 DEF SinAtender, PorTurnos
<1> DEFINE E == enviar_paquete(llamada)
           k == <<Codigo[llamada.op]>>
           w == buffer_add_uint32(Tamano(llamada))
           resto == Junta(Cuerpo(llamada), Relleno(3))
<1>7. /\ E = Junta(k, Junta(w, resto)) /\ k \in Seq(Octetos) /\ Len(k) = 1
      /\ k[1] = Codigo[llamada.op] /\ Junta(w, resto) \in Seq(Octetos)
      /\ E \in Seq(Octetos) /\ Len(E) \in Nat \ {0} /\ llamada.op \in Ops
  <2>1. /\ E = Junta(k, Junta(w, resto)) /\ k \in Seq(Octetos) /\ Len(k) = 1
        /\ k[1] = Codigo[llamada.op] /\ Junta(w, resto) \in Seq(Octetos)
        /\ E \in Seq(Octetos) /\ Len(E) = Tamano(llamada) + 8
    BY <1>3, <1>6, EnPartes
  <2>2. Tamano(llamada) \in Nat /\ llamada.op \in Ops
    BY <1>3, <1>6, Enviado
  <2> HIDE DEF E, k, w, resto
  <2> QED
    BY <2>1, <2>2
<1> HIDE DEF E, k, w, resto
<1>8. Junta(en_srv, ida) = E
  <2>1. PICK n \in 0..3 : Junta(en_srv, ida) = Junta(Relleno(n), E)
    BY <1>2, <1>5 DEF Ida, Junta, E
  <2>2. n = 0
    BY <1>2, <1>3, <1>4, <1>7, <2>1, Saltado
  <2>3. Junta(Relleno(0), E) = E
    BY <1>7, Rellenos, Vacias
  <2> QED
    BY <2>1, <2>2, <2>3
<1>9. /\ Junta(Demas(en_srv, 1), ida) = Junta(w, resto)
      /\ Demas(en_srv, 1) \in Seq(Octetos)
      /\ en_srv[1] = k[1]
  BY <1>2, <1>3, <1>7, <1>8, RecibirUno
<1>10. /\ en_srv' \in Seq(Octetos) /\ Junta(en_srv', ida) = Junta(w, resto)
       /\ o = llamada.op
  BY <1>1, <1>2, <1>4, <1>7, <1>9, Operaciones
<1>11. cortes = 0 => ida = <<>>
  <2> SUFFICES ASSUME cortes = 0, ida # <<>> PROVE FALSE
    OBVIOUS
  <2>1. ida = E
    BY DEF Enteros, E
  <2>2. Len(Junta(en_srv, ida)) = Len(en_srv) + Len(ida) /\ Len(en_srv) \in Nat
    BY <1>3, Juntar
  <2> QED
    BY <1>2, <1>7, <1>8, <2>1, <2>2
<1>12. TypeOK'
  BY <1>1, <1>2, <1>10 DEF TypeOK
<1>13. PorTurnos'
  BY <1>2, <1>6 DEF PorTurnos, SinAtender, Contestada
<1>14. Ida'
  <2>1. op' = llamada'.op /\ SinAtender'
    BY <1>1, <1>2, <1>5, <1>10 DEF SinAtender
  <2>2. en_srv' \o ida' =
          buffer_add_uint32(Tamano(llamada')) \o (Cuerpo(llamada') \o Relleno(3))
    BY <1>2, <1>10 DEF Junta, w, resto
  <2> QED
    BY <1>2, <2>1, <2>2 DEF Ida
<1>15. Vuelta'
  BY <1>2, <1>6 DEF Vuelta, Resto, Contestada
<1>16. Enteros' /\ CortoSoloSiParte'
  <2>1. en_cli = <<>>
    BY <1>6 DEF Vuelta, Contestada
  <2> QED
    BY <1>2, <1>11, <2>1 DEF Enteros, CortoSoloSiParte
<1> QED
  BY <1>12, <1>13, <1>14, <1>15, <1>16

\* A byte nobody wrote is passed over.
LEMMA PasoSaltarByte == IInv /\ SaltarByte => IInv'
<1> SUFFICES ASSUME IInv, SaltarByte PROVE IInv'
  OBVIOUS
<1> USE DEF IInv
<1>1. /\ fallo = "no" /\ srv = "op" /\ srv' = "op" /\ Len(en_srv) >= 1
      /\ Head(en_srv) = BASURA /\ en_srv # <<>>
      /\ en_srv' = Demas(en_srv, 1)
      /\ UNCHANGED <<conexion, ida, en_cli, cli, offset, llamada, motivos, entendido,
                     hechas, cortes, fallo, vuelta, op, size, atendida, contestado>>
  BY DEF SaltarByte, RecvSrv, Demas
<1>2. /\ conexion \in DOMAIN Llamadas /\ ida \in Seq(Octetos) /\ en_srv \in Seq(Octetos)
  BY DEF TypeOK
<1>3. en_srv[1] = BASURA /\ en_srv' \in Seq(Octetos)
  <2>1. en_srv[1] = Head(en_srv) /\ 1 \in 0..Len(en_srv)
    BY <1>1, <1>2
  <2> QED
    BY <1>1, <1>2, <2>1, Partir
<1>4. SinAtender => Ida'
  <2> SUFFICES ASSUME SinAtender PROVE Ida'
    OBVIOUS
  <2> DEFINE E == enviar_paquete(llamada)
  <2>1. llamada \in Llamadas[conexion]
    BY DEF SinAtender, PorTurnos
  <2>2. E \in Seq(Octetos) /\ E[1] = Codigo[llamada.op] /\ llamada.op \in Ops
    BY <1>2, <2>1, EnPartes, Enviado
  <2> HIDE DEF E
  <2>3. PICK n \in 0..3 : Junta(en_srv, ida) = Junta(Relleno(n), E)
    BY <1>1 DEF Ida, Junta, E
  <2>4. n # 0
    <3> SUFFICES ASSUME n = 0 PROVE FALSE
      OBVIOUS
    <3>1. Junta(en_srv, ida) = E
      BY <2>2, <2>3, Rellenos, Vacias
    <3>2. /\ Len(en_srv) \in Nat
          /\ \A i \in 1..Len(en_srv) : Junta(en_srv, ida)[i] = en_srv[i]
      BY <1>2, Juntar
    <3>3. E[1] = BASURA
      BY <1>1, <1>3, <3>1, <3>2
    <3>4. Codigo[llamada.op] \in 0..255
      BY <2>2, Operaciones
    <3> QED
      BY <2>2, <3>3, <3>4 DEF BASURA
  <2>5. n - 1 \in 0..3 /\ Junta(en_srv', ida) = Junta(Relleno(n - 1), E)
    BY <1>1, <1>2, <2>2, <2>3, <2>4, Saltado
  <2>6. SinAtender' /\ \E m \in 0..3 : en_srv' \o ida' = Relleno(m) \o enviar_paquete(llamada')
    BY <1>1, <2>5 DEF Junta, E, SinAtender
  <2> QED
    BY <1>1, <2>6 DEF Ida
<1>5. ~SinAtender => Ida'
  <2> SUFFICES ASSUME ~SinAtender PROVE Ida'
    OBVIOUS
  <2>1. PICK n \in 0..3 : Junta(en_srv, ida) = Relleno(n)
    BY <1>1 DEF Ida, Junta
  <2>2. /\ Relleno(n) = Junta(Relleno(n), <<>>) /\ <<>> \in Seq(Octetos)
        /\ Relleno(n) \in Seq(Octetos)
    BY Rellenos, Vacias, SMTT(20)
  <2>3. n # 0
    BY <1>1, <1>2, <2>1, Rellenos, Vacias
  <2>4. n \in Nat \ {0} /\ Junta(en_srv, ida) = Junta(Relleno(n), <<>>)
    BY <2>1, <2>2, <2>3
  <2>5. Junta(en_srv', ida) = Junta(Relleno(n - 1), <<>>)
    BY <1>1, <1>2, <2>2, <2>4, Saltado, ZenonT(60)
  <2>6. n - 1 \in 0..3 /\ Junta(en_srv', ida) = Relleno(n - 1)
    <3>1. n - 1 \in Nat /\ n - 1 \in 0..3
      BY <2>3
    <3>2. Relleno(n - 1) \in Seq(Octetos)
      BY <3>1, Rellenos
    <3> QED
      BY <2>5, <3>1, <3>2, Vacias
  <2>7. ~SinAtender' /\ \E m \in 0..3 : en_srv' \o ida' = Relleno(m)
    BY <1>1, <2>6 DEF Junta, SinAtender
  <2> QED
    BY <1>1, <2>7 DEF Ida
<1>6. TypeOK'
  BY <1>1, <1>3 DEF TypeOK
<1>7. PorTurnos'
  BY <1>1 DEF PorTurnos, SinAtender, Contestada
<1>8. Vuelta' /\ Enteros' /\ CortoSoloSiParte'
  BY <1>1 DEF Vuelta, Resto, Contestada, Enteros, Falta, CortoSoloSiParte, SinAtender
<1> QED
  BY <1>4, <1>5, <1>6, <1>7, <1>8

\* The size of the packet in course.
LEMMA PasoRecvSize == IInv /\ RecvSize => IInv'
<1> SUFFICES ASSUME IInv, RecvSize PROVE IInv'
  OBVIOUS
<1> USE DEF IInv
<1>1. /\ fallo = "no" /\ srv = "size" /\ srv' = "stream" /\ Len(en_srv) >= 4
      /\ en_srv' = Demas(en_srv, 4) /\ size' = buffer_read_uint32(en_srv)
      /\ UNCHANGED <<conexion, ida, en_cli, cli, offset, llamada, motivos, entendido,
                     hechas, cortes, fallo, vuelta, op, atendida, contestado>>
  BY DEF RecvSize, RecvSrv, Demas
<1>2. conexion \in DOMAIN Llamadas /\ ida \in Seq(Octetos) /\ en_srv \in Seq(Octetos)
  BY DEF TypeOK
<1>3. SinAtender /\ op = llamada.op
  BY <1>1 DEF Ida
<1>4. llamada \in Llamadas[conexion] /\ atendida = Ninguna
  BY <1>3 DEF SinAtender, PorTurnos
<1> DEFINE w == buffer_add_uint32(Tamano(llamada))
           resto == Junta(Cuerpo(llamada), Relleno(3))
<1>5. /\ w \in Seq(Octetos) /\ Len(w) = 4 /\ resto \in Seq(Octetos)
      /\ EnUint32(Tamano(llamada)) /\ Tamano(llamada) \in Nat
  BY <1>2, <1>4, EnPartes, Enviado
<1>6. Junta(en_srv, ida) = Junta(w, resto)
  BY <1>1 DEF Ida, Junta
<1> HIDE DEF w, resto
<1>7. /\ en_srv' \in Seq(Octetos) /\ Junta(en_srv', ida) = resto
      /\ en_srv[1] = w[1] /\ en_srv[2] = w[2] /\ en_srv[3] = w[3] /\ en_srv[4] = w[4]
  <2>1. Len(en_srv) >= 4 /\ en_srv' = Demas(en_srv, 4)
    BY <1>1
  <2>2. /\ Demas(en_srv, 4) \in Seq(Octetos) /\ Junta(Demas(en_srv, 4), ida) = resto
        /\ en_srv[1] = w[1] /\ en_srv[2] = w[2] /\ en_srv[3] = w[3] /\ en_srv[4] = w[4]
    BY <1>2, <1>5, <1>6, <2>1, RecibirCuatro
  <2> QED
    BY <2>1, <2>2
<1>8. size' = Tamano(llamada)
  BY <1>1, <1>5, <1>7, Leida DEF w
<1>9. TypeOK'
  BY <1>1, <1>5, <1>7, <1>8 DEF TypeOK
<1>10. PorTurnos'
  BY <1>1 DEF PorTurnos, SinAtender, Contestada
<1>11. Ida'
  <2>1. SinAtender' /\ op' = llamada'.op /\ size' = Tamano(llamada')
    BY <1>1, <1>3, <1>8 DEF SinAtender
  <2>2. en_srv' \o ida' = Cuerpo(llamada') \o Relleno(3)
    BY <1>1, <1>7 DEF Junta, resto
  <2> QED
    BY <1>1, <2>1, <2>2 DEF Ida
<1>12. Vuelta'
  BY <1>1, <1>4 DEF Vuelta, Resto, Contestada
<1>13. Enteros' /\ CortoSoloSiParte'
  <2>1. en_cli = <<>>
    BY <1>4 DEF Vuelta, Contestada
  <2> QED
    BY <1>1, <2>1 DEF Enteros, CortoSoloSiParte
<1> QED
  BY <1>9, <1>10, <1>11, <1>12, <1>13

\* The handler takes the call for what it was, and answers it, but for the one of
\* DISPATCH, which answers nothing yet.
LEMMA PasoRecvStream == IInv /\ RecvStream => IInv'
<1> SUFFICES ASSUME IInv, RecvStream PROVE IInv'
  OBVIOUS
<1> USE DEF IInv
<1>1. /\ fallo = "no" /\ srv = "stream" /\ Len(en_srv) >= size
      /\ srv' = Sigue
      /\ en_srv' = Demas(en_srv, size)
      /\ atendida' = [op |-> op, datos |-> Deserializar(Lee[op], Primeros(en_srv, size), 0)]
      /\ UNCHANGED <<conexion, ida, en_cli, cli, offset, llamada, motivos, entendido,
                     hechas, cortes, fallo, op, size>>
  BY DEF RecvStream, RecvSrv, Leido, Demas, Primeros
<1>2. IF op = "DISPATCH" THEN UNCHANGED <<vuelta, contestado>>
      ELSE \E r \in Respuestas[op] :
             /\ contestado' = r
             /\ vuelta' = IF op \in DOMAIN Contesta THEN enviar_buffer(op, r)
                          ELSE IF op \in ContestaByte THEN <<r>> ELSE <<>>
  BY DEF RecvStream
<1>3. /\ conexion \in DOMAIN Llamadas /\ ida \in Seq(Octetos) /\ en_srv \in Seq(Octetos)
      /\ en_cli \in Seq(0..255) /\ vuelta \in Seq(0..255)
  BY DEF TypeOK
<1>4. SinAtender /\ op = llamada.op /\ size = Tamano(llamada)
  BY <1>1 DEF Ida
<1>5. llamada # Ninguna /\ llamada \in Llamadas[conexion] /\ atendida = Ninguna
  BY <1>4 DEF SinAtender, PorTurnos
<1> DEFINE C == Cuerpo(llamada)
           R == Relleno(3)
<1>6. /\ C \in Seq(Octetos) /\ R \in Seq(Octetos) /\ Len(C) = size
      /\ op \in Ops /\ llamada = [op |-> llamada.op, datos |-> llamada.datos]
      /\ Deserializar(Lee[llamada.op], C, 0) = llamada.datos
  <2>1. C \in Seq(Octetos) /\ R \in Seq(Octetos)
    BY <1>3, <1>5, EnPartes
  <2>2. /\ Len(C) = Tamano(llamada) /\ llamada.op \in Ops
        /\ llamada = [op |-> llamada.op, datos |-> llamada.datos]
        /\ Deserializar(Lee[llamada.op], C, 0) = llamada.datos
    BY <1>3, <1>5, Enviado
  <2> QED
    BY <1>4, <2>1, <2>2
<1>7. Junta(en_srv, ida) = Junta(C, R)
  BY <1>1 DEF Ida, Junta
<1> HIDE DEF C, R
<1>8. /\ Primeros(en_srv, size) = C
      /\ en_srv' \in Seq(Octetos) /\ Junta(en_srv', ida) = R
  BY <1>1, <1>3, <1>6, <1>7, Recibir
<1>9. atendida' = llamada /\ atendida' # Ninguna
  BY <1>1, <1>4, <1>5, <1>6, <1>8
<1>10. en_cli = <<>> /\ vuelta = <<>> /\ motivos = 0
  BY <1>5, ProtocoloAssumption DEF Vuelta, Contestada, PorTurnos, TypeOK
<1>11. op = "DISPATCH" <=> conexion = "kernel_cpu"
  BY <1>3, <1>4, <1>5, ProtocoloAssumption
<1>12. /\ cli = "byte" => op \in ContestaByte
       /\ cli \in {"size", "offset", "stream"} => op \in DOMAIN Contesta
       /\ cli \notin {"offset", "stream"}
       /\ cli = "libre" => op \notin DOMAIN Contesta \cup ContestaByte
  BY <1>4, <1>5 DEF PorTurnos, Contestada
<1>13. /\ srv' \in {"op", "dispatch", "cerrada"}
       /\ srv' = "cerrada" <=> conexion = "kernel_memoria"
       /\ srv' = "dispatch" <=> conexion = "kernel_cpu"
  BY <1>1, <1>11 DEF Sigue
<1>14. Ida'
  <2>1. ~SinAtender' /\ 3 \in 0..3
    BY <1>9 DEF SinAtender
  <2>2. en_srv' \o ida' = Relleno(3)
    BY <1>1, <1>8 DEF Junta, R
  <2> QED
    BY <1>1, <1>9, <1>13, <2>1, <2>2 DEF Ida
<1>15. CASE op = "DISPATCH"
  <2>1. ~Contestada' /\ UNCHANGED <<vuelta, contestado>>
    BY <1>1, <1>2, <1>10, <1>11, <1>15 DEF Contestada
  <2>2. TypeOK'
    BY <1>1, <1>3, <1>8, <1>13, <2>1 DEF TypeOK
  <2>3. PorTurnos'
    BY <1>1, <1>4, <1>5, <1>9, <1>10, <1>11, <1>12, <1>13, <1>15, <2>1
    DEF PorTurnos, SinAtender
  <2>4. Vuelta'
    BY <1>1, <1>10, <2>1 DEF Vuelta
  <2>5. Enteros' /\ CortoSoloSiParte'
    BY <1>1, <1>10 DEF Enteros, CortoSoloSiParte
  <2> QED
    BY <1>14, <2>2, <2>3, <2>4, <2>5
<1>16. CASE op # "DISPATCH"
  <2>1. PICK r \in Respuestas[op] :
          /\ contestado' = r
          /\ vuelta' = IF op \in DOMAIN Contesta THEN enviar_buffer(op, r)
                       ELSE IF op \in ContestaByte THEN <<r>> ELSE <<>>
    BY <1>2, <1>16
  <2>2. Contestada'
    BY <1>1, <1>9, <1>11, <1>16 DEF Contestada
  <2>3. vuelta' \in Seq(0..255)
    <3>1. CASE op \in DOMAIN Contesta
      <4>1. enviar_buffer(op, r) \in Seq(0..255)
        BY <3>1, Contestado
      <4> QED
        BY <2>1, <3>1, <4>1
    <3>2. CASE op \notin DOMAIN Contesta /\ op \in ContestaByte
      <4>1. r \in 0..255
        BY <3>2, ProtocoloAssumption
      <4>2. vuelta' = <<r>>
        BY <2>1, <3>2
      <4> QED
        BY <4>1, <4>2
    <3>3. CASE op \notin DOMAIN Contesta /\ op \notin ContestaByte
      <4>1. vuelta' = <<>>
        BY <2>1, <3>3
      <4> QED
        BY <4>1, Vacias
    <3> QED
      BY <3>1, <3>2, <3>3
  <2>4. TypeOK'
    BY <1>1, <1>3, <1>8, <1>13, <2>3 DEF TypeOK
  <2>5. PorTurnos'
    BY <1>1, <1>4, <1>5, <1>9, <1>10, <1>11, <1>12, <1>13, <1>16, <2>1, <2>2
    DEF PorTurnos, SinAtender
  <2>6. Vuelta'
    <3> DEFINE n == TamanoRespuesta(op, r)
               w == buffer_add_uint32(n)
               z == buffer_add_uint32(0)
               D == CuerpoRespuesta(op, r)
    <3>1. Junta(en_cli', vuelta') = vuelta' /\ <<>> \in Suffixes(Junta(en_cli', vuelta'))
      BY <1>1, <1>10, <2>3, Vacias, Finales DEF Suffixes
    <3>2. cli' = "libre" => vuelta' = <<>>
      BY <1>1, <1>12, <2>1
    <3>3. cli' = "byte" => vuelta' = <<r>>
      BY <1>1, <1>12, <2>1, Operaciones
    <3>4. cli' = "size" => vuelta' = Junta(w, Junta(z, Junta(D, <<>>)))
      <4> SUFFICES ASSUME cli' = "size" PROVE vuelta' = Junta(w, Junta(z, Junta(D, <<>>)))
        OBVIOUS
      <4>1. op \in DOMAIN Contesta
        BY <1>1, <1>12
      <4>2. /\ D \in Seq(0..255) /\ enviar_buffer(op, r) = Junta(w, Junta(z, D))
        BY <4>1, Contestado
      <4>3. Junta(D, <<>>) = D
        BY <4>2, Vacias
      <4> QED
        BY <2>1, <4>1, <4>2, <4>3
    <3>5. cli' \notin {"offset", "stream"}
      BY <1>1, <1>12
    <3>6. Resto(<<>>)'
      BY <1>1, <2>1, <3>1, <3>2, <3>3, <3>4, <3>5 DEF Resto, Junta
    <3> QED
      BY <2>2, <3>1, <3>6 DEF Vuelta, Junta
  <2>7. Enteros' /\ CortoSoloSiParte'
    BY <1>1, <1>10 DEF Enteros, CortoSoloSiParte
  <2> QED
    BY <1>14, <2>4, <2>5, <2>6, <2>7
<1> QED
  BY <1>15, <1>16

\* What is sent after an answer follows it, whatever is left of the answer.
LEMMA Seguir ==
  ASSUME NEW S, NEW w \in Seq(S), NEW z \in Seq(S), NEW C \in Seq(S),
         NEW t \in Seq(S), NEW B \in Seq(S)
  PROVE  \E u \in Seq(S) :
           /\ u = Junta(t, B)
           /\ u \in Suffixes(u)
           /\ Junta(Junta(C, t), B) = Junta(C, u)
           /\ u \in Suffixes(Junta(C, u))
           /\ Junta(Junta(z, Junta(C, t)), B) = Junta(z, Junta(C, u))
           /\ u \in Suffixes(Junta(z, Junta(C, u)))
           /\ Junta(Junta(w, Junta(z, Junta(C, t))), B) = Junta(w, Junta(z, Junta(C, u)))
           /\ u \in Suffixes(Junta(w, Junta(z, Junta(C, u))))
<1>1. PICK u \in Seq(S) : u = Junta(t, B)
  BY Juntar
<1>2. Junta(C, t) \in Seq(S) /\ Junta(C, u) \in Seq(S)
  BY Juntar
<1>3. Junta(z, Junta(C, t)) \in Seq(S)
  BY <1>2, Juntar
<1>4. Junta(Junta(C, t), B) = Junta(C, u)
  BY <1>1, Asociar
<1>5. Junta(Junta(z, Junta(C, t)), B) = Junta(z, Junta(C, u))
  <2>1. Junta(Junta(z, Junta(C, t)), B) = Junta(z, Junta(Junta(C, t), B))
    BY <1>2, Asociar
  <2> QED
    BY <1>4, <2>1
<1>6. Junta(Junta(w, Junta(z, Junta(C, t))), B) = Junta(w, Junta(z, Junta(C, u)))
  <2>1. Junta(Junta(w, Junta(z, Junta(C, t))), B) = Junta(w, Junta(Junta(z, Junta(C, t)), B))
    BY <1>3, Asociar
  <2> QED
    BY <1>5, <2>1
<1>7. /\ u \in Suffixes(u) /\ u \in Suffixes(Junta(C, u))
      /\ u \in Suffixes(Junta(z, Junta(C, u)))
  BY Colgar
<1>8. Junta(z, C) \in Seq(S) /\ Junta(z, Junta(C, u)) = Junta(Junta(z, C), u)
  BY Juntar, Asociar
<1>9. u \in Suffixes(Junta(w, Junta(z, Junta(C, u))))
  BY <1>8, Colgar
<1> QED
  BY <1>1, <1>4, <1>5, <1>6, <1>7, <1>9

\* A motivo is sent when none was, and is the answer, or follows those sent.
LEMMA PasoEnviarMotivo == IInv /\ EnviarMotivo => IInv'
<1> SUFFICES ASSUME IInv, EnviarMotivo PROVE IInv'
  OBVIOUS
<1> USE DEF IInv
<1>1. /\ fallo = "no" /\ srv = "dispatch" /\ motivos < MaxMotivos /\ motivos' = motivos + 1
      /\ UNCHANGED <<conexion, ida, en_srv, en_cli, srv, cli, op, size, offset,
                     llamada, atendida, entendido, hechas, cortes, fallo>>
  BY DEF EnviarMotivo
<1>2. PICK r \in Respuestas["DISPATCH"] :
        /\ vuelta' = vuelta \o enviar_buffer("DISPATCH", r)
        /\ contestado' = IF motivos = 0 THEN r ELSE contestado
  BY DEF EnviarMotivo
<1>3. /\ conexion \in DOMAIN Llamadas /\ en_cli \in Seq(0..255) /\ vuelta \in Seq(0..255)
      /\ motivos \in Nat /\ motivos' \in 0..MaxMotivos /\ motivos' > 0
  BY <1>1, ProtocoloAssumption DEF TypeOK
<1>4. conexion = "kernel_cpu" /\ atendida # Ninguna /\ llamada # Ninguna
      /\ op = llamada.op /\ llamada \in Llamadas[conexion]
  BY <1>1 DEF PorTurnos
<1>5. op = "DISPATCH" /\ op \in DOMAIN Contesta /\ op \notin ContestaByte
  BY <1>3, <1>4, ProtocoloAssumption DEF Contesta, ContestaByte
<1> DEFINE w == buffer_add_uint32(TamanoRespuesta(op, contestado'))
           z == buffer_add_uint32(0)
           C == CuerpoRespuesta(op, contestado')
           B == enviar_buffer(op, r)
<1>6. /\ B \in Seq(0..255) /\ vuelta' = Junta(vuelta, B) /\ vuelta' \in Seq(0..255)
  <2>1. B \in Seq(0..255)
    BY <1>5, Contestado
  <2> QED
    BY <1>2, <1>3, <1>5, <2>1, Juntar DEF Junta
<1>7. Contestada' /\ cli # "byte" /\ contestado' \in Respuestas[op]
  <2>1. motivos > 0 => contestado \in Respuestas[op]
    BY <1>4 DEF PorTurnos, Contestada
  <2> QED
    BY <1>1, <1>2, <1>3, <1>4, <1>5, <2>1 DEF PorTurnos, Contestada
<1>8. /\ w \in Seq(0..255) /\ z \in Seq(0..255) /\ C \in Seq(0..255)
  BY <1>5, <1>7, Contestado
<1>9. TypeOK'
  BY <1>1, <1>3, <1>6 DEF TypeOK
<1>10. Ida'
  BY <1>1 DEF Ida, SinAtender
<1>11. CASE motivos = 0
  <2>1. ~Contestada /\ contestado' = r /\ motivos' = 1
    BY <1>1, <1>2, <1>4, <1>11 DEF Contestada
  <2>2. en_cli = <<>> /\ vuelta = <<>> /\ cli = "size"
    BY <1>4, <1>5, <1>7, <2>1 DEF Vuelta, PorTurnos, TypeOK
  <2>3. PorTurnos'
    BY <1>1, <1>3, <1>4, <1>7, <2>1, <2>2 DEF PorTurnos, SinAtender
  <2>4. Vuelta'
    <3>1. Junta(en_cli', vuelta') = B
      BY <1>1, <1>6, <2>2, Vacias
    <3>2. B = Junta(w, Junta(z, C)) /\ Junta(C, <<>>) = C
      BY <1>5, <1>8, <2>1, Contestado, Vacias
    <3>3. <<>> \in Suffixes(Junta(en_cli', vuelta'))
      BY DEF Suffixes
    <3>4. Junta(en_cli', vuelta') = Junta(w, Junta(z, Junta(C, <<>>)))
      BY <3>1, <3>2
    <3>5. Resto(<<>>)'
      BY <1>1, <2>2, <3>4 DEF Resto, Junta
    <3> QED
      BY <1>7, <3>3, <3>5 DEF Vuelta, Junta
  <2>5. Enteros' /\ CortoSoloSiParte'
    BY <1>1, <2>2 DEF Enteros, CortoSoloSiParte, SinAtender
  <2> QED
    BY <1>9, <1>10, <2>3, <2>4, <2>5
<1>12. CASE motivos # 0
  <2>1. Contestada /\ contestado' = contestado /\ motivos' >= 2
    BY <1>1, <1>2, <1>3, <1>4, <1>12 DEF Contestada
  <2>2. PorTurnos'
    BY <1>1, <1>3, <1>4, <2>1 DEF PorTurnos, SinAtender, Contestada
  <2>3. PICK siguen \in Seq(0..255) :
          LET resto == Junta(en_cli, vuelta)
              D     == Junta(C, siguen)
          IN  /\ cli = "libre" => resto = siguen
              /\ cli = "size" => resto = Junta(w, Junta(z, D))
              /\ cli \in {"offset", "stream"} => size = TamanoRespuesta(op, contestado)
              /\ cli = "offset" => resto = Junta(z, D)
              /\ cli = "stream" => offset = 0 /\ resto = D
    BY <2>1, HayRespuesta
  <2> HIDE DEF w, z, C, B
  <2>4. Junta(en_cli', vuelta') = Junta(Junta(en_cli, vuelta), B)
    BY <1>1, <1>3, <1>6, Asociar
  <2>5. PICK siguen_ \in Seq(0..255) :
          /\ siguen_ = Junta(siguen, B)
          /\ siguen_ \in Suffixes(siguen_)
          /\ Junta(Junta(C, siguen), B) = Junta(C, siguen_)
          /\ siguen_ \in Suffixes(Junta(C, siguen_))
          /\ Junta(Junta(z, Junta(C, siguen)), B) = Junta(z, Junta(C, siguen_))
          /\ siguen_ \in Suffixes(Junta(z, Junta(C, siguen_)))
          /\ Junta(Junta(w, Junta(z, Junta(C, siguen))), B) =
                Junta(w, Junta(z, Junta(C, siguen_)))
          /\ siguen_ \in Suffixes(Junta(w, Junta(z, Junta(C, siguen_))))
    BY <1>6, <1>8, Seguir
  <2>6. /\ cli' = "libre" => Junta(en_cli', vuelta') = siguen_
        /\ cli' = "size" => Junta(en_cli', vuelta') = Junta(w, Junta(z, Junta(C, siguen_)))
        /\ cli' \in {"offset", "stream"} => size' = TamanoRespuesta(op', contestado')
        /\ cli' = "offset" => Junta(en_cli', vuelta') = Junta(z, Junta(C, siguen_))
        /\ cli' = "stream" => offset' = 0 /\ Junta(en_cli', vuelta') = Junta(C, siguen_)
    BY <1>1, <2>1, <2>3, <2>4, <2>5
  <2>7. siguen_ \in Suffixes(Junta(en_cli', vuelta'))
    <3>1. cli' \in {"libre", "size", "offset", "stream"}
      BY <1>1, <1>7 DEF TypeOK
    <3> QED
      BY <2>5, <2>6, <3>1
  <2>8. Vuelta'
    <3>1. op' = op /\ motivos' \in Nat
      BY <1>1, <1>3
    <3>2. cli' # "byte" /\ ~(motivos' < 2)
      BY <1>1, <1>7, <2>1, <3>1
    <3>3. Resto(siguen_)'
      BY <2>6, <3>1, <3>2 DEF Resto, Junta, w, z, C
    <3> QED
      BY <1>7, <2>7, <3>3 DEF Vuelta, Junta
  <2>9. Enteros' /\ CortoSoloSiParte'
    <3>1. Falta' = Falta
      BY <1>1, <2>1 DEF Falta
    <3> QED
      BY <1>1, <3>1 DEF Enteros, CortoSoloSiParte, SinAtender
  <2> QED
    BY <1>9, <1>10, <2>2, <2>8, <2>9
<1> QED
  BY <1>11, <1>12

\* The loop ends: the server is back at the three bytes after the packet.
LEMMA PasoInterrumpir == IInv /\ Interrumpir => IInv'
<1> SUFFICES ASSUME IInv, Interrumpir PROVE IInv'
  OBVIOUS
<1> USE DEF IInv
<1>1. /\ fallo = "no" /\ srv = "dispatch" /\ srv' = "op"
      /\ UNCHANGED <<conexion, ida, vuelta, en_srv, en_cli, cli, op, size, offset,
                     llamada, atendida, contestado, motivos, entendido, hechas,
                     cortes, fallo>>
  BY DEF Interrumpir, canales
<1>2. atendida # Ninguna
  BY <1>1 DEF PorTurnos
<1>3. TypeOK' /\ PorTurnos'
  BY <1>1 DEF TypeOK, PorTurnos, SinAtender, Contestada
<1>4. Ida'
  BY <1>1, <1>2 DEF Ida, SinAtender
<1>5. Vuelta'
  BY <1>1 DEF Vuelta, Resto, Contestada
<1>6. Enteros' /\ CortoSoloSiParte'
  BY <1>1, <1>2 DEF Enteros, Falta, CortoSoloSiParte, SinAtender
<1> QED
  BY <1>3, <1>4, <1>5, <1>6

\* What goes wrong changes nothing else.
LEMMA Fallar ==
  ASSUME IInv, fallo' \in {"corto", "basura"}, fallo' = "corto" => cortes > 0,
         UNCHANGED <<conexion, canales, srv, cli, op, size, offset, llamada,
                     atendida, contestado, motivos, entendido, hechas, cortes>>
  PROVE  IInv'
<1> USE DEF IInv, canales
<1>1. TypeOK'
  BY DEF TypeOK
<1>2. PorTurnos'
  BY DEF PorTurnos, SinAtender, Contestada
<1>3. Ida'
  BY DEF Ida, SinAtender
<1>4. Vuelta'
  BY DEF Vuelta, Resto, Contestada
<1>5. Enteros' /\ CortoSoloSiParte'
  BY DEF Enteros, Falta, CortoSoloSiParte, SinAtender
<1> QED
  BY <1>1, <1>2, <1>3, <1>4, <1>5

\* A byte left over that is taken for an operation ends it all.
LEMMA PasoTomarBasura == IInv /\ TomarBasura => IInv'
  BY Fallar DEF TomarBasura

\* The server finds fewer bytes than it asked for only after a cut.
LEMMA PasoCortoSrv == IInv /\ CortoSrv => IInv'
<1> SUFFICES ASSUME IInv, CortoSrv PROVE IInv'
  OBVIOUS
<1> USE DEF IInv
<1>1. PICK n : Corto(en_srv, n) /\ \/ srv = "size" /\ n = 4
                                   \/ srv = "stream" /\ n = size
  BY DEF CortoSrv
<1>2. /\ Len(en_srv) < n /\ fallo' = "corto"
      /\ UNCHANGED <<conexion, canales, srv, cli, op, size, offset, llamada,
                     atendida, contestado, motivos, entendido, hechas, cortes>>
  BY <1>1 DEF Corto
<1>3. /\ conexion \in DOMAIN Llamadas /\ ida \in Seq(Octetos) /\ en_srv \in Seq(Octetos)
      /\ cortes \in Nat /\ Len(en_srv) \in Nat
  BY LenProperties DEF TypeOK
<1>4. SinAtender /\ llamada \in Llamadas[conexion]
  BY <1>1 DEF Ida, SinAtender, PorTurnos
<1>5. cortes # 0
  <2> SUFFICES ASSUME cortes = 0 PROVE FALSE
    OBVIOUS
  <2>1. ida = <<>> /\ Junta(en_srv, ida) = en_srv
    BY <1>1, <1>3, Vacias DEF Enteros
  <2> DEFINE w == buffer_add_uint32(Tamano(llamada))
             resto == Junta(Cuerpo(llamada), Relleno(3))
  <2>2. /\ Len(Junta(w, resto)) = Tamano(llamada) + 7
        /\ Len(resto) = Tamano(llamada) + 3 /\ Tamano(llamada) \in Nat
    BY <1>3, <1>4, EnPartes, Enviado
  <2>3. srv = "size" => Junta(en_srv, ida) = Junta(w, resto)
    BY DEF Ida, Junta
  <2>4. srv = "stream" => Junta(en_srv, ida) = resto /\ size = Tamano(llamada)
    BY DEF Ida, Junta
  <2> HIDE DEF w, resto
  <2> QED
    BY <1>1, <1>2, <1>3, <2>1, <2>2, <2>3, <2>4
<1>6. cortes > 0
  BY <1>3, <1>5
<1> QED
  BY <1>2, <1>6, Fallar

-----------------------------------------------------------------------------
(* The caller                                                              *)

\* An answer of one byte.
LEMMA PasoRecvByte == IInv /\ RecvByte => IInv'
<1> SUFFICES ASSUME IInv, RecvByte PROVE IInv'
  OBVIOUS
<1> USE DEF IInv
<1>1. /\ fallo = "no" /\ cli = "byte" /\ cli' = "libre" /\ Len(en_cli) >= 1
      /\ en_cli' = Demas(en_cli, 1) /\ entendido' = Head(en_cli)
      /\ UNCHANGED <<conexion, ida, vuelta, en_srv, srv, op, llamada, atendida,
                     contestado, motivos, hechas, cortes, fallo, size, offset>>
  BY DEF RecvByte, RecvCli, Demas
<1>2. en_cli # <<>>
  <2>1. en_cli = <<>> => Len(en_cli) = 0
    OBVIOUS
  <2> QED
    BY <1>1, <2>1
<1>3. /\ Contestada /\ atendida # Ninguna /\ llamada # Ninguna /\ op = llamada.op
      /\ contestado \in Respuestas[op] /\ srv \in {"op", "dispatch", "cerrada"}
      /\ vuelta \in Seq(0..255) /\ en_cli \in Seq(0..255)
  BY <1>2, HayRespuesta
<1>4. Junta(en_cli, vuelta) = <<contestado>>
  BY <1>1, <1>2, HayRespuesta
<1>5. en_cli[1] = contestado /\ Len(en_cli) = 1 /\ vuelta = <<>>
  <2>1. /\ Len(Junta(en_cli, vuelta)) = Len(en_cli) + Len(vuelta)
        /\ Len(en_cli) \in Nat /\ Len(vuelta) \in Nat
        /\ \A i \in 1..Len(en_cli) : Junta(en_cli, vuelta)[i] = en_cli[i]
    BY <1>3, Juntar
  <2>2. Len(en_cli) = 1 /\ Len(vuelta) = 0
    <3>1. Len(<<contestado>>) = 1
      OBVIOUS
    <3>2. Len(en_cli) + Len(vuelta) = 1
      BY <1>4, <2>1, <3>1
    <3>3. Len(en_cli) \in Nat /\ Len(vuelta) \in Nat /\ Len(en_cli) >= 1
      BY <1>1, <2>1
    <3>4. \A x, y \in Nat : x >= 1 /\ x + y = 1 => x = 1 /\ y = 0
      OBVIOUS
    <3> QED
      BY <3>2, <3>3, <3>4
  <2>3. vuelta = <<>>
    BY <1>3, <2>2, Vacias
  <2>4. en_cli[1] = <<contestado>>[1]
    BY <1>4, <2>1, <2>2
  <2> QED
    BY <2>2, <2>3, <2>4
<1>6. en_cli' = <<>> /\ Junta(en_cli', vuelta') = <<>>
  <2>1. 1 \in 0..Len(en_cli) /\ Len(en_cli) - 1 = 0
    BY <1>5
  <2>2. Demas(en_cli, 1) \in Seq(0..255) /\ Len(Demas(en_cli, 1)) = Len(en_cli) - 1
    BY <1>3, <2>1, Partir, ZenonT(60)
  <2>3. en_cli' = <<>>
    BY <1>1, <2>1, <2>2, Vacias
  <2> QED
    BY <1>1, <1>3, <1>5, <2>3, Vacias
<1>7. entendido' = contestado
  BY <1>1, <1>3, <1>5
<1>8. TypeOK'
  BY <1>1, <1>3, <1>6, Vacias DEF TypeOK
<1>9. PorTurnos'
  BY <1>1, <1>3, <1>7 DEF PorTurnos, SinAtender, Contestada
<1>10. Ida'
  BY <1>1 DEF Ida, SinAtender
<1>11. Vuelta'
  <2>1. <<>> \in Suffixes(Junta(en_cli', vuelta'))
    BY DEF Suffixes
  <2>2. Resto(<<>>)'
    BY <1>1, <1>6 DEF Resto, Junta
  <2> QED
    BY <1>1, <1>3, <2>1, <2>2 DEF Vuelta, Contestada, Junta
<1>12. Enteros' /\ CortoSoloSiParte'
  BY <1>1, <1>6 DEF Enteros, CortoSoloSiParte, SinAtender
<1> QED
  BY <1>8, <1>9, <1>10, <1>11, <1>12

\* The size of an answer.
LEMMA PasoBufferRecvSize == IInv /\ BufferRecvSize => IInv'
<1> SUFFICES ASSUME IInv, BufferRecvSize PROVE IInv'
  OBVIOUS
<1> USE DEF IInv
<1>1. /\ fallo = "no" /\ cli = "size" /\ cli' = "offset" /\ Len(en_cli) >= 4
      /\ en_cli' = Demas(en_cli, 4) /\ size' = buffer_read_uint32(en_cli)
      /\ UNCHANGED <<conexion, ida, vuelta, en_srv, srv, op, llamada, atendida,
                     contestado, motivos, hechas, cortes, fallo, offset, entendido>>
  BY DEF BufferRecvSize, RecvCli, Demas
<1>2. en_cli # <<>>
  <2>1. en_cli = <<>> => Len(en_cli) = 0
    OBVIOUS
  <2> QED
    BY <1>1, <2>1
<1>3. /\ Contestada /\ atendida # Ninguna /\ llamada # Ninguna /\ op = llamada.op
      /\ contestado \in Respuestas[op] /\ srv \in {"op", "dispatch", "cerrada"}
      /\ vuelta \in Seq(0..255) /\ en_cli \in Seq(0..255)
  BY <1>2, HayRespuesta
<1>4. op \in DOMAIN Contesta
  BY <1>1, <1>3 DEF PorTurnos
<1> DEFINE n == TamanoRespuesta(op, contestado)
           w == buffer_add_uint32(n)
           z == buffer_add_uint32(0)
           C == CuerpoRespuesta(op, contestado)
<1>5. PICK siguen \in Seq(0..255) : /\ motivos < 2 => siguen = <<>>
                                   /\ Junta(en_cli, vuelta) = Junta(w, Junta(z, Junta(C, siguen)))
  BY <1>1, <1>2, HayRespuesta
<1>6. /\ w \in Seq(0..255) /\ Len(w) = 4 /\ EnUint32(n) /\ n \in Nat
      /\ z \in Seq(0..255) /\ C \in Seq(0..255)
  BY <1>3, <1>4, Contestado
<1> DEFINE resto == Junta(z, Junta(C, siguen))
<1> HIDE DEF n, w, z, C
<1>7. /\ Junta(en_cli, vuelta) = Junta(w, resto) /\ resto \in Seq(0..255)
      /\ siguen \in Suffixes(resto)
  BY <1>5, <1>6, Colgar
<1> HIDE DEF resto
<1>8. /\ en_cli' \in Seq(0..255) /\ Junta(en_cli', vuelta) = resto
      /\ en_cli[1] = w[1] /\ en_cli[2] = w[2] /\ en_cli[3] = w[3] /\ en_cli[4] = w[4]
  <2>1. Len(en_cli) >= 4 /\ en_cli' = Demas(en_cli, 4)
    BY <1>1
  <2>2. /\ Demas(en_cli, 4) \in Seq(0..255) /\ Junta(Demas(en_cli, 4), vuelta) = resto
        /\ en_cli[1] = w[1] /\ en_cli[2] = w[2] /\ en_cli[3] = w[3] /\ en_cli[4] = w[4]
    BY <1>3, <1>6, <1>7, <2>1, RecibirCuatro
  <2> QED
    BY <2>1, <2>2
<1>9. size' = n
  BY <1>1, <1>6, <1>8, Leida DEF w
<1>10. TypeOK'
  BY <1>1, <1>3, <1>6, <1>8, <1>9 DEF TypeOK
<1>11. PorTurnos'
  BY <1>1, <1>3, <1>4 DEF PorTurnos, SinAtender, Contestada
<1>12. Ida'
  BY <1>1, <1>3 DEF Ida, SinAtender
<1>13. Vuelta'
  <2>1. Junta(en_cli', vuelta') = Junta(z, Junta(C, siguen))
    BY <1>1, <1>8 DEF resto
  <2>2. Resto(siguen)'
    BY <1>1, <1>5, <1>9, <2>1 DEF Resto, Junta, n, z, C
  <2> QED
    BY <1>1, <1>3, <1>7, <2>1, <2>2 DEF Vuelta, Contestada, Junta, resto
<1>14. Enteros' /\ CortoSoloSiParte'
  <2>1. cortes = 0 => Len(en_cli) >= Falta
    BY <1>2 DEF Enteros
  <2>2. Len(en_cli') = Len(en_cli) - 4 /\ Len(en_cli) \in Nat
    <3>1. 4 \in 0..Len(en_cli) /\ Len(en_cli) \in Nat
      BY <1>1, <1>3, LenProperties
    <3>2. Len(Demas(en_cli, 4)) = Len(en_cli) - 4
      BY <1>3, <3>1, Partir
    <3> QED
      BY <1>1, <3>1, <3>2
  <2>3. Falta' = Falta - 4 /\ Falta \in Nat
    BY <1>1, <1>6, <1>9 DEF Falta, n
  <2>4. cortes' = 0 => Len(en_cli') >= Falta'
    BY <1>1, <2>1, <2>2, <2>3
  <2> QED
    BY <1>1, <2>4 DEF Enteros, CortoSoloSiParte, SinAtender
<1> QED
  BY <1>10, <1>11, <1>12, <1>13, <1>14

\* Its offset, which is 0.
LEMMA PasoBufferRecvOffset == IInv /\ BufferRecvOffset => IInv'
<1> SUFFICES ASSUME IInv, BufferRecvOffset PROVE IInv'
  OBVIOUS
<1> USE DEF IInv
<1>1. /\ fallo = "no" /\ cli = "offset" /\ cli' = "stream" /\ Len(en_cli) >= 4
      /\ en_cli' = Demas(en_cli, 4) /\ offset' = buffer_read_uint32(en_cli)
      /\ UNCHANGED <<conexion, ida, vuelta, en_srv, srv, op, llamada, atendida,
                     contestado, motivos, hechas, cortes, fallo, size, entendido>>
  BY DEF BufferRecvOffset, RecvCli, Demas
<1>2. en_cli # <<>>
  <2>1. en_cli = <<>> => Len(en_cli) = 0
    OBVIOUS
  <2> QED
    BY <1>1, <2>1
<1>3. /\ Contestada /\ atendida # Ninguna /\ llamada # Ninguna /\ op = llamada.op
      /\ contestado \in Respuestas[op] /\ srv \in {"op", "dispatch", "cerrada"}
      /\ vuelta \in Seq(0..255) /\ en_cli \in Seq(0..255)
  BY <1>2, HayRespuesta
<1>4. op \in DOMAIN Contesta
  BY <1>1, <1>3 DEF PorTurnos
<1> DEFINE z == buffer_add_uint32(0)
           C == CuerpoRespuesta(op, contestado)
<1>5. PICK siguen \in Seq(0..255) : /\ motivos < 2 => siguen = <<>>
                                   /\ size = TamanoRespuesta(op, contestado)
                                   /\ Junta(en_cli, vuelta) = Junta(z, Junta(C, siguen))
  BY <1>1, <1>2, HayRespuesta
<1>6. z \in Seq(0..255) /\ Len(z) = 4 /\ EnUint32(0) /\ C \in Seq(0..255)
      /\ TamanoRespuesta(op, contestado) \in Nat
  BY <1>3, <1>4, Contestado
<1> DEFINE resto == Junta(C, siguen)
<1> HIDE DEF z, C
<1>7. /\ Junta(en_cli, vuelta) = Junta(z, resto) /\ resto \in Seq(0..255)
      /\ siguen \in Suffixes(resto)
  BY <1>5, <1>6, Colgar
<1> HIDE DEF resto
<1>8. /\ en_cli' \in Seq(0..255) /\ Junta(en_cli', vuelta) = resto
      /\ en_cli[1] = z[1] /\ en_cli[2] = z[2] /\ en_cli[3] = z[3] /\ en_cli[4] = z[4]
  <2>1. Len(en_cli) >= 4 /\ en_cli' = Demas(en_cli, 4)
    BY <1>1
  <2>2. /\ Demas(en_cli, 4) \in Seq(0..255) /\ Junta(Demas(en_cli, 4), vuelta) = resto
        /\ en_cli[1] = z[1] /\ en_cli[2] = z[2] /\ en_cli[3] = z[3] /\ en_cli[4] = z[4]
    BY <1>3, <1>6, <1>7, <2>1, RecibirCuatro
  <2> QED
    BY <2>1, <2>2
<1>9. offset' = 0
  BY <1>1, <1>6, <1>8, Leida DEF z
<1>10. TypeOK'
  BY <1>1, <1>3, <1>8, <1>9 DEF TypeOK
<1>11. PorTurnos'
  BY <1>1, <1>3, <1>4 DEF PorTurnos, SinAtender, Contestada
<1>12. Ida'
  BY <1>1, <1>3 DEF Ida, SinAtender
<1>13. Vuelta'
  <2>1. Junta(en_cli', vuelta') = Junta(C, siguen)
    BY <1>1, <1>8 DEF resto
  <2>2. Resto(siguen)'
    BY <1>1, <1>5, <1>9, <2>1 DEF Resto, Junta, C
  <2> QED
    BY <1>1, <1>3, <1>7, <2>1, <2>2 DEF Vuelta, Contestada, Junta, resto
<1>14. Enteros' /\ CortoSoloSiParte'
  <2>1. cortes = 0 => Len(en_cli) >= Falta
    BY <1>2 DEF Enteros
  <2>2. Len(en_cli') = Len(en_cli) - 4 /\ Len(en_cli) \in Nat
    <3>1. 4 \in 0..Len(en_cli) /\ Len(en_cli) \in Nat
      BY <1>1, <1>3, LenProperties
    <3>2. Len(Demas(en_cli, 4)) = Len(en_cli) - 4
      BY <1>3, <3>1, Partir
    <3> QED
      BY <1>1, <3>1, <3>2
  <2>3. Falta' = Falta - 4 /\ Falta \in Nat
    BY <1>1, <1>5, <1>6 DEF Falta
  <2>4. cortes' = 0 => Len(en_cli') >= Falta'
    BY <1>1, <2>1, <2>2, <2>3
  <2> QED
    BY <1>1, <2>4 DEF Enteros, CortoSoloSiParte, SinAtender
<1> QED
  BY <1>10, <1>11, <1>12, <1>13, <1>14

\* What it says is what was answered.
LEMMA PasoBufferRecvStream == IInv /\ BufferRecvStream => IInv'
<1> SUFFICES ASSUME IInv, BufferRecvStream PROVE IInv'
  OBVIOUS
<1> USE DEF IInv
<1>1. /\ fallo = "no" /\ cli = "stream" /\ cli' = "libre" /\ Len(en_cli) >= size
      /\ en_cli' = Demas(en_cli, size)
      /\ entendido' = Deserializar(Contesta[llamada.op], Primeros(en_cli, size), offset)
      /\ UNCHANGED <<conexion, ida, vuelta, en_srv, srv, op, llamada, atendida,
                     contestado, motivos, hechas, cortes, fallo, size, offset>>
  BY DEF BufferRecvStream, RecvCli, Demas, Primeros
<1>2. Contestada
  BY <1>1 DEF PorTurnos
<1>3. /\ Contestada /\ atendida # Ninguna /\ llamada # Ninguna /\ op = llamada.op
      /\ contestado \in Respuestas[op] /\ srv \in {"op", "dispatch", "cerrada"}
      /\ vuelta \in Seq(0..255) /\ en_cli \in Seq(0..255)
  BY <1>2, HayRespuesta
<1>4. op \in DOMAIN Contesta
  BY <1>1, <1>3 DEF PorTurnos
<1> DEFINE C == CuerpoRespuesta(op, contestado)
<1>5. PICK siguen \in Seq(0..255) : /\ motivos < 2 => siguen = <<>>
                                   /\ size = TamanoRespuesta(op, contestado) /\ offset = 0
                                   /\ Junta(en_cli, vuelta) = Junta(C, siguen)
  BY <1>1, <1>2, HayRespuesta
<1>6. /\ C \in Seq(0..255) /\ Len(C) = size /\ size \in Nat
      /\ Deserializar(Contesta[op], C, 0) = contestado
  BY <1>3, <1>4, <1>5, Contestado
<1> HIDE DEF C
<1>7. /\ Primeros(en_cli, size) = C
      /\ en_cli' \in Seq(0..255) /\ Junta(en_cli', vuelta) = siguen
  BY <1>1, <1>3, <1>5, <1>6, Recibir
<1>8. entendido' = contestado
  BY <1>1, <1>3, <1>5, <1>6, <1>7
<1>9. TypeOK'
  BY <1>1, <1>7 DEF TypeOK
<1>10. PorTurnos'
  BY <1>1, <1>3, <1>8 DEF PorTurnos, SinAtender, Contestada
<1>11. Ida'
  BY <1>1 DEF Ida, SinAtender
<1>12. Vuelta'
  <2>1. siguen \in Suffixes(siguen)
    BY Colgar
  <2>2. Resto(siguen)'
    BY <1>1, <1>5, <1>7 DEF Resto, Junta
  <2> QED
    BY <1>1, <1>3, <1>7, <2>1, <2>2 DEF Vuelta, Contestada, Junta
<1>13. Enteros' /\ CortoSoloSiParte'
  <2>1. Falta' = 0 /\ Len(en_cli') \in Nat
    BY <1>1, <1>7, LenProperties DEF Falta
  <2> QED
    BY <1>1, <2>1 DEF Enteros, CortoSoloSiParte, SinAtender
<1> QED
  BY <1>9, <1>10, <1>11, <1>12, <1>13

\* The caller, like the server, finds fewer bytes only after a cut.
LEMMA PasoCortoCli == IInv /\ CortoCli => IInv'
<1> SUFFICES ASSUME IInv, CortoCli PROVE IInv'
  OBVIOUS
<1> USE DEF IInv
<1>1. PICK n : Corto(en_cli, n) /\ \/ cli \in {"size", "offset"} /\ n = 4
                                   \/ cli = "stream" /\ n = size
  BY DEF CortoCli
<1>2. /\ 0 < Len(en_cli) /\ Len(en_cli) < n /\ fallo' = "corto"
      /\ UNCHANGED <<conexion, canales, srv, cli, op, size, offset, llamada,
                     atendida, contestado, motivos, entendido, hechas, cortes>>
  BY <1>1 DEF Corto
<1>3. en_cli # <<>>
  <2>1. en_cli = <<>> => Len(en_cli) = 0
    OBVIOUS
  <2> QED
    BY <1>2, <2>1
<1>4. Falta >= n /\ n \in Nat /\ Falta \in Nat /\ Len(en_cli) \in Nat
  <2>1. Contestada /\ en_cli \in Seq(0..255) /\ size \in Nat
    BY <1>3, HayRespuesta DEF TypeOK
  <2>2. cli = "size" => TamanoRespuesta(op, contestado) \in Nat
    BY <1>3, HayRespuesta, Contestado DEF PorTurnos
  <2> QED
    BY <1>1, <2>1, <2>2, LenProperties DEF Falta
<1>5. cortes # 0
  BY <1>2, <1>3, <1>4 DEF Enteros
<1>6. cortes > 0
  BY <1>5, ProtocoloAssumption DEF TypeOK
<1> QED
  BY <1>2, <1>6, Fallar

-----------------------------------------------------------------------------
(* What holds at every moment                                              *)

\* The inductive invariant: one call at a time, and what each end has still to
\* read is the rest of what the other sent (atenderKernel, atenderCpu, the
\* dispatch server and their callers, over server.c and protocolo.c).
THEOREM Invariante == Spec => []IInv
<1>1. IInv /\ [Next]_vars => IInv'
  <2> SUFFICES ASSUME IInv, [Next]_vars PROVE IInv'
    OBVIOUS
  <2>1. CASE UNCHANGED vars
    <3> USE <2>1 DEF IInv, vars, canales
    <3>1. TypeOK'
      BY DEF TypeOK
    <3>2. PorTurnos'
      BY DEF PorTurnos, SinAtender, Contestada
    <3>3. Ida'
      BY DEF Ida, SinAtender
    <3>4. Vuelta'
      BY DEF Vuelta, Resto, Contestada
    <3>5. Enteros' /\ CortoSoloSiParte'
      BY DEF Enteros, Falta, CortoSoloSiParte, SinAtender
    <3> QED
      BY <3>1, <3>2, <3>3, <3>4, <3>5
  <2>2. CASE Next
    BY <2>2, PasoLlamar, PasoLlegaIda, PasoLlegaVuelta, PasoRecvByte,
       PasoBufferRecvSize, PasoBufferRecvOffset, PasoBufferRecvStream, PasoCortoCli,
       PasoRecvOp, PasoSaltarByte, PasoTomarBasura, PasoRecvSize, PasoRecvStream,
       PasoCortoSrv, PasoEnviarMotivo, PasoInterrumpir
       DEF Next, Cliente, Servidor, Bucle
  <2> QED
    BY <2>1, <2>2
<1> QED
  BY Inicial, <1>1, PTL DEF Spec

\* No buffer is sent with room its caller did not fill: of the bytes nobody
\* wrote, only the three of enviar_paquete travel.
THEOREM Tipos == Spec => []TypeOK
<1>1. IInv => TypeOK
  BY DEF IInv
<1> QED
  BY Invariante, <1>1, PTL

\* The room each caller counts by hand is what its fields take (buffer_create
\* and what is added after it, in the seven packets and the three answers).
THEOREM SinDesbordes == Spec => []SinDesborde
<1>1. IInv => SinDesborde
  <2> SUFFICES ASSUME IInv PROVE SinDesborde
    OBVIOUS
  <2>1. llamada # Ninguna =>
          Len(Serializar(Paquete[llamada.op].campos, llamada.datos)) = Tamano(llamada)
    BY Enviado DEF IInv, TypeOK, PorTurnos
  <2>2. Contestada /\ op \in DOMAIN Contesta =>
          Len(Serializar(Contesta[op], contestado)) = TamanoRespuesta(op, contestado)
    BY Contestado DEF IInv, PorTurnos
  <2> QED
    BY <2>1, <2>2 DEF SinDesborde
<1> QED
  BY Invariante, <1>1, PTL

\* What a handler takes for the call is what was called, however its bytes come
\* and whatever was called before on the connection.
THEOREM Entregado == Spec => []EntregaFiel
<1>1. IInv => EntregaFiel
  BY DEF IInv, PorTurnos, EntregaFiel
<1> QED
  BY Invariante, <1>1, PTL

\* What the caller understands is what the handler of this call answered.
THEOREM Respondido == Spec => []RespuestaFiel
<1>1. IInv => RespuestaFiel
  BY DEF IInv, PorTurnos, RespuestaFiel
<1> QED
  BY Invariante, <1>1, PTL

\* A recv() falls short only if a delivery was cut (the recv() of the handlers and
\* of buffer_recv, without MSG_WAITALL).
THEOREM Cortado == Spec => []CortoSoloSiParte
<1>1. IInv => CortoSoloSiParte
  BY DEF IInv
<1> QED
  BY Invariante, <1>1, PTL

-----------------------------------------------------------------------------
(* Why every call ends                                                     *)

\* As long as a call is in course and nothing is on its way, the end whose turn
\* it is has all it asked for, but in dispatch(): in its loop, which owes nobody
\* an answer, or after it if check_interrupt() ended it before the first motivo.
THEOREM SinEspera == Spec => []EsperaMutuaSoloSinMotivo
<1>1. ASSUME IInv, EnCurso, ida = <<>>, atendida = Ninguna
      PROVE  TieneServidor
  <2> USE DEF IInv
  <2>1. en_srv \in Seq(Octetos) /\ Junta(en_srv, ida) = en_srv
    BY <1>1, Vacias DEF TypeOK
  <2>2. /\ SinAtender /\ srv \in {"op", "size", "stream"}
        /\ llamada \in Llamadas[conexion] /\ conexion \in DOMAIN Llamadas
    BY <1>1 DEF EnCurso, SinAtender, Ida, PorTurnos, TypeOK
  <2> DEFINE w == buffer_add_uint32(Tamano(llamada))
             resto == Junta(Cuerpo(llamada), Relleno(3))
  <2>3. /\ Tamano(llamada) \in Nat
        /\ enviar_paquete(llamada) \in Seq(Octetos)
        /\ Len(enviar_paquete(llamada)) = Tamano(llamada) + 8
        /\ Len(Junta(w, resto)) = Tamano(llamada) + 7
        /\ Len(resto) = Tamano(llamada) + 3
    BY <2>2, Enviado, EnPartes
  <2>4. CASE srv = "op"
    <3>1. PICK n \in 0..3 : en_srv = Junta(Relleno(n), enviar_paquete(llamada))
      BY <1>1, <2>1, <2>2, <2>4 DEF Ida, Junta
    <3>2. Relleno(n) \in Seq(Octetos) /\ Len(Relleno(n)) = n
      BY Rellenos
    <3>3. ASSUME NEW a \in Seq(Octetos), NEW b \in Seq(Octetos), Len(a) = n
          PROVE  Len(Junta(a, b)) = n + Len(b)
      BY <3>3, Juntar
    <3>4. Len(en_srv) = n + Len(enviar_paquete(llamada))
      BY <2>3, <3>1, <3>2, <3>3
    <3> QED
      BY <2>3, <2>4, <3>4 DEF TieneServidor
  <2>5. CASE srv = "size"
    <3>1. en_srv = Junta(w, resto)
      BY <1>1, <2>1, <2>5 DEF Ida, Junta
    <3> HIDE DEF w, resto
    <3> QED
      BY <2>3, <2>5, <3>1 DEF TieneServidor
  <2>6. CASE srv = "stream"
    <3>1. en_srv = resto /\ size = Tamano(llamada)
      BY <1>1, <2>1, <2>6 DEF Ida, Junta
    <3> HIDE DEF w, resto
    <3> QED
      BY <2>3, <2>6, <3>1 DEF TieneServidor
  <2> QED
    BY <2>2, <2>4, <2>5, <2>6
<1>2. ASSUME IInv, EnCurso, vuelta = <<>>, Contestada
      PROVE  TieneCliente
  <2> USE DEF IInv
  <2>1. /\ en_cli \in Seq(0..255) /\ atendida # Ninguna
        /\ contestado \in Respuestas[op] /\ op = llamada.op
    BY <1>2, HayRespuesta
  <2>2. Junta(en_cli, vuelta) = en_cli
    BY <1>2, <2>1, Vacias
  <2>3. Len(en_cli) \in Nat /\ Falta \in Nat /\ Len(en_cli) >= Falta
    BY <1>2, <2>2, Quedan
  <2>4. /\ cli \in {"byte", "size", "offset", "stream"} /\ size \in Nat
        /\ conexion = "kernel_memoria" => srv = "cerrada"
    BY <1>2, <2>1 DEF EnCurso, Ida, TypeOK
  <2>5. cli = "size" => TamanoRespuesta(op, contestado) \in Nat
    BY <1>2, <2>1, Contestado DEF PorTurnos
  <2> QED
    BY <2>3, <2>4, <2>5 DEF Falta, TieneCliente
<1>3. ASSUME IInv, atendida # Ninguna, ~Contestada, srv # "dispatch"
      PROVE  SinMotivo
  BY <1>3, ProtocoloAssumption DEF IInv, TypeOK, Contestada, SinMotivo
<1>4. IInv => EsperaMutuaSoloSinMotivo
  BY <1>1, <1>2, <1>3 DEF EsperaMutuaSoloSinMotivo
<1> QED
  BY Invariante, <1>4, PTL

\* No call is made while another is in course.
LEMMA UnaCadaVez ==
  ASSUME IInv, EnCurso
  PROVE  ~Llamar
<1> SUFFICES ASSUME Llamar PROVE FALSE
  OBVIOUS
<1>1. /\ cli = "libre"
      /\ conexion = "kernel_memoria" /\ hechas > 0 => srv = "cerrada"
  BY DEF Llamar
<1>2. llamada # Ninguna /\ atendida = Ninguna
  BY <1>1 DEF EnCurso
<1>3. /\ llamada.op \notin DOMAIN Contesta \cup ContestaByte /\ hechas > 0
      /\ llamada \in Llamadas[conexion] /\ conexion \in DOMAIN Llamadas
  BY <1>1, <1>2 DEF IInv, PorTurnos, SinAtender, Contestada, TypeOK
<1>4. conexion = "kernel_memoria"
  BY <1>3, ProtocoloAssumption
<1> QED
  BY <1>1, <1>2, <1>3, <1>4 DEF IInv, Ida

\* Delivered bytes are no longer on their way.
LEMMA Entregar ==
  ASSUME NEW S, NEW s \in Seq(S), NEW t \in Seq(S), NEW k \in 1..Len(t)
  PROVE  Len(Junta(s, Primeros(t, k))) = Len(s) + k /\ Len(Demas(t, k)) = Len(t) - k
<1>1. Len(t) \in Nat /\ k \in 0..Len(t)
  OBVIOUS
<1>2. Primeros(t, k) \in Seq(S) /\ Len(Primeros(t, k)) = k /\ Len(Demas(t, k)) = Len(t) - k
  BY <1>1, Partir
<1> QED
  BY <1>2, Juntar

\* Each step of a call in course ends it, breaks it, has the handler take it, or
\* leaves less to deliver and to read: none of them can be taken for ever.  The
\* steps of the loop of dispatch() are not among them.
THEOREM Avance == Spec => Avanza
<1> DEFINE Bien == \/ ~EnCurso' \/ fallo' # "no"
                   \/ atendida = Ninguna /\ atendida' # Ninguna
                   \/ srv = "dispatch" /\ (srv' # srv \/ motivos' > motivos)
                   \/ atendida' = atendida /\ Pendientes' < Pendientes
<1>1. ASSUME IInv, EnCurso, fallo = "no", Next
      PROVE  Bien
  <2>0. /\ ida \in Seq(Octetos) /\ en_srv \in Seq(Octetos)
        /\ vuelta \in Seq(0..255) /\ en_cli \in Seq(0..255) /\ size \in Nat
        /\ Len(ida) \in Nat /\ Len(en_srv) \in Nat
        /\ Len(vuelta) \in Nat /\ Len(en_cli) \in Nat
    BY <1>1 DEF IInv, TypeOK
  <2>1. CASE LlegaIda
    <3>1. PICK k \in 1..Len(ida) : /\ en_srv' = Junta(en_srv, Primeros(ida, k))
                                   /\ ida' = Demas(ida, k)
      BY <2>1 DEF LlegaIda, Junta, Primeros, Demas
    <3>2. Len(en_srv') = Len(en_srv) + k /\ Len(ida') = Len(ida) - k
      BY <2>0, <3>1, Entregar
    <3>3. UNCHANGED <<vuelta, en_cli, atendida>>
      BY <2>1 DEF LlegaIda
    <3> QED
      BY <2>0, <3>2, <3>3 DEF Pendientes
  <2>2. CASE LlegaVuelta
    <3>1. PICK k \in 1..Len(vuelta) : /\ en_cli' = Junta(en_cli, Primeros(vuelta, k))
                                      /\ vuelta' = Demas(vuelta, k)
      BY <2>2 DEF LlegaVuelta, Junta, Primeros, Demas
    <3>2. Len(en_cli') = Len(en_cli) + k /\ Len(vuelta') = Len(vuelta) - k
      BY <2>0, <3>1, Entregar
    <3>3. UNCHANGED <<ida, en_srv, atendida>>
      BY <2>2 DEF LlegaVuelta
    <3> QED
      BY <2>0, <3>2, <3>3 DEF Pendientes
  <2>3. CASE RecvOp \/ SaltarByte \/ RecvSize
    <3>1. PICK n \in {1, 4} :
             /\ n <= Len(en_srv) /\ en_srv' = Demas(en_srv, n)
             /\ UNCHANGED <<ida, vuelta, en_cli, atendida>>
      BY <2>3 DEF RecvOp, SaltarByte, RecvSize, RecvSrv, Demas
    <3>2. n \in 0..Len(en_srv)
      BY <2>0, <3>1
    <3>3. Len(en_srv') = Len(en_srv) - n
      BY <2>0, <3>1, <3>2, Partir
    <3> QED
      BY <2>0, <3>1, <3>2, <3>3 DEF Pendientes
  <2>4. CASE RecvStream
    <3>1. srv = "stream" /\ atendida'.op = op
      BY <2>4 DEF RecvStream, RecvSrv, Leido
    <3>2. atendida = Ninguna /\ op \in Ops
      BY <1>1, <3>1, Enviado DEF IInv, Ida, SinAtender, PorTurnos, TypeOK
    <3> QED
      BY <3>1, <3>2, Operaciones DEF Ninguna
  <2>5. CASE RecvByte \/ BufferRecvStream
    <3>1. cli' = "libre" /\ atendida' = atendida /\ atendida # Ninguna
      BY <1>1, <2>5, HayRespuesta DEF RecvByte, BufferRecvStream, RecvCli, IInv, PorTurnos
    <3> QED
      BY <3>1 DEF EnCurso
  <2>6. CASE BufferRecvSize \/ BufferRecvOffset
    <3>1. /\ 4 \in 0..Len(en_cli) /\ en_cli' = Demas(en_cli, 4)
          /\ UNCHANGED <<ida, vuelta, en_srv, atendida>>
      BY <2>0, <2>6 DEF BufferRecvSize, BufferRecvOffset, RecvCli, Demas
    <3>2. Len(en_cli') = Len(en_cli) - 4
      BY <2>0, <3>1, Partir
    <3> QED
      BY <2>0, <3>1, <3>2 DEF Pendientes
  <2>7. CASE CortoCli \/ TomarBasura \/ CortoSrv
    BY <2>7 DEF CortoCli, TomarBasura, CortoSrv, Corto
  <2>8. CASE EnviarMotivo \/ Interrumpir
    BY <2>8, ProtocoloAssumption, <1>1
    DEF EnviarMotivo, Interrumpir, IInv, TypeOK
  <2> QED
    BY <1>1, <2>1, <2>2, <2>3, <2>4, <2>5, <2>6, <2>7, <2>8, UnaCadaVez
    DEF Next, Cliente, Servidor, Bucle
<1>2. IInv /\ [Next]_vars => [EnCurso /\ fallo = "no" => Bien]_vars
  BY <1>1
<1> QED
  BY Invariante, <1>2, PTL DEF Spec, Avanza

=============================================================================
