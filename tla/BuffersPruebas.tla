--------------------------- MODULE BuffersPruebas ---------------------------
(***************************************************************************)
(* What a buffer holds and what is read from it, for every message: the    *)
(* words, the fields one after another, and each field back.               *)
(***************************************************************************)
EXTENDS Protocolo, SequenceTheorems, WellFoundedInduction, TLAPS

-----------------------------------------------------------------------------
(* Words                                                                   *)

\* A number read from a buffer is the one that was added to it
\* (buffer_add_uint32 and buffer_read_uint32), for every number there is.
THEOREM IdaYVuelta ==
  \A v \in Nat : buffer_read_uint32(buffer_add_uint32(v)) = v
<1> SUFFICES ASSUME NEW v \in Nat
             PROVE  (v % 256) + 256 * ((v \div 256) % 256)
                      + 65536 * ((v \div 65536) % 256)
                      + 16777216 * (v \div 16777216) = v
  BY DEF buffer_read_uint32, buffer_add_uint32
<1>1. v = 256 * (v \div 256) + (v % 256)
  OBVIOUS
<1>2. v \div 256 = 256 * (v \div 65536) + ((v \div 256) % 256)
  OBVIOUS
<1>3. v \div 65536 = 256 * (v \div 16777216) + ((v \div 65536) % 256)
  OBVIOUS
<1> QED
  BY <1>1, <1>2, <1>3

\* A word is four bytes.
LEMMA CuatroBytes ==
  ASSUME NEW v, EnUint32(v)
  PROVE  /\ buffer_add_uint32(v) \in Seq(0..255)
         /\ Len(buffer_add_uint32(v)) = 4
<1>1. /\ v % 256 \in 0..255 /\ (v \div 256) % 256 \in 0..255
      /\ (v \div 65536) % 256 \in 0..255 /\ v \div 16777216 \in 0..255
  BY DEF EnUint32
<1> QED
  BY <1>1 DEF buffer_add_uint32

\* What is read depends on the four bytes at the place alone.
LEMMA LeerPalabra ==
  ASSUME NEW stream, NEW desde \in Nat, NEW v, EnUint32(v),
         desde + 4 <= Len(stream), Len(stream) \in Nat,
         \A j \in 1..4 : stream[desde + j] = buffer_add_uint32(v)[j]
  PROVE  Palabra(stream, desde) = v
<1>1. \A j \in 1..4 : Tramo(stream, desde, 4)[j] = buffer_add_uint32(v)[j]
  BY DEF Tramo
<1>2. Palabra(stream, desde) = buffer_read_uint32(buffer_add_uint32(v))
  BY <1>1 DEF Palabra, buffer_read_uint32
<1> QED
  BY <1>2, IdaYVuelta DEF EnUint32

-----------------------------------------------------------------------------
(* Induction, and the concatenation of several sequences                   *)

\* A set with 0 and the successor of each of its numbers has them all.
LEMMA Induccion ==
  ASSUME NEW S, 0 \in S, \A k \in Nat : k \in S => k + 1 \in S
  PROVE  Nat \subseteq S
<1> DEFINE R == OpToRel(<, Nat)
           T == Nat \ S
<1>1. IsWellFoundedOn(R, Nat)
  BY NatLessThanWellFounded
<1>2. \A x, y \in Nat : y < x => <<y, x>> \in R
  BY DEF OpToRel
<1> HIDE DEF R
<1> SUFFICES ASSUME T # {} PROVE FALSE
  OBVIOUS
<1>3. PICK n \in T : \A m \in T : <<m, n>> \notin R
  BY <1>1, WFMin
<1>4. n # 0 /\ n - 1 \in Nat /\ n - 1 < n
  OBVIOUS
<1>5. n - 1 \in T
  BY <1>4
<1> QED
  BY <1>2, <1>3, <1>4, <1>5

\* The concatenations of the first elements of a list of sequences.
Parciales(f, s, n) ==
  f = [i \in 1..n |-> IF i = 1 THEN s[i] ELSE f[i - 1] \o s[i]]

\* There are such concatenations.
LEMMA HayParciales ==
  ASSUME NEW s, NEW n \in Nat
  PROVE  \E f : Parciales(f, s, n)
<1> DEFINE S == {k \in Nat : \E f : Parciales(f, s, k)}
<1>1. 0 \in S
  <2>1. Parciales([i \in 1..0 |-> s[i]], s, 0)
    BY DEF Parciales
  <2> QED
    BY <2>1
<1>2. ASSUME NEW k \in Nat, k \in S PROVE k + 1 \in S
  <2>1. PICK g : Parciales(g, s, k)
    BY <1>2
  <2> DEFINE nuevo == IF k = 0 THEN s[1] ELSE g[k] \o s[k + 1]
             h == [i \in 1..k + 1 |-> IF i = k + 1 THEN nuevo ELSE g[i]]
  <2>2. ASSUME NEW i \in 1..k + 1
        PROVE  h[i] = IF i = 1 THEN s[i] ELSE h[i - 1] \o s[i]
    <3>1. CASE i = k + 1
      BY <3>1
    <3>2. CASE i # k + 1
      <4>1. i \in 1..k /\ h[i] = g[i] /\ (i # 1 => h[i - 1] = g[i - 1])
        BY <3>2
      <4> HIDE DEF h
      <4> QED
        BY <2>1, <4>1 DEF Parciales
    <3> QED
      BY <3>1, <3>2
  <2>3. Parciales(h, s, k + 1)
    BY <2>2 DEF Parciales
  <2> QED
    BY <2>3
<1>3. n \in S
  BY <1>1, <1>2, Induccion
<1> QED
  BY <1>3

\* FlattenSeq gives the last of them.
LEMMA Aplanar ==
  ASSUME NEW n \in Nat \ {0}, NEW s, DOMAIN s = 1..n, Len(s) = n
  PROVE  \E f : Parciales(f, s, n) /\ FlattenSeq(s) = f[n]
<1> DEFINE F == CHOOSE f : f = [i \in 1..n |-> IF i = 1 THEN s[i] ELSE f[i - 1] \o s[i]]
<1>1. Parciales(F, s, n)
  BY HayParciales DEF Parciales
<1>2. FlattenSeq(s) = F[n]
  BY DEF FlattenSeq
<1> QED
  BY <1>1, <1>2

-----------------------------------------------------------------------------
(* What a buffer holds                                                     *)

\* The fields of a message of n: all different, and a string only at the end.
EsFormato(campos, n) ==
  /\ n \in Nat \ {0} /\ DOMAIN campos = 1..n
  /\ \A i, j \in 1..n : campos[i] = campos[j] => i = j
  /\ \A i \in 1..n : i # n => campos[i] \notin Textos

\* A number adds its four bytes; a string, its length, its characters and \0.
LEMMA Agregado ==
  ASSUME NEW campo, NEW valor, EnCampo(campo, valor)
  PROVE  /\ Agregar(campo, valor) \in Seq(0..255)
         /\ campo \notin Textos =>
               /\ Agregar(campo, valor) = buffer_add_uint32(valor[1])
               /\ Len(Agregar(campo, valor)) = 4
               /\ EnUint32(valor[1]) /\ valor = <<valor[1]>>
         /\ campo \in Textos =>
               /\ Len(Agregar(campo, valor)) = 4 + Len(valor) + 1
               /\ \A j \in 1..4 :
                     Agregar(campo, valor)[j] = buffer_add_uint32(Len(valor) + 1)[j]
               /\ \A j \in 1..Len(valor) : Agregar(campo, valor)[4 + j] = valor[j]
<1>1. CASE campo \notin Textos
  <2>1. valor \in Seq(Nat) /\ Len(valor) = 1 /\ EnUint32(valor[1])
    BY <1>1 DEF EnCampo
  <2>2. valor = <<valor[1]>>
    BY <2>1
  <2> QED
    BY <1>1, <2>1, <2>2, CuatroBytes DEF Agregar
<1>2. CASE campo \in Textos
  <2> DEFINE largo == buffer_add_uint32(Len(valor) + 1)
  <2>1. valor \in Seq(1..255) /\ EnUint32(Len(valor) + 1)
    BY <1>2 DEF EnCampo
  <2>2. largo \in Seq(0..255) /\ Len(largo) = 4
    BY <2>1, CuatroBytes
  <2>3. valor \in Seq(0..255)
    BY <2>1, SeqMonotonic
  <2>4. <<0>> \in Seq(0..255) /\ Len(<<0>>) = 1
    OBVIOUS
  <2>5. Agregar(campo, valor) = (largo \o valor) \o <<0>>
    BY <1>2 DEF Agregar
  <2> HIDE DEF largo
  <2>6. /\ largo \o valor \in Seq(0..255) /\ Len(largo \o valor) = 4 + Len(valor)
        /\ \A j \in 1..4 + Len(valor) :
              (largo \o valor)[j] = IF j <= 4 THEN largo[j] ELSE valor[j - 4]
    <3>1. /\ largo \o valor \in Seq(0..255)
          /\ Len(largo \o valor) = Len(largo) + Len(valor)
          /\ \A j \in 1..Len(largo) + Len(valor) : (largo \o valor)[j] =
                IF j <= Len(largo) THEN largo[j] ELSE valor[j - Len(largo)]
      BY <2>2, <2>3, ConcatProperties
    <3> QED
      BY <2>2, <3>1
  <2>7. /\ (largo \o valor) \o <<0>> \in Seq(0..255)
        /\ Len((largo \o valor) \o <<0>>) = 4 + Len(valor) + 1
        /\ \A j \in 1..4 + Len(valor) :
              ((largo \o valor) \o <<0>>)[j] = (largo \o valor)[j]
    BY <2>3, <2>4, <2>6, ConcatProperties
  <2>8. Len(valor) \in Nat
    BY <2>3
  <2>9. /\ \A j \in 1..4 : Agregar(campo, valor)[j] = largo[j]
        /\ \A j \in 1..Len(valor) : Agregar(campo, valor)[4 + j] = valor[j]
    BY <2>5, <2>6, <2>7, <2>8
  <2> QED
    BY <1>2, <2>5, <2>7, <2>9 DEF largo
<1> QED
  BY <1>1, <1>2

\* Every field has its place: four bytes each, and the last one what it takes.
LEMMA Serializado ==
  ASSUME NEW campos, NEW n, EsFormato(campos, n), NEW datos, EsMensaje(campos, datos)
  PROVE  LET buffer == Serializar(campos, datos)
             Campo(i) == Agregar(campos[i], datos[campos[i]])
         IN  /\ buffer \in Seq(0..255)
             /\ Len(buffer) = 4 * (n - 1) + Len(Campo(n))
             /\ \A i \in 1..n : \A j \in 1..Len(Campo(i)) :
                   buffer[4 * (i - 1) + j] = Campo(i)[j]
<1> DEFINE Campo(i) == Agregar(campos[i], datos[campos[i]])
           s == [i \in 1..n |-> Campo(i)]
<1>1. n \in Nat \ {0} /\ DOMAIN campos = 1..n
  BY DEF EsFormato
<1>2. ASSUME NEW i \in 1..n
      PROVE  /\ Campo(i) \in Seq(0..255) /\ Len(Campo(i)) \in Nat
             /\ i # n => Len(Campo(i)) = 4
             /\ s[i] = Campo(i)
  <2>1. campos[i] \in Range(campos)
    BY <1>1 DEF Range
  <2>2. EnCampo(campos[i], datos[campos[i]])
    BY <2>1 DEF EsMensaje
  <2>3. Campo(i) \in Seq(0..255) /\ (i # n => Len(Campo(i)) = 4)
    BY <2>2, Agregado DEF EsFormato
  <2> HIDE DEF Campo
  <2> QED
    BY <2>3
<1>3. DOMAIN s = 1..n /\ Len(s) = n
  BY <1>1
<1>4. Serializar(campos, datos) = FlattenSeq(s)
  BY <1>1 DEF Serializar
<1> HIDE DEF s, Campo
<1>5. PICK f : Parciales(f, s, n) /\ FlattenSeq(s) = f[n]
  BY <1>1, <1>3, Aplanar
<1> DEFINE Hecho(k) ==
             /\ f[k] \in Seq(0..255)
             /\ Len(f[k]) = 4 * (k - 1) + Len(Campo(k))
             /\ \A i \in 1..k : \A j \in 1..Len(Campo(i)) :
                   f[k][4 * (i - 1) + j] = Campo(i)[j]
           S == {k \in Nat : k \in 1..n => Hecho(k)}
<1>6. 0 \in S
  OBVIOUS
<1>7. ASSUME NEW k \in Nat, k \in S PROVE k + 1 \in S
  <2> SUFFICES ASSUME k + 1 \in 1..n PROVE Hecho(k + 1)
    OBVIOUS
  <2>1. CASE k = 0
    <3>1. f[1] = Campo(1)
      BY <1>1, <1>2, <1>5 DEF Parciales
    <3> QED
      BY <1>1, <1>2, <2>1, <3>1
  <2>2. CASE k # 0
    <3>1. k \in 1..n /\ k # n
      BY <1>1, <2>2
    <3>2. Hecho(k) /\ Len(Campo(k)) = 4
      BY <1>2, <1>7, <3>1
    <3>3. f[k + 1] = f[k] \o Campo(k + 1)
      <4>1. k + 1 \in 1..n /\ k + 1 # 1 /\ (k + 1) - 1 = k
        BY <3>1
      <4>2. s[k + 1] = Campo(k + 1)
        BY <1>2
      <4> QED
        BY <1>5, <4>1, <4>2 DEF Parciales
    <3>4. /\ f[k] \o Campo(k + 1) \in Seq(0..255)
          /\ Len(f[k] \o Campo(k + 1)) = 4 * k + Len(Campo(k + 1))
          /\ \A x \in 1..4 * k + Len(Campo(k + 1)) :
                (f[k] \o Campo(k + 1))[x] =
                   IF x <= 4 * k THEN f[k][x] ELSE Campo(k + 1)[x - 4 * k]
      <4>1. Len(f[k]) = 4 * k
        BY <3>2
      <4>2. f[k] \in Seq(0..255) /\ Campo(k + 1) \in Seq(0..255)
        BY <1>2, <3>2
      <4>3. /\ f[k] \o Campo(k + 1) \in Seq(0..255)
            /\ Len(f[k] \o Campo(k + 1)) = Len(f[k]) + Len(Campo(k + 1))
            /\ \A x \in 1..Len(f[k]) + Len(Campo(k + 1)) :
                  (f[k] \o Campo(k + 1))[x] =
                     IF x <= Len(f[k]) THEN f[k][x] ELSE Campo(k + 1)[x - Len(f[k])]
        BY <4>2, ConcatProperties
      <4> QED
        BY <4>1, <4>3
    <3>5. ASSUME NEW i \in 1..k + 1, NEW j \in 1..Len(Campo(i))
          PROVE  f[k + 1][4 * (i - 1) + j] = Campo(i)[j]
      <4>1. CASE i = k + 1
        <5>1. 4 * k + j \in 1..4 * k + Len(Campo(k + 1)) /\ ~(4 * k + j <= 4 * k)
          BY <1>2, <4>1
        <5>2. (4 * k + j) - 4 * k = j
          OBVIOUS
        <5>3. f[k + 1][4 * k + j] = Campo(k + 1)[j]
          BY <3>3, <3>4, <5>1, <5>2
        <5>4. 4 * (i - 1) + j = 4 * k + j
          BY <4>1
        <5> QED
          BY <4>1, <5>3, <5>4
      <4>2. CASE i # k + 1
        <5>1. i \in 1..k /\ i \in 1..n /\ i # n
          BY <1>1, <3>1, <4>2
        <5>3. Len(Campo(i)) = 4
          BY <1>2, <5>1
        <5>2. /\ 4 * (i - 1) + j \in 1..4 * k + Len(Campo(k + 1))
              /\ 4 * (i - 1) + j <= 4 * k
          BY <1>2, <5>1, <5>3
        <5> QED
          BY <3>2, <3>3, <3>4, <5>1, <5>2
      <4> QED
        BY <4>1, <4>2
    <3>6. 4 * ((k + 1) - 1) = 4 * k
      OBVIOUS
    <3> QED
      BY <3>3, <3>4, <3>5, <3>6
  <2> QED
    BY <2>1, <2>2
<1>8. n \in S
  <2> HIDE DEF S
  <2> QED
    BY <1>1, <1>6, <1>7, Induccion
<1>9. Hecho(n)
  BY <1>1, <1>8
<1> QED
  BY <1>4, <1>5, <1>9 DEF Campo

-----------------------------------------------------------------------------
(* What is read from it                                                    *)

\* The offset of each field, from that of the one before.
Offsets(p, campos, stream) ==
  p = [i \in DOMAIN campos |->
         IF i = 1 THEN 0
         ELSE LET antes == p[i - 1]
              IN  antes + 4 + (IF campos[i - 1] \in Textos
                               THEN Palabra(stream, antes) ELSE 0)]

\* They are multiples of four: a string moves the offset on when there is
\* nothing left to read.
LEMMA CadaCuatro ==
  ASSUME NEW campos, NEW n, EsFormato(campos, n), NEW stream
  PROVE  /\ \E p : Offsets(p, campos, stream)
         /\ \A p : Offsets(p, campos, stream) => \A i \in 1..n : p[i] = 4 * (i - 1)
<1>1. n \in Nat \ {0} /\ DOMAIN campos = 1..n
  BY DEF EsFormato
<1>2. \A i \in 1..n : i # 1 => i - 1 \in 1..n /\ campos[i - 1] \notin Textos
  BY <1>1 DEF EsFormato
<1>3. Offsets([i \in 1..n |-> 4 * (i - 1)], campos, stream)
  <2> DEFINE p == [i \in 1..n |-> 4 * (i - 1)]
  <2>1. ASSUME NEW i \in 1..n
        PROVE  p[i] = IF i = 1 THEN 0
                      ELSE LET antes == p[i - 1]
                           IN  antes + 4 + (IF campos[i - 1] \in Textos
                                            THEN Palabra(stream, antes) ELSE 0)
    BY <1>1, <1>2
  <2> QED
    BY <1>1, <2>1 DEF Offsets
<1>4. ASSUME NEW p, Offsets(p, campos, stream)
      PROVE  \A i \in 1..n : p[i] = 4 * (i - 1)
  <2> DEFINE S == {k \in Nat : k + 1 \in 1..n => p[k + 1] = 4 * k}
  <2>1. 0 \in S
    BY <1>1, <1>4 DEF Offsets
  <2>2. ASSUME NEW k \in Nat, k \in S PROVE k + 1 \in S
    <3> SUFFICES ASSUME k + 2 \in 1..n PROVE p[k + 2] = 4 * (k + 1)
      OBVIOUS
    <3>1. k + 1 \in 1..n /\ p[k + 1] = 4 * k /\ (k + 2) - 1 = k + 1 /\ k + 2 # 1
      BY <1>1, <2>2
    <3>2. p[k + 2] = p[k + 1] + 4 + 0
      BY <1>1, <1>2, <1>4, <3>1 DEF Offsets
    <3> QED
      BY <3>1, <3>2
  <2>3. Nat \subseteq S
    <3> HIDE DEF S
    <3> QED
      BY <2>1, <2>2, Induccion
  <2> SUFFICES ASSUME NEW i \in 1..n PROVE p[i] = 4 * (i - 1)
    OBVIOUS
  <2>4. i - 1 \in Nat /\ (i - 1) + 1 = i
    OBVIOUS
  <2> QED
    BY <2>3, <2>4
<1> QED
  BY <1>3, <1>4

\* What a handler reads from a buffer is what its caller added to it, field by
\* field: every number and every string, in every message.
LEMMA Deserializado ==
  ASSUME NEW campos, NEW n, EsFormato(campos, n), NEW datos, EsMensaje(campos, datos)
  PROVE  Deserializar(campos, Serializar(campos, datos), 0) = datos
<1> DEFINE stream == Serializar(campos, datos)
           Campo(i) == Agregar(campos[i], datos[campos[i]])
           pos == CHOOSE p :
                    p = [i \in DOMAIN campos |->
                           IF i = 1 THEN 0
                           ELSE LET antes == p[i - 1]
                                IN  antes + 4 + (IF campos[i - 1] \in Textos
                                                 THEN Palabra(stream, antes) ELSE 0)]
           Dato(i) == LET cuatro == Palabra(stream, pos[i])
                      IN  IF campos[i] \in Textos
                          THEN Tramo(stream, pos[i] + 4, cuatro - 1) ELSE <<cuatro>>
<1>1. Deserializar(campos, stream, 0) =
        [campo \in Range(campos) |-> Dato(CHOOSE i \in DOMAIN campos : campos[i] = campo)]
  BY DEF Deserializar
<1>2. n \in Nat \ {0} /\ DOMAIN campos = 1..n
  BY DEF EsFormato
<1>3. \A i \in 1..n : pos[i] = 4 * (i - 1)
  <2>1. Offsets(pos, campos, stream)
    BY CadaCuatro DEF Offsets
  <2> HIDE DEF pos, stream
  <2> QED
    BY <2>1, CadaCuatro
<1>4. /\ stream \in Seq(0..255)
      /\ Len(stream) = 4 * (n - 1) + Len(Campo(n))
      /\ \A i \in 1..n : \A j \in 1..Len(Campo(i)) :
            stream[4 * (i - 1) + j] = Campo(i)[j]
  BY Serializado
<1> HIDE DEF pos, stream
<1>5. ASSUME NEW i \in 1..n PROVE Dato(i) = datos[campos[i]]
  <2> DEFINE valor == datos[campos[i]]
             desde == 4 * (i - 1)
  <2>1. EnCampo(campos[i], valor)
    BY <1>2 DEF EsMensaje, Range
  <2>2. desde \in Nat /\ pos[i] = desde /\ Len(stream) \in Nat
    BY <1>2, <1>3, <1>4
  <2>3. CASE campos[i] \notin Textos
    <3>1. /\ Campo(i) = buffer_add_uint32(valor[1]) /\ Len(Campo(i)) = 4
          /\ EnUint32(valor[1]) /\ valor = <<valor[1]>>
      BY <2>1, <2>3, Agregado
    <3>2. desde + 4 <= Len(stream)
      <4>1. CASE i = n
        <5>1. Len(Campo(n)) = 4
          BY <3>1, <4>1
        <5> HIDE DEF Campo
        <5> QED
          BY <1>2, <1>4, <4>1, <5>1
      <4>2. CASE i # n
        <5>1. Len(Campo(n)) \in Nat
          <6>1. EnCampo(campos[n], datos[campos[n]])
            BY <1>2 DEF EsMensaje, Range
          <6>2. Campo(n) \in Seq(0..255)
            BY <6>1, Agregado
          <6> QED
            BY <6>2, LenProperties
        <5> QED
          BY <1>2, <1>4, <4>2, <5>1
      <4> QED
        BY <4>1, <4>2
    <3>3. \A j \in 1..4 : stream[desde + j] = buffer_add_uint32(valor[1])[j]
      BY <1>4, <3>1
    <3> HIDE DEF desde, Campo, valor
    <3>4. Palabra(stream, pos[i]) = valor[1]
      BY <2>2, <3>1, <3>2, <3>3, LeerPalabra
    <3> QED
      BY <2>3, <3>1, <3>4 DEF valor
  <2>4. CASE campos[i] \in Textos
    <3>1. i = n
      BY <2>4 DEF EsFormato
    <3>2. /\ Len(Campo(i)) = 4 + Len(valor) + 1
          /\ \A j \in 1..4 : Campo(i)[j] = buffer_add_uint32(Len(valor) + 1)[j]
          /\ \A j \in 1..Len(valor) : Campo(i)[4 + j] = valor[j]
      BY <2>1, <2>4, Agregado, SMTT(20)
    <3>3. valor \in Seq(1..255) /\ EnUint32(Len(valor) + 1) /\ Len(valor) \in Nat
      BY <2>1, <2>4 DEF EnCampo
    <3>4. Len(stream) = desde + 4 + Len(valor) + 1
      <4>1. Len(Campo(n)) = 4 + Len(valor) + 1
        BY <3>1, <3>2
      <4> HIDE DEF Campo, valor
      <4> QED
        BY <1>2, <1>4, <3>1, <3>3, <4>1
    <3>5. \A j \in 1..4 : stream[desde + j] = buffer_add_uint32(Len(valor) + 1)[j]
      <4>1. \A j \in 1..4 : j \in 1..Len(Campo(i))
        <5> HIDE DEF Campo, valor
        <5> QED
          BY <3>2, <3>3
      <4> HIDE DEF Campo
      <4> QED
        BY <1>4, <3>2, <4>1
    <3>6. \A j \in 1..Len(valor) : stream[desde + 4 + j] = valor[j]
      <4> SUFFICES ASSUME NEW j \in 1..Len(valor)
                   PROVE  stream[desde + 4 + j] = valor[j]
        OBVIOUS
      <4>1. 4 + j \in 1..Len(Campo(i)) /\ desde + (4 + j) = desde + 4 + j
        <5> HIDE DEF Campo, valor
        <5> QED
          BY <2>2, <3>2, <3>3
      <4> QED
        BY <1>4, <3>2, <4>1
    <3> HIDE DEF desde, Campo, valor
    <3>7. Palabra(stream, pos[i]) = Len(valor) + 1
      <4>1. desde + 4 <= Len(stream)
        BY <2>2, <3>3, <3>4
      <4> QED
        BY <2>2, <3>3, <3>5, <4>1, LeerPalabra
    <3>8. Tramo(stream, desde + 4, Len(valor)) = valor
      <4>1. \A j \in 1..Len(valor) : desde + 4 + j <= Len(stream)
        BY <2>2, <3>3, <3>4
      <4>2. Tramo(stream, desde + 4, Len(valor)) = [j \in 1..Len(valor) |-> valor[j]]
        BY <3>6, <4>1 DEF Tramo
      <4> QED
        BY <3>3, <4>2
    <3> QED
      BY <2>2, <2>4, <3>3, <3>7, <3>8 DEF valor
  <2> QED
    BY <2>3, <2>4
<1> HIDE DEF Dato
<1>6. ASSUME NEW campo \in Range(campos)
      PROVE  Dato(CHOOSE i \in DOMAIN campos : campos[i] = campo) = datos[campo]
  <2>1. PICK i \in 1..n : campos[i] = campo
    BY <1>2 DEF Range
  <2>2. (CHOOSE k \in DOMAIN campos : campos[k] = campo) = i
    BY <1>2, <2>1 DEF EsFormato
  <2> QED
    BY <1>5, <2>1, <2>2
<1>7. datos \in [Range(campos) -> Seq(Nat)]
  BY DEF EsMensaje
<1> QED
  BY <1>1, <1>6, <1>7 DEF stream

-----------------------------------------------------------------------------
(* The packets and the answers                                             *)

\* The fields of the registers: eleven, none of them one that goes before.
LEMMA FormatoRegistros ==
  /\ EsFormato(t_register, 11)
  /\ EsFormato(<<"PID", "TID">> \o t_register, 13)
  /\ (<<"PID", "TID">> \o t_register)[13] \notin Textos
<1> DEFINE a == <<"PID", "TID">>
           t == a \o t_register
           S == {"PC", "AX", "BX", "CX", "DX", "EX", "FX", "GX", "HX", "base",
                 "limite", "PID", "TID"}
<1>1. \A i \in 1..11 :
         \/ i = 1 \/ i = 2 \/ i = 3 \/ i = 4 \/ i = 5 \/ i = 6 \/ i = 7 \/ i = 8
         \/ i = 9 \/ i = 10 \/ i = 11
  OBVIOUS
<1>2. /\ t_register[1] = "PC" /\ t_register[2] = "AX" /\ t_register[3] = "BX"
      /\ t_register[4] = "CX" /\ t_register[5] = "DX" /\ t_register[6] = "EX"
      /\ t_register[7] = "FX" /\ t_register[8] = "GX" /\ t_register[9] = "HX"
      /\ t_register[10] = "base" /\ t_register[11] = "limite"
  BY DEF t_register
<1>3. \A i \in 1..11 : t_register[i] \notin Textos \cup {"PID", "TID"}
  BY <1>1, <1>2 DEF Textos
<1>4. \A i, j \in 1..11 : t_register[i] = t_register[j] => i = j
  BY <1>1, <1>2
<1>5. t_register \in Seq(S) /\ Len(t_register) = 11 /\ DOMAIN t_register = 1..11
  BY DEF t_register
<1>6. a \in Seq(S) /\ Len(a) = 2 /\ a[1] = "PID" /\ a[2] = "TID"
  OBVIOUS
<1> HIDE DEF a, S
<1>7. /\ t \in Seq(S) /\ Len(t) = Len(a) + Len(t_register)
      /\ \A i \in 1..Len(a) + Len(t_register) :
            t[i] = IF i <= Len(a) THEN a[i] ELSE t_register[i - Len(a)]
  BY <1>5, <1>6, ConcatProperties
<1> HIDE DEF t
<1>8. /\ DOMAIN t = 1..13 /\ t[1] = "PID" /\ t[2] = "TID"
      /\ \A i \in 3..13 : i - 2 \in 1..11 /\ t[i] = t_register[i - 2]
  <2>1. Len(t) = 13
    BY <1>5, <1>6, <1>7
  <2>2. DOMAIN t = 1..13
    BY <1>7, <2>1, LenProperties
  <2> QED
    BY <1>5, <1>6, <1>7, <2>2
<1>9. \A i \in 1..13 : i = 1 \/ i = 2 \/ i \in 3..13
  OBVIOUS
<1>10. \A i \in 1..13 : t[i] \notin Textos
  <2>1. "PID" \notin Textos /\ "TID" \notin Textos
    BY DEF Textos
  <2> QED
    BY <1>3, <1>8, <1>9, <2>1
<1>11. \A i, j \in 1..13 : t[i] = t[j] => i = j
  <2>1. \A i, j \in 3..13 : t[i] = t[j] => i = j
    BY <1>4, <1>8
  <2>2. \A i \in 3..13 : t[i] \notin {"PID", "TID"}
    BY <1>3, <1>8
  <2> QED
    BY <1>8, <1>9, <2>1, <2>2
<1>12. EsFormato(t_register, 11)
  BY <1>3, <1>4, <1>5 DEF EsFormato
<1>13. EsFormato(t, 13)
  BY <1>8, <1>10, <1>11 DEF EsFormato
<1>14. t[13] \notin Textos
  BY <1>10
<1> QED
  BY <1>12, <1>13, <1>14 DEF t, a

\* The other formats.
LEMMA FormatoResto ==
  /\ EsFormato(<<"PID", "size", "priority", "filename">>, 4)
  /\ EsFormato(<<"PID", "priority", "filename">>, 3)
  /\ EsFormato(<<"PID", "TID">>, 2)
  /\ EsFormato(<<"PID", "TID", "PC">>, 3)
  /\ EsFormato(<<"instruccion">>, 1)
  /\ EsFormato(<<"motivo">>, 1)
  BY DEF EsFormato, Textos

\* What each packet and each answer holds; a handler reads the fields that its
\* caller adds, in their order.
LEMMA Formatos ==
  /\ \A o \in Ops :
        LET campos == Paquete[o].campos
            n == Paquete[o].palabras
        IN  /\ EsFormato(campos, n) /\ Lee[o] = campos
            /\ campos[n] \notin {"instruccion", "motivo"}
  /\ EsFormato(Contesta["GET_EXECUTION_CONTEXT"], 11)
  /\ Contesta["GET_EXECUTION_CONTEXT"][11] \notin Textos
  /\ Contesta["GET_INSTRUCTION"] = <<"instruccion">>
  /\ Contesta["DISPATCH"] = <<"motivo">>
  /\ EsFormato(<<"instruccion">>, 1) /\ EsFormato(<<"motivo">>, 1)
<1>1. Ops = {"PROCESS_CREATION", "THREAD_CREATION", "THREAD_KILL",
             "GET_EXECUTION_CONTEXT", "UPDATE_CONTEXT", "GET_INSTRUCTION", "DISPATCH"}
  BY DEF Ops, Codigo
<1>2. ASSUME NEW o \in Ops
      PROVE  LET campos == Paquete[o].campos
                 n == Paquete[o].palabras
             IN  /\ EsFormato(campos, n) /\ Lee[o] = campos
                 /\ campos[n] \notin {"instruccion", "motivo"}
  <2>1. CASE o = "PROCESS_CREATION"
    BY <2>1, FormatoResto DEF Paquete, Lee, PaqueteProceso, LeeProceso
  <2>2. CASE o = "THREAD_CREATION"
    BY <2>2, FormatoResto DEF Paquete, Lee, PaqueteHilo, LeeHilo
  <2>3. CASE o = "THREAD_KILL"
    BY <2>3, FormatoResto DEF Paquete, Lee, PaqueteBaja, LeeBaja
  <2>4. CASE o = "GET_EXECUTION_CONTEXT"
    BY <2>4, FormatoResto DEF Paquete, Lee, PaqueteContexto, LeeContexto
  <2>5. CASE o = "UPDATE_CONTEXT"
    <3>1. Paquete[o] = PaqueteRegistros /\ Lee[o] = LeeRegistros
      BY <2>5 DEF Paquete, Lee
    <3>2. /\ PaqueteRegistros.campos = <<"PID", "TID">> \o t_register
          /\ PaqueteRegistros.palabras = 13
      BY DEF PaqueteRegistros
    <3>3. LeeRegistros = <<"PID", "TID">> \o t_register
      BY DEF LeeRegistros
    <3> HIDE DEF Textos
    <3>4. (<<"PID", "TID">> \o t_register)[13] \notin Textos
      BY FormatoRegistros
    <3> QED
      BY <3>1, <3>2, <3>3, <3>4, FormatoRegistros DEF Textos
  <2>6. CASE o = "GET_INSTRUCTION"
    BY <2>6, FormatoResto DEF Paquete, Lee, PaqueteInstruccion, LeeInstruccion
  <2>7. CASE o = "DISPATCH"
    BY <2>7, FormatoResto DEF Paquete, Lee, PaqueteDispatch, LeeDispatch
  <2> QED
    BY <1>1, <2>1, <2>2, <2>3, <2>4, <2>5, <2>6, <2>7
<1>3. t_register[11] \notin Textos
  BY DEF t_register, Textos
<1> QED
  BY <1>2, <1>3, FormatoRegistros, FormatoResto
     DEF Contesta, Contexto, Instruccion, Motivo

\* What a message takes: four bytes a field, and a string its characters and
\* \0 besides.
LEMMA Largo ==
  ASSUME NEW campos, NEW n, EsFormato(campos, n), NEW datos, EsMensaje(campos, datos)
  PROVE  /\ Serializar(campos, datos) \in Seq(0..255)
         /\ Len(Serializar(campos, datos)) =
              4 * n + IF campos[n] \in Textos THEN Len(datos[campos[n]]) + 1 ELSE 0
<1> DEFINE a == Agregar(campos[n], datos[campos[n]])
           valor == datos[campos[n]]
<1>1. /\ Serializar(campos, datos) \in Seq(0..255)
      /\ Len(Serializar(campos, datos)) = 4 * (n - 1) + Len(a)
  BY Serializado
<1>2. n \in Nat \ {0} /\ campos[n] \in Range(campos)
  BY DEF EsFormato, Range
<1>3. EnCampo(campos[n], valor)
  BY <1>2 DEF EsMensaje
<1>4. /\ campos[n] \notin Textos => Len(a) = 4
      /\ campos[n] \in Textos => Len(a) = 4 + Len(valor) + 1
  BY <1>3, Agregado
<1>5. campos[n] \in Textos => Len(valor) \in Nat
  BY <1>3, LenProperties DEF EnCampo
<1> HIDE DEF a, valor
<1>6. Len(Serializar(campos, datos)) =
        4 * n + IF campos[n] \in Textos THEN Len(valor) + 1 ELSE 0
  <2>1. CASE campos[n] \in Textos
    BY <1>1, <1>2, <1>4, <1>5, <2>1
  <2>2. CASE campos[n] \notin Textos
    <3>1. Len(Serializar(campos, datos)) = 4 * n
      <4>1. Len(a) = 4
        BY <1>4, <2>2
      <4>2. 4 * (n - 1) + 4 = 4 * n
        BY <1>2
      <4> QED
        BY <1>1, <4>1, <4>2
    <3> QED
      BY <1>2, <2>2, <3>1
  <2> QED
    BY <2>1, <2>2
<1> QED
  BY <1>1, <1>6 DEF valor

\* A buffer that is filled exactly holds what is added to it and nothing else.
LEMMA Llenado ==
  ASSUME NEW S, NEW a \in Seq(S)
  PROVE  Llenar(Len(a), a) = a
<1>1. Llenar(Len(a), a) = [i \in 1..Len(a) |-> a[i]]
  BY DEF Llenar
<1> QED
  BY <1>1

\* The room every caller counts by hand is what its fields take, so nothing is
\* written past the buffer and nothing in it stays unwritten; and its handler
\* reads what was called.
LEMMA Paquetes ==
  ASSUME NEW o \in Ops, NEW datos, EsMensaje(Paquete[o].campos, datos)
  PROVE  LET c == [op |-> o, datos |-> datos]
             stream == Serializar(Paquete[o].campos, datos)
         IN  /\ stream \in Seq(0..255) /\ Len(stream) = Tamano(c)
             /\ Llenar(Tamano(c), stream) = stream
             /\ Deserializar(Lee[o], stream, 0) = datos
<1> DEFINE campos == Paquete[o].campos
           n == Paquete[o].palabras
           stream == Serializar(campos, datos)
           c == [op |-> o, datos |-> datos]
<1>1. EsFormato(campos, n) /\ Lee[o] = campos /\ campos[n] \notin {"instruccion", "motivo"}
  BY Formatos
<1>2. c.op = o /\ c.datos = datos
  OBVIOUS
<1>3. /\ Tamano(c) = 4 * n + IF "filename" \in DOMAIN datos
                             THEN Len(datos["filename"]) + 1 ELSE 0
  BY <1>2 DEF Tamano
<1> HIDE DEF campos, n, c
<1>4. DOMAIN datos = Range(campos)
  BY DEF EsMensaje, campos
<1>5. EsMensaje(campos, datos)
  BY DEF campos
<1>6. /\ stream \in Seq(0..255)
      /\ Len(stream) = 4 * n + IF campos[n] \in Textos THEN Len(datos[campos[n]]) + 1 ELSE 0
  BY <1>1, <1>5, Largo
<1>7. campos[n] \in Textos <=> "filename" \in Range(campos)
  BY <1>1 DEF EsFormato, Textos, Range
<1>8. campos[n] \in Textos => campos[n] = "filename"
  BY <1>1 DEF Textos
<1>9. Len(stream) = Tamano(c)
  BY <1>3, <1>4, <1>6, <1>7, <1>8
<1>10. Deserializar(campos, stream, 0) = datos
  BY <1>1, <1>5, Deserializado
<1>11. Llenar(Len(stream), stream) = stream
  <2> HIDE DEF stream
  <2> QED
    BY <1>6, Llenado
<1> QED
  BY <1>1, <1>6, <1>9, <1>10, <1>11 DEF campos, c

\* The same for the answers.
LEMMA Contestaciones ==
  ASSUME NEW o \in DOMAIN Contesta, NEW r, EsMensaje(Contesta[o], r)
  PROVE  LET stream == Serializar(Contesta[o], r)
         IN  /\ stream \in Seq(0..255) /\ Len(stream) = TamanoRespuesta(o, r)
             /\ Llenar(TamanoRespuesta(o, r), stream) = stream
             /\ Deserializar(Contesta[o], stream, 0) = r
<1> DEFINE campos == Contesta[o]
           stream == Serializar(campos, r)
<1>1. o \in {"GET_EXECUTION_CONTEXT", "GET_INSTRUCTION", "DISPATCH"}
  BY DEF Contesta
<1>2. PICK n : EsFormato(campos, n)
  BY <1>1, Formatos
<1>3. /\ stream \in Seq(0..255) /\ Deserializar(campos, stream, 0) = r
  BY <1>2, Largo, Deserializado
<1>4. Len(stream) = TamanoRespuesta(o, r)
  <2>1. CASE o = "GET_EXECUTION_CONTEXT"
    <3>1. EsFormato(campos, 11) /\ campos[11] \notin Textos
      BY <2>1, Formatos
    <3> HIDE DEF campos
    <3>2. EsMensaje(campos, r)
      BY DEF campos
    <3>3. Len(stream) = 4 * 11 + 0
      BY <3>1, <3>2, Largo, ZenonT(60)
    <3>4. TamanoRespuesta(o, r) = 4 * 11
      BY <2>1 DEF TamanoRespuesta
    <3> QED
      BY <3>3, <3>4
  <2>2. CASE o = "GET_INSTRUCTION"
    <3>1. EsFormato(campos, 1) /\ campos[1] = "instruccion" /\ "instruccion" \in Textos
      BY <2>2, Formatos DEF Textos
    <3>2. EsMensaje(campos, r)
      OBVIOUS
    <3> HIDE DEF campos
    <3>3. Len(stream) = 4 * 1 + (Len(r["instruccion"]) + 1)
      BY <3>1, <3>2, Largo
    <3>4. EnCampo("instruccion", r["instruccion"])
      <4>1. "instruccion" \in Range(campos)
        BY <3>1 DEF EsFormato, Range
      <4> QED
        BY <3>2, <4>1 DEF EsMensaje
    <3>5. Len(r["instruccion"]) \in Nat
      BY <3>1, <3>4, LenProperties DEF EnCampo
    <3>6. TamanoRespuesta(o, r) = 4 + Len(r["instruccion"]) + 1
      BY <2>2 DEF TamanoRespuesta
    <3> HIDE DEF stream
    <3> QED
      BY <3>3, <3>5, <3>6
  <2>3. CASE o = "DISPATCH"
    <3>1. EsFormato(campos, 1) /\ campos[1] = "motivo" /\ "motivo" \in Textos
      BY <2>3, Formatos DEF Textos
    <3>2. EsMensaje(campos, r)
      OBVIOUS
    <3> HIDE DEF campos
    <3>3. Len(stream) = 4 * 1 + (Len(r["motivo"]) + 1)
      BY <3>1, <3>2, Largo
    <3>4. EnCampo("motivo", r["motivo"])
      <4>1. "motivo" \in Range(campos)
        BY <3>1 DEF EsFormato, Range
      <4> QED
        BY <3>2, <4>1 DEF EsMensaje
    <3>5. Len(r["motivo"]) \in Nat
      BY <3>1, <3>4, LenProperties DEF EnCampo
    <3>6. TamanoRespuesta(o, r) = 4 + Len(r["motivo"]) + 1
      BY <2>3 DEF TamanoRespuesta
    <3> HIDE DEF stream
    <3> QED
      BY <3>3, <3>5, <3>6
  <2> QED
    BY <1>1, <2>1, <2>2, <2>3
<1>5. Llenar(Len(stream), stream) = stream
  <2> HIDE DEF stream
  <2> QED
    BY <1>3, Llenado
<1> QED
  BY <1>3, <1>4, <1>5

=============================================================================
