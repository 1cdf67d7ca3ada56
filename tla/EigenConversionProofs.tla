----------------------- MODULE EigenConversionProofs -----------------------
(***************************************************************************)
(* That a matrix is read exactly from as many numbers as it has places, and *)
(* is what it was when it has been written and read again, for matrices of *)
(* any dimensions, any nodes and unsigned ints of any width.               *)
(***************************************************************************)
EXTENDS EigenCalls, SequenceTheorems, FiniteSetTheorems, TLAPS

\* The place of the last value.
LEMMA LastPosition ==
  ASSUME NEW rows \in Nat \ {0}, NEW cols \in Nat \ {0}
  PROVE  Position(rows, cols, rows, cols) = rows * cols
<1>1. (rows - 1) * cols = rows * cols - cols
  OBVIOUS
<1>2. rows * cols \in Int
  OBVIOUS
<1> QED
  BY <1>1, <1>2 DEF Position

\* The sizes are compared modulo UintMod: a product that wraps is smaller
\* than the matrix, and then a value is missing that the loop reads.
THEOREM SizedExactly ==
  ASSUME NEW rows \in Nat, NEW cols \in Nat, NEW S, NEW values \in Seq(S),
         Sized(rows, cols, values).ok
  PROVE  Len(values) = rows * cols
<1>1. Len(values) = (rows * cols) % UintMod /\ Fill(rows, cols, values).ok
  BY DEF Sized, Rejected, Product
<1>2. rows * cols \in Nat
  OBVIOUS
<1>3. CASE rows = 0 \/ cols = 0
  <2>1. rows * cols = 0
    BY <1>3
  <2>2. 0 % UintMod = 0
    BY UintAssumption
  <2> QED
    BY <1>1, <2>1, <2>2
<1>4. CASE rows # 0 /\ cols # 0
  <2>1. Position(rows, cols, rows, cols) \in DOMAIN values
    BY <1>1, <1>4 DEF Fill, Rejected
  <2>2. rows * cols \in 1..Len(values)
    BY <1>4, <2>1, LastPosition, LenProperties
  <2>3. \A n \in Nat : n % UintMod <= n
    BY UintAssumption
  <2>4. Len(values) <= rows * cols
    BY <1>1, <1>2, <2>3
  <2> QED
    BY <1>2, <2>2, <2>4, LenProperties
<1> QED
  BY <1>3, <1>4

\* Where encode takes the value that decode puts to a place.
LEMMA Places ==
  ASSUME NEW rows \in Nat \ {0}, NEW cols \in Nat \ {0}, NEW k \in 1..(rows * cols)
  PROVE  LET i == ((k - 1) \div cols) + 1
             j == ((k - 1) % cols) + 1
         IN i \in 1..rows /\ j \in 1..cols /\ Position(i, j, rows, cols) = k
  BY DEF Position

\* A matrix that is not empty is written as the values that it was read from,
\* in their order.
THEOREM WrittenAsRead ==
  ASSUME NEW rows \in Nat, NEW cols \in Nat, NEW S, NEW values \in Seq(S), values # << >>,
         Sized(rows, cols, values).ok
  PROVE  Encode(Sized(rows, cols, values)) = Seq_(values)
<1>1. Len(values) = rows * cols /\ Len(values) \in Nat \ {0}
  BY SizedExactly, EmptySeq
<1>2. rows # 0 /\ cols # 0
  BY <1>1
<1> DEFINE at == [ij \in (1..rows) \X (1..cols) |-> values[Position(ij[1], ij[2], rows, cols)]]
<1>3. Sized(rows, cols, values) = Matrix(rows, cols, at)
  BY DEF Sized, Fill, Rejected
<1>4. Encode(Matrix(rows, cols, at)) =
        Seq_([k \in 1..(rows * cols) |-> at[<<((k - 1) \div cols) + 1, ((k - 1) % cols) + 1>>]])
  BY <1>1 DEF Encode, Matrix
<1> DEFINE i(k) == ((k - 1) \div cols) + 1
           j(k) == ((k - 1) % cols) + 1
<1>5. ASSUME NEW k \in 1..(rows * cols)
      PROVE  at[<<i(k), j(k)>>] = values[k]
  <2>1. i(k) \in 1..rows /\ j(k) \in 1..cols /\ Position(i(k), j(k), rows, cols) = k
    BY <1>2, Places
  <2> HIDE DEF i, j
  <2> QED
    BY <2>1
<1> HIDE DEF at
<1>6. [k \in 1..(rows * cols) |-> at[<<i(k), j(k)>>]] = [k \in 1..(rows * cols) |-> values[k]]
  <2> HIDE DEF i, j
  <2> QED
    BY <1>5
<1>7. [k \in 1..Len(values) |-> values[k]] = values
  OBVIOUS
<1>8. Encode(Matrix(rows, cols, at)) = Seq_([k \in 1..Len(values) |-> values[k]])
  BY <1>1, <1>4, <1>6
<1> QED
  BY <1>3, <1>7, <1>8
-----------------------------------------------------------------------------
\* What Sized returns has the dimensions that it was given.
LEMMA SizedDimensions ==
  ASSUME NEW r, NEW c, NEW values, Sized(r, c, values).ok
  PROVE  Sized(r, c, values).rows = r /\ Sized(r, c, values).cols = c
  BY DEF Sized, Fill, Matrix, Rejected

-----------------------------------------------------------------------------
\* The value of a place is one of the values.
LEMMA Inside ==
  ASSUME NEW rows \in Nat, NEW cols \in Nat, NEW i \in 1..rows, NEW j \in 1..cols
  PROVE  Position(i, j, rows, cols) \in 1..(rows * cols)
<1>1. i \in Nat \ {0} /\ rows - i \in Nat /\ j \in Nat \ {0} /\ cols - j \in Nat
  OBVIOUS
<1>2. (i - 1) * cols \in Nat /\ (rows - i) * cols \in Nat
  BY <1>1
<1>3. rows * cols = (i - 1) * cols + (rows - i) * cols + cols
  BY <1>1
<1>4. Position(i, j, rows, cols) = (i - 1) * cols + j
  BY DEF Position
<1> HIDE DEF Position
<1> QED
  BY <1>1, <1>2, <1>3, <1>4

\* When a matrix has been filled, all values that it was filled with are numbers.
LEMMA SizedNumbers ==
  ASSUME NEW rows \in Nat, NEW cols \in Nat, NEW S, NEW values \in Seq(S),
         Sized(rows, cols, values).ok
  PROVE  \A k \in DOMAIN values : IsNumber(values[k])
<1> SUFFICES ASSUME NEW k \in DOMAIN values
             PROVE  IsNumber(values[k])
  OBVIOUS
<1>1. Len(values) = rows * cols /\ k \in 1..(rows * cols)
  BY SizedExactly, LenProperties
<1>2. rows # 0 /\ cols # 0
  BY <1>1
<1> DEFINE i == ((k - 1) \div cols) + 1
           j == ((k - 1) % cols) + 1
<1>3. i \in 1..rows /\ j \in 1..cols /\ Position(i, j, rows, cols) = k
  BY <1>1, <1>2, Places
<1>4. Fill(rows, cols, values).ok
  BY DEF Sized, Rejected
<1> HIDE DEF i, j
<1> QED
  BY <1>3, <1>4 DEF Fill, Rejected

\* As many numbers as there are places fill a matrix, when an unsigned int counts them.
LEMMA SizedOfNumbers ==
  ASSUME NEW rows \in Nat, NEW cols \in Nat, NEW S, NEW values \in Seq(S),
         Len(values) = rows * cols, Len(values) < UintMod, \A k \in DOMAIN values : IsNumber(values[k])
  PROVE  Sized(rows, cols, values).ok
<1>1. rows * cols \in Nat /\ (rows * cols) % UintMod = rows * cols
  BY UintAssumption
<1>2. \A i \in 1..rows, j \in 1..cols : Position(i, j, rows, cols) \in DOMAIN values
  BY Inside, LenProperties
<1>3. Fill(rows, cols, values).ok
  BY <1>2 DEF Fill, Matrix
<1> QED
  BY <1>1, <1>3 DEF Sized, Product

\* A number of values that is a product can be divided by its factors.
LEMMA Factors ==
  ASSUME NEW r \in Nat, NEW c \in Nat \ {0}
  PROVE  (r * c) % c = 0 /\ (r * c) \div c = r
  OBVIOUS
LEMMA Quotient ==
  ASSUME NEW n \in Nat, NEW c \in Nat \ {0}, n % c = 0
  PROVE  n \div c \in 0..n /\ n \div c \in Nat /\ (n \div c) * c = n
  OBVIOUS

\* The second of two elements.
LEMMA Second ==
  ASSUME NEW S, NEW s \in Seq(S), Len(s) = 2
  PROVE  2 \in DOMAIN s /\ s # << >>
  OBVIOUS

\* A node that is read as a map from indices is a node like the others.
LEMMA IndexedIsNode ==
  ASSUME NEW n, IsNode(n)
  PROVE  IsNode(Indexed(n))
<1> DEFINE size == Cardinality(DOMAIN n.m)
<1> SUFFICES ASSUME n.t = "map", size > 0, DOMAIN n.m = {IndexKey[i] : i \in 1..size}
             PROVE  IsNode(Seq_([i \in 1..size |-> n.m[IndexKey[i]]]))
  BY DEF Indexed
<1>1. IsFiniteSet(DOMAIN n.m) /\ size < UintMod /\ \A key \in DOMAIN n.m : Sound(n.m[key])
  BY DEF IsNode, Sound
<1>2. size \in Nat
  BY <1>1, FS_CardinalityType
<1> HIDE DEF size
<1> DEFINE s == [i \in 1..size |-> n.m[IndexKey[i]]]
<1>3. s \in Seq({s[i] : i \in DOMAIN s}) /\ Len(s) = size /\ DOMAIN s = 1..size
  BY <1>2
<1>4. \A i \in DOMAIN s : Sound(s[i])
  BY <1>1
<1>5. IsNode(Seq_(s))
  <2> HIDE DEF s
  <2>1. Seq_(s).t = "seq" /\ Seq_(s).s = s
    BY DEF Seq_
  <2>2. Sound(Seq_(s))
    BY <1>1, <1>3, <2>1 DEF Sound
  <2> QED
    BY <1>4, <2>1, <2>2 DEF IsNode
<1> QED
  BY <1>5


\* A size is a natural number that is also an unsigned int.
LEMMA SizeIsNat ==
  ASSUME NEW size, IsInt(size)
  PROVE  Number[size.v] \in Nat /\ IsUint(size)
<1>1. IsNumber(size) /\ Number[size.v] \in Nat /\ Number[size.v] < UintMod \div 2
  BY NumberAssumption DEF IsInt, IsNumber
<1>2. UintMod \div 2 <= UintMod /\ UintMod \div 2 \in Int /\ UintMod \in Int
  BY UintAssumption
<1> QED
  BY <1>1, <1>2 DEF IsUint

\* The sizes and the values of a matrix that decode returns.
LEMMA DecodedMatrix ==
  ASSUME NEW n, IsNode(n), NEW rows \in Dims, NEW cols \in Dims, DecodeSequence(n, rows, cols).ok
  PROVE  /\ n.t = "seq"
         /\ \E S : \E values \in Seq(S), r, c \in Nat :
              /\ DecodeSequence(n, rows, cols) = Sized(r, c, values)
              /\ Len(values) < UintMod /\ Given(r, rows) /\ Given(c, cols)
              /\ \/ /\ n.s # << >> => n.s[1].t # "seq" /\ <<rows, cols>> # <<Dynamic, Dynamic>>
                    /\ values = n.s
                    /\ r \in 0..Len(values) \cup {rows} /\ c \in 0..Len(values) \cup {cols}
                 \/ /\ Len(n.s) = 2 /\ n.s[1].t = "seq" /\ n.s[2].t = "seq" /\ Len(n.s[1].s) = 2
                    /\ \A i \in 1..2 : IsInt(n.s[1].s[i])
                    /\ values = n.s[2].s /\ r = Number[n.s[1].s[1].v] /\ c = Number[n.s[1].s[2].v]
<1> DEFINE S(q) == {q.s[i] : i \in DOMAIN q.s}
<1>1. n.t = "seq"
  BY DEF DecodeSequence, Rejected
<1>2. n.s \in Seq(S(n)) /\ Len(n.s) \in Nat /\ Len(n.s) < UintMod /\ DOMAIN n.s = 1..Len(n.s)
  BY <1>1, LenProperties DEF IsNode, Sound
<1>3. rows = Dynamic \/ rows \in Nat \ {0}
  BY DEF Dims
<1>4. cols = Dynamic \/ cols \in Nat \ {0}
  BY DEF Dims
<1>5. CASE n.s = << >>
  <2>1. DecodeSequence(n, rows, cols) = DecodeEmpty(rows, cols)
    BY <1>1, <1>5 DEF DecodeSequence
  <2>2. Dynamic \in {rows, cols}
    BY <2>1 DEF DecodeEmpty, Rejected
  <2>3. PICK r, c \in Nat :
           /\ DecodeEmpty(rows, cols) = Sized(r, c, << >>)
           /\ Given(r, rows) /\ Given(c, cols) /\ r \in {0, rows} /\ c \in {0, cols}
    BY <2>2, <1>3, <1>4 DEF DecodeEmpty, Given
  <2>4. \E values \in Seq(S(n)), p, q \in Nat :
          /\ p = r /\ q = c /\ values = n.s /\ Len(values) = 0
          /\ DecodeSequence(n, rows, cols) = Sized(p, q, values)
    BY <1>2, <1>5, <2>1, <2>3
  <2>5. \A i \in {r, c} : i = 0 => i \in 0..0
    BY <2>3
  <2> QED
    BY <1>1, <1>2, <1>5, <2>3, <2>4, <2>5
<1>6. CASE n.s # << >> /\ n.s[1].t = "seq"
  <2>1. DecodeSequence(n, rows, cols) = DecodeGiven(n, rows, cols)
    BY <1>1, <1>6 DEF DecodeSequence
  <2> DEFINE r == Number[n.s[1].s[1].v]
             c == Number[n.s[1].s[2].v]
  <2>2. /\ Len(n.s) = 2 /\ Len(n.s[1].s) = 2 /\ n.s[2].t = "seq"
        /\ \A i \in 1..2 : IsInt(n.s[1].s[i])
        /\ Given(r, rows) /\ Given(c, cols)
        /\ DecodeGiven(n, rows, cols) = Sized(r, c, n.s[2].s)
    <3>1. DecodeGiven(n, rows, cols) # Rejected
      BY <2>1 DEF Rejected
    <3> QED
      BY <3>1 DEF DecodeGiven
  <2>3. r \in Nat /\ c \in Nat
    <3>1. \A i \in 1..2 : IsInt(n.s[1].s[i])
      BY <2>2
    <3>2. 1 \in 1..2 /\ 2 \in 1..2
      OBVIOUS
    <3>3. IsInt(n.s[1].s[1]) /\ IsInt(n.s[1].s[2])
      BY <3>1, <3>2
    <3> QED
      BY <3>3, SizeIsNat
  <2>4. 2 \in DOMAIN n.s
    BY <1>2, <2>2, Second
  <2>5. n.s[2].s \in Seq(S(n.s[2])) /\ Len(n.s[2].s) < UintMod
    BY <1>1, <2>2, <2>4 DEF IsNode, Sound
  <2> HIDE DEF r, c
  <2>6. \E values \in Seq(S(n.s[2])), p, q \in Nat :
          p = r /\ q = c /\ values = n.s[2].s /\ DecodeSequence(n, rows, cols) = Sized(p, q, values)
    BY <2>1, <2>2, <2>3, <2>5
  <2> QED
    BY <1>1, <1>6, <2>2, <2>5, <2>6 DEF r, c
<1>7. CASE n.s # << >> /\ n.s[1].t # "seq"
  <2>1. DecodeSequence(n, rows, cols) = DecodeDeduced(n, rows, cols)
    BY <1>1, <1>7 DEF DecodeSequence
  <2>2. PICK r, c \in Nat : /\ DecodeDeduced(n, rows, cols) = Sized(r, c, n.s)
                           /\ Given(r, rows) /\ Given(c, cols) /\ <<rows, cols>> # <<Dynamic, Dynamic>>
                           /\ r \in 0..Len(n.s) \cup {rows} /\ c \in 0..Len(n.s) \cup {cols}
    <3>1. CASE rows = Dynamic /\ cols = Dynamic
      BY <2>1, <3>1 DEF DecodeDeduced, Rejected
    <3>2. CASE rows = Dynamic /\ cols # Dynamic
      <4>1. Len(n.s) % cols = 0 /\ DecodeDeduced(n, rows, cols) = Sized(Len(n.s) \div cols, cols, n.s)
        BY <2>1, <3>2 DEF DecodeDeduced, Rejected
      <4>2. cols \in Nat \ {0} /\ Len(n.s) \div cols \in Nat /\ Len(n.s) \div cols \in 0..Len(n.s)
        BY <1>2, <1>4, <3>2, <4>1, Quotient
      <4>3. Len(n.s) \div cols \in Nat /\ cols \in Nat
        BY <4>2
      <4>4. Given(Len(n.s) \div cols, rows) /\ Given(cols, cols) /\ <<rows, cols>> # <<Dynamic, Dynamic>>
        BY <3>2 DEF Given
      <4> QED
        BY <4>1, <4>2, <4>3, <4>4
    <3>3. CASE rows # Dynamic /\ cols = Dynamic
      <4>1. Len(n.s) % rows = 0 /\ DecodeDeduced(n, rows, cols) = Sized(rows, Len(n.s) \div rows, n.s)
        BY <2>1, <3>3 DEF DecodeDeduced, Rejected
      <4>2. rows \in Nat \ {0} /\ Len(n.s) \div rows \in Nat /\ Len(n.s) \div rows \in 0..Len(n.s)
        BY <1>2, <1>3, <3>3, <4>1, Quotient
      <4>3. Len(n.s) \div rows \in Nat /\ rows \in Nat
        BY <4>2
      <4>4. Given(Len(n.s) \div rows, cols) /\ Given(rows, rows) /\ <<rows, cols>> # <<Dynamic, Dynamic>>
        BY <3>3 DEF Given
      <4> QED
        BY <4>1, <4>2, <4>3, <4>4
    <3>4. CASE rows # Dynamic /\ cols # Dynamic
      BY <3>4, <1>3, <1>4 DEF DecodeDeduced, Given
    <3> QED
      BY <3>1, <3>2, <3>3, <3>4
  <2> QED
    BY <1>1, <1>2, <1>7, <2>1, <2>2
<1> QED
  BY <1>5, <1>6, <1>7


-----------------------------------------------------------------------------
\* Of a sequence of numbers of which there are as many as places, decode makes a matrix.
LEMMA DeducedOfNumbers ==
  ASSUME NEW n, NEW rows \in Dims, NEW cols \in Dims, NEW S, n.s \in Seq(S), Len(n.s) < UintMod,
         \A i \in DOMAIN n.s : IsNumber(n.s[i]), n.s # << >>, <<rows, cols>> # <<Dynamic, Dynamic>>,
         NEW r \in Nat, NEW c \in Nat, r * c = Len(n.s), Given(r, rows), Given(c, cols)
  PROVE  DecodeDeduced(n, rows, cols) = Sized(r, c, n.s) /\ Sized(r, c, n.s).ok
<1>1. Sized(r, c, n.s).ok
  BY SizedOfNumbers
<1>2. Len(n.s) # 0
  BY EmptySeq
<1>3. r \in Nat \ {0} /\ c \in Nat \ {0}
  BY <1>2
<1>4. c * r = r * c
  BY <1>3
<1>5. CASE rows = Dynamic /\ cols = c /\ cols # Dynamic
  <2>1. Len(n.s) % cols = 0 /\ Len(n.s) \div cols = r
    BY <1>3, <1>5, Factors
  <2> QED
    BY <1>1, <1>5, <2>1 DEF DecodeDeduced
<1>6. CASE rows = r /\ cols = Dynamic /\ rows # Dynamic
  <2>1. Len(n.s) % rows = 0 /\ Len(n.s) \div rows = c
    BY <1>3, <1>4, <1>6, Factors
  <2> QED
    BY <1>1, <1>6, <2>1 DEF DecodeDeduced
<1>7. CASE rows = r /\ cols = c
  BY <1>1, <1>3, <1>7, DynamicAssumption DEF DecodeDeduced
<1> QED
  BY <1>3, <1>5, <1>6, <1>7, DynamicAssumption DEF Given

\* A matrix is read exactly from a flat sequence of as many numbers as it has
\* places, or from such a sequence after its sizes.
LEMMA DecodesExactly ==
  ASSUME NEW n, IsNode(n), NEW rows \in Dims, NEW cols \in Dims
  PROVE  DecodeSequence(n, rows, cols).ok <=>
           n.t = "seq" /\ (Flat(n, rows, cols) \/ WithSizes(n, rows, cols))
<1>1. ASSUME DecodeSequence(n, rows, cols).ok
      PROVE  n.t = "seq" /\ (Flat(n, rows, cols) \/ WithSizes(n, rows, cols))
  <2>1. n.t = "seq"
    BY <1>1, DecodedMatrix
  <2>2. PICK S : \E values \in Seq(S), r, c \in Nat :
          /\ DecodeSequence(n, rows, cols) = Sized(r, c, values)
          /\ Len(values) < UintMod /\ Given(r, rows) /\ Given(c, cols)
          /\ \/ /\ n.s # << >> => n.s[1].t # "seq" /\ <<rows, cols>> # <<Dynamic, Dynamic>>
                /\ values = n.s
                /\ r \in 0..Len(values) \cup {rows} /\ c \in 0..Len(values) \cup {cols}
             \/ /\ Len(n.s) = 2 /\ n.s[1].t = "seq" /\ n.s[2].t = "seq" /\ Len(n.s[1].s) = 2
                /\ \A i \in 1..2 : IsInt(n.s[1].s[i])
                /\ values = n.s[2].s /\ r = Number[n.s[1].s[1].v] /\ c = Number[n.s[1].s[2].v]
    BY <1>1, DecodedMatrix
  <2>3. PICK values \in Seq(S), r \in Nat, c \in Nat :
          /\ DecodeSequence(n, rows, cols) = Sized(r, c, values)
          /\ Len(values) < UintMod /\ Given(r, rows) /\ Given(c, cols)
          /\ \/ /\ n.s # << >> => n.s[1].t # "seq" /\ <<rows, cols>> # <<Dynamic, Dynamic>>
                /\ values = n.s
                /\ r \in 0..Len(values) \cup {rows} /\ c \in 0..Len(values) \cup {cols}
             \/ /\ Len(n.s) = 2 /\ n.s[1].t = "seq" /\ n.s[2].t = "seq" /\ Len(n.s[1].s) = 2
                /\ \A i \in 1..2 : IsInt(n.s[1].s[i])
                /\ values = n.s[2].s /\ r = Number[n.s[1].s[1].v] /\ c = Number[n.s[1].s[2].v]
    BY <2>2
  <2>4. Sized(r, c, values).ok
    BY <1>1, <2>3
  <2>5. Len(values) = r * c /\ \A k \in DOMAIN values : IsNumber(values[k])
    BY <2>4, SizedExactly, SizedNumbers
  <2>6. CASE /\ n.s # << >> => n.s[1].t # "seq" /\ <<rows, cols>> # <<Dynamic, Dynamic>>
             /\ values = n.s
             /\ r \in 0..Len(values) \cup {rows} /\ c \in 0..Len(values) \cup {cols}
    <3>1. Len(n.s) > 0 => n.s # << >>
      OBVIOUS
    <3>2. r # Dynamic /\ c # Dynamic
      BY <2>3, DynamicAssumption
    <3>3. r \in 0..Len(n.s) \cup ({rows, cols} \ {Dynamic}) /\ c \in 0..Len(n.s) \cup ({rows, cols} \ {Dynamic})
      BY <2>6, <3>2
    <3>4. r * c = Len(n.s) /\ Given(r, rows) /\ Given(c, cols)
      BY <2>3, <2>5, <2>6
    <3> QED
      BY <2>1, <2>5, <2>6, <3>1, <3>3, <3>4 DEF Flat
  <2>7. CASE /\ Len(n.s) = 2 /\ n.s[1].t = "seq" /\ n.s[2].t = "seq" /\ Len(n.s[1].s) = 2
             /\ \A i \in 1..2 : IsInt(n.s[1].s[i])
             /\ values = n.s[2].s /\ r = Number[n.s[1].s[1].v] /\ c = Number[n.s[1].s[2].v]
    BY <2>1, <2>3, <2>5, <2>7 DEF WithSizes
  <2> QED
    BY <2>3, <2>6, <2>7
<1>2. ASSUME n.t = "seq", Flat(n, rows, cols)
      PROVE  DecodeSequence(n, rows, cols).ok
  <2> DEFINE S == {n.s[i] : i \in DOMAIN n.s}
  <2>1. n.s \in Seq(S) /\ Len(n.s) < UintMod
    BY <1>2 DEF IsNode, Sound
  <2>2. ({rows, cols} \ {Dynamic}) \subseteq Nat \ {0}
    BY DEF Dims
  <2>3. Len(n.s) \in Nat
    BY <2>1, LenProperties
  <2>4. PICK r, c \in 0..Len(n.s) \cup ({rows, cols} \ {Dynamic}) :
               r * c = Len(n.s) /\ Given(r, rows) /\ Given(c, cols)
    BY <1>2 DEF Flat
  <2>5. r \in Nat /\ c \in Nat
    <3>1. \A number \in Nat : 0..number \subseteq Nat
      OBVIOUS
    <3>2. 0..Len(n.s) \subseteq Nat
      BY <2>3, <3>1
    <3> QED
      BY <2>2, <2>4, <3>2
  <2>6. CASE n.s = << >>
    <3>1. Len(n.s) = 0
      BY <2>6
    <3>2. r = 0 \/ c = 0
      BY <2>4, <2>5, <3>1
    <3>3. Dynamic \in {rows, cols}
      BY <2>2, <2>4, <3>2 DEF Given
    <3> DEFINE Resized(static) == IF static = Dynamic THEN 0 ELSE static
    <3>4. DecodeSequence(n, rows, cols) = Sized(Resized(rows), Resized(cols), << >>)
      BY <1>2, <2>6, <3>3 DEF DecodeSequence, DecodeEmpty
    <3>5. Resized(rows) \in Nat /\ Resized(cols) \in Nat /\ (Resized(rows) = 0 \/ Resized(cols) = 0)
      BY <3>3 DEF Dims
    <3> HIDE DEF Resized
    <3>6. Resized(rows) * Resized(cols) = 0
      BY <3>5
    <3>7. << >> \in Seq(S) /\ Len(<< >>) = 0 /\ 0 < UintMod
      BY UintAssumption
    <3>8. \A k \in DOMAIN << >> : IsNumber((<< >>)[k])
      OBVIOUS
    <3>9. Sized(Resized(rows), Resized(cols), << >>).ok
      <4> HIDE DEF S
      <4> QED
        BY <3>5, <3>6, <3>7, <3>8, SizedOfNumbers
    <3> QED
      BY <3>4, <3>9
  <2>7. CASE n.s # << >>
    <3>1. 1 \in DOMAIN n.s /\ Len(n.s) > 0
      BY <2>1, <2>7
    <3>2. n.s[1].t # "seq"
      BY <1>2, <3>1 DEF Flat, IsNumber
    <3>3. DecodeSequence(n, rows, cols) = DecodeDeduced(n, rows, cols)
      BY <1>2, <2>7, <3>2 DEF DecodeSequence
    <3>4. <<rows, cols>> # <<Dynamic, Dynamic>> /\ \A i \in DOMAIN n.s : IsNumber(n.s[i])
      BY <1>2, <3>1 DEF Flat
    <3>5. r * c = Len(n.s) /\ Given(r, rows) /\ Given(c, cols)
      BY <2>4
    <3>6. DecodeDeduced(n, rows, cols) = Sized(r, c, n.s) /\ Sized(r, c, n.s).ok
      <4> HIDE DEF S
      <4> QED
        BY <2>1, <2>5, <2>7, <3>4, <3>5, DeducedOfNumbers
    <3> QED
      BY <3>3, <3>6
  <2> QED
    BY <2>6, <2>7
<1>3. ASSUME n.t = "seq", WithSizes(n, rows, cols)
      PROVE  DecodeSequence(n, rows, cols).ok
  <2> DEFINE S(q) == {q.s[i] : i \in DOMAIN q.s}
             r == Number[n.s[1].s[1].v]
             c == Number[n.s[1].s[2].v]
  <2>1. /\ Len(n.s) = 2 /\ n.s[1].t = "seq" /\ n.s[2].t = "seq" /\ Len(n.s[1].s) = 2
        /\ \A i \in 1..2 : IsInt(n.s[1].s[i])
        /\ \A i \in DOMAIN n.s[2].s : IsNumber(n.s[2].s[i])
        /\ r * c = Len(n.s[2].s) /\ Given(r, rows) /\ Given(c, cols)
    BY <1>3 DEF WithSizes
  <2>2. n.s \in Seq(S(n))
    BY <1>3 DEF IsNode, Sound
  <2>3. n.s # << >> /\ 2 \in DOMAIN n.s
    <3>1. Len(n.s) = 2
      BY <2>1
    <3> QED
      BY <2>2, <3>1, Second
  <2>4. n.s[2].s \in Seq(S(n.s[2])) /\ Len(n.s[2].s) < UintMod
    BY <1>3, <2>1, <2>3 DEF IsNode, Sound
  <2>5. \A i \in 1..2 : IsUint(n.s[1].s[i])
    <3>1. \A i \in 1..2 : IsInt(n.s[1].s[i])
      BY <2>1
    <3> QED
      BY <3>1, SizeIsNat
  <2>6. r \in Nat /\ c \in Nat
    <3>1. \A i \in 1..2 : IsInt(n.s[1].s[i])
      BY <2>1
    <3>2. 1 \in 1..2 /\ 2 \in 1..2
      OBVIOUS
    <3>3. IsInt(n.s[1].s[1]) /\ IsInt(n.s[1].s[2])
      BY <3>1, <3>2
    <3> QED
      BY <3>3, SizeIsNat
  <2> HIDE DEF r, c
  <2>7. Sized(r, c, n.s[2].s).ok
    BY <2>1, <2>4, <2>6, SizedOfNumbers
  <2>8. Len(n.s[2].s) = Product(r, c)
    BY <2>7 DEF Sized, Rejected
  <2>9. DecodeSequence(n, rows, cols) = DecodeGiven(n, rows, cols)
    BY <1>3, <2>1, <2>3 DEF DecodeSequence
  <2>10. DecodeGiven(n, rows, cols) = Sized(r, c, n.s[2].s)
    BY <2>1, <2>5, <2>8 DEF DecodeGiven, r, c
  <2> QED
    BY <2>7, <2>9, <2>10
<1> QED
  BY <1>1, <1>2, <1>3


\* What decode makes of a node is written as a node: a flat sequence of as many
\* numbers as the matrix has places, or null, of which the same matrix is made
\* again, unless there is nothing that tells its dimensions.
LEMMA DecodedAgain ==
  ASSUME NEW n, IsNode(n), NEW rows \in Dims, NEW cols \in Dims, DecodeSequence(n, rows, cols).ok
  PROVE  LET matrix == DecodeSequence(n, rows, cols)
         IN /\ IsNode(Encode(matrix))
            /\ Encode(matrix) # Null /\ <<rows, cols>> # <<Dynamic, Dynamic>> =>
                 Decode(Encode(matrix), rows, cols) = matrix
<1>1. PICK S : \E values \in Seq(S), r, c \in Nat :
        /\ DecodeSequence(n, rows, cols) = Sized(r, c, values)
        /\ Len(values) < UintMod /\ Given(r, rows) /\ Given(c, cols)
  BY DecodedMatrix
<1>2. PICK values \in Seq(S), r \in Nat, c \in Nat :
        /\ DecodeSequence(n, rows, cols) = Sized(r, c, values)
        /\ Len(values) < UintMod /\ Given(r, rows) /\ Given(c, cols)
  BY <1>1
<1>3. Sized(r, c, values).ok
  BY <1>2
<1>4. Len(values) = r * c /\ \A k \in DOMAIN values : IsNumber(values[k])
  BY <1>3, SizedExactly, SizedNumbers
<1>5. CASE values = << >>
  <2>1. r * c = 0
    BY <1>4, <1>5
  <2>2. Sized(r, c, values).rows = r /\ Sized(r, c, values).cols = c
    BY <1>3, SizedDimensions
  <2>3. Encode(Sized(r, c, values)) = Null
    BY <2>1, <2>2 DEF Encode
  <2>4. IsNode(Null)
    BY DEF IsNode, Sound, Null
  <2> QED
    BY <1>2, <2>3, <2>4
<1>6. CASE values # << >>
  <2>1. Encode(Sized(r, c, values)) = Seq_(values)
    BY <1>3, <1>6, WrittenAsRead
  <2> DEFINE node1 == Seq_(values)
  <2>2. node1.t = "seq" /\ node1.s = values /\ node1 = Seq_(node1.s)
    BY DEF Seq_
  <2>3. Indexed(node1) = node1
    BY <2>2 DEF Indexed
  <2>4. 1 \in DOMAIN values
    BY <1>6
  <2>5. values[1].t # "seq"
    BY <1>4, <2>4 DEF IsNumber
  <2>6. values \in Seq({values[i] : i \in DOMAIN values})
    OBVIOUS
  <2>7. \A i \in DOMAIN values : Sound(values[i])
    BY <1>4 DEF IsNumber, Sound
  <2> HIDE DEF node1
  <2>8. Sound(node1)
    BY <1>2, <2>2, <2>6 DEF Sound
  <2>9. IsNode(node1)
    BY <2>2, <2>7, <2>8 DEF IsNode
  <2>10. Decode(node1, rows, cols) = DecodeDeduced(node1, rows, cols)
    BY <1>6, <2>2, <2>3, <2>5 DEF Decode, DecodeSequence
  <2>11. ASSUME <<rows, cols>> # <<Dynamic, Dynamic>>
         PROVE  DecodeDeduced(node1, rows, cols) = Sized(r, c, values)
    <3>1. /\ node1.s \in Seq(S) /\ Len(node1.s) < UintMod /\ node1.s # << >>
          /\ \A i \in DOMAIN node1.s : IsNumber(node1.s[i])
          /\ r * c = Len(node1.s) /\ Given(r, rows) /\ Given(c, cols)
      BY <1>2, <1>4, <1>6, <2>2
    <3>2. DecodeDeduced(node1, rows, cols) = Sized(r, c, node1.s)
      BY <2>11, <3>1, DeducedOfNumbers
    <3> QED
      BY <2>2, <3>2
  <2> QED
    BY <1>2, <2>1, <2>9, <2>10, <2>11 DEF node1
<1> QED
  BY <1>5, <1>6

\* A quaternion is written as what it is read from.
LEMMA QuaternionAgain ==
  ASSUME NEW n, IsNode(n), DecodeQuaternion(n).ok
  PROVE  EncodeQuaternion(DecodeQuaternion(n)) = Indexed(n)
<1> DEFINE read == Indexed(n)
<1>1. read.t = "seq" /\ Len(read.s) = 4
  BY DEF DecodeQuaternion, Rejected
<1>2. IsNode(read)
  BY IndexedIsNode
<1>3. read = Seq_(read.s) /\ read.s \in Seq({read.s[i] : i \in DOMAIN read.s})
  BY <1>1, <1>2 DEF IsNode, Sound
<1>4. EncodeQuaternion(DecodeQuaternion(n)) = Seq_(<<read.s[1], read.s[2], read.s[3], read.s[4]>>)
  BY DEF DecodeQuaternion, EncodeQuaternion, Rejected
<1> HIDE DEF read
<1>5. <<read.s[1], read.s[2], read.s[3], read.s[4]>> = read.s
  BY <1>1, <1>3
<1> QED
  BY <1>3, <1>4, <1>5 DEF read

-----------------------------------------------------------------------------
\* Whatever is read and written, the node stays one whose sequences an unsigned
\* int can count.
THEOREM NodeStaysNode == Conversions => []IsNode(node)
<1>1. InitConversions => IsNode(node)
  BY NodesAssumption DEF InitConversions
<1>2. IsNode(node) /\ [Conversion]_<<node, call, answer>> => IsNode(node)'
  <2> SUFFICES ASSUME IsNode(node), [Conversion]_<<node, call, answer>>
               PROVE  IsNode(node')
    OBVIOUS
  <2>1. CASE UNCHANGED <<node, call, answer>>
    BY <2>1
  <2>2. ASSUME NEW dims \in Matrices, Convert(dims[1], dims[2])
        PROVE  IsNode(node')
    <3>1. dims[1] \in Dims /\ dims[2] \in Dims
      BY <2>2, MatricesAssumption
    <3>2. IsNode(Indexed(node))
      BY IndexedIsNode
    <3> QED
      BY <2>2, <3>1, <3>2, DecodedAgain DEF Convert, Decode
  <2>3. CASE ConvertQuaternion
    BY <2>3, QuaternionAgain, IndexedIsNode DEF ConvertQuaternion
  <2> QED
    BY <2>1, <2>2, <2>3 DEF Conversion
<1> QED
  BY <1>1, <1>2, PTL DEF Conversions

\* However often a node is converted, a matrix is read from it exactly when it
\* has as many numbers as the matrix has places.
THEOREM AlwaysFits == Conversions => []MatrixFits
<1>1. IsNode(node) => MatrixFits
  <2> SUFFICES ASSUME IsNode(node), NEW dims \in Matrices
               PROVE  Decode(node, dims[1], dims[2]).ok <=>
                        LET n == Indexed(node)
                        IN n.t = "seq" /\ (Flat(n, dims[1], dims[2]) \/ WithSizes(n, dims[1], dims[2]))
    BY DEF MatrixFits
  <2>1. dims[1] \in Dims /\ dims[2] \in Dims
    BY MatricesAssumption
  <2>2. IsNode(Indexed(node))
    BY IndexedIsNode
  <2> QED
    BY <2>1, <2>2, DecodesExactly DEF Decode
<1> QED
  BY <1>1, NodeStaysNode, PTL

\* What has been read is read again after it has been written.
THEOREM ReadAgain == Conversions => RoundTrip
<1> DEFINE A == /\ call' = "convertQuaternion" => node' \in {node, Indexed(node)}
                /\ call' = "convert" /\ answer' = "true" /\ node' # Null =>
                     \A dims \in Matrices \ {<<Dynamic, Dynamic>>} :
                       LET Read(n) == Decode(n, dims[1], dims[2])
                       IN Convert(dims[1], dims[2]) => Read(node') = Read(node)
<1>1. IsNode(node) /\ [Conversion]_<<node, call, answer>> => [A]_<<node, call, answer>>
  <2> SUFFICES ASSUME IsNode(node), Conversion
               PROVE  A
    OBVIOUS
  <2>1. call' = "convertQuaternion" => node' \in {node, Indexed(node)}
    BY QuaternionAgain DEF Conversion, Convert, ConvertQuaternion
  <2>2. ASSUME NEW dims \in Matrices \ {<<Dynamic, Dynamic>>}, Convert(dims[1], dims[2]),
               answer' = "true", node' # Null
        PROVE  Decode(node', dims[1], dims[2]) = Decode(node, dims[1], dims[2])
    <3>1. dims[1] \in Dims /\ dims[2] \in Dims /\ <<dims[1], dims[2]>> # <<Dynamic, Dynamic>>
      BY MatricesAssumption
    <3>2. IsNode(Indexed(node))
      BY IndexedIsNode
    <3>3. Decode(node, dims[1], dims[2]).ok /\ node' = Encode(Decode(node, dims[1], dims[2]))
      BY <2>2 DEF Convert, Answer
    <3> QED
      BY <2>2, <3>1, <3>2, <3>3, DecodedAgain DEF Decode
  <2> QED
    BY <2>1, <2>2
<1> QED
  BY <1>1, NodeStaysNode, PTL DEF Conversions, RoundTrip

=============================================================================
