--------------------------- MODULE FramingProofs ----------------------------
(***************************************************************************)
(* Both parsers find the messages in a stream: however it is cut into      *)
(* pieces, and wherever it ends.                                           *)
(***************************************************************************)
EXTENDS Framing, SequenceTheorems, FiniteSetTheorems, WellFoundedInduction, TLAPS

-----------------------------------------------------------------------------
(* The first of some numbers, and induction.                               *)

LEMMA FirstOfSome ==
  ASSUME NEW T, T \subseteq Nat, T # {}
  PROVE  \E x \in T : \A y \in T : x <= y
<1>1. \E x \in T : \A y \in T : ~(<<y, x>> \in OpToRel(<, Nat))
  BY NatLessThanWellFounded, WFMin
<1>2. \A x, y \in Nat : ~(<<y, x>> \in OpToRel(<, Nat)) => x <= y
  BY DEF OpToRel
<1> QED
  BY <1>1, <1>2

LEMMA MinOfSome ==
  ASSUME NEW T, T \subseteq Nat, T # {}
  PROVE  Min(T) \in T /\ \A y \in T : Min(T) <= y
BY FirstOfSome DEF Min

\* Induction over a set, as the provers cannot instantiate a predicate.
LEMMA SetInduction ==
  ASSUME NEW n \in Nat, NEW T, 0 \in T, \A i \in 0..n-1 : i \in T => i+1 \in T
  PROVE  0..n \subseteq T
<1> SUFFICES ASSUME (0..n) \ T # {} PROVE FALSE
  OBVIOUS
<1> DEFINE rest == (0..n) \ T
<1> rest \subseteq Nat
  OBVIOUS
<1> HIDE DEF rest
<1>1. PICK x \in rest : \A y \in rest : x <= y
  BY FirstOfSome DEF rest
<1> USE DEF rest
<1>2. x # 0 /\ x-1 \in 0..n-1 /\ x-1 \in T
  BY <1>1
<1> QED
  BY <1>1, <1>2

-----------------------------------------------------------------------------
(* Sequences joined into one.                                              *)

\* f[i] is what the first i of the sequences are when joined.
IsJoin(f, seqs, n, T) ==
  /\ f \in [1..n -> Seq(T)]
  /\ \A i \in 1..n : f[i] = IF i = 1 THEN seqs[i] ELSE f[i-1] \o seqs[i]

LEMMA JoinExists ==
  ASSUME NEW T, NEW seqs \in Seq(Seq(T)), NEW n \in 0..Len(seqs)
  PROVE  \E f : IsJoin(f, seqs, n, T)
<1> DEFINE good == {m \in Nat : m <= Len(seqs) => \E f : IsJoin(f, seqs, m, T)}
<1>1. 0 \in good
  <2>1. IsJoin([i \in 1..0 |-> <<>>], seqs, 0, T)
    BY DEF IsJoin
  <2> QED
    BY <2>1
<1>2. ASSUME NEW m \in 0..n-1, m \in good PROVE m+1 \in good
  <2>1. PICK f : IsJoin(f, seqs, m, T)
    BY <1>2
  <2> DEFINE last == IF m = 0 THEN seqs[1] ELSE f[m] \o seqs[m+1]
             g == [i \in 1..m+1 |-> IF i = m+1 THEN last ELSE f[i]]
  <2>2. last \in Seq(T)
    <3>1. seqs[m+1] \in Seq(T)
      OBVIOUS
    <3> QED
      BY <2>1, <3>1 DEF IsJoin
  <2> HIDE DEF last
  <2>3. g \in [1..m+1 -> Seq(T)]
    BY <2>1, <2>2 DEF IsJoin
  <2>4. ASSUME NEW i \in 1..m+1 PROVE g[i] = IF i = 1 THEN seqs[i] ELSE g[i-1] \o seqs[i]
    <3>1. CASE i = m+1
      <4>1. i # 1 => g[i-1] = f[m]
        BY <3>1
      <4> QED
        BY <3>1, <4>1 DEF last
    <3>2. CASE i # m+1
      <4>1. i \in 1..m /\ g[i] = f[i] /\ (i # 1 => g[i-1] = f[i-1])
        BY <3>2
      <4> QED
        BY <2>1, <4>1 DEF IsJoin
    <3> QED
      BY <3>1, <3>2
  <2> HIDE DEF g
  <2>5. IsJoin(g, seqs, m+1, T)
    BY <2>3, <2>4 DEF IsJoin
  <2> QED
    BY <2>5
<1>3. n \in Nat
  OBVIOUS
<1>4. 0..n \subseteq good
  <2> HIDE DEF good
  <2> QED
    BY <1>1, <1>2, <1>3, SetInduction
<1> QED
  BY <1>4

LEMMA FlattenIsJoin ==
  ASSUME NEW T, NEW seqs \in Seq(Seq(T)), Len(seqs) > 0, NEW f, IsJoin(f, seqs, Len(seqs), T)
  PROVE  FlattenSeq(seqs) = f[Len(seqs)]
<1> DEFINE Joins(g) == g = [i \in 1..Len(seqs) |-> IF i = 1 THEN seqs[i] ELSE g[i-1] \o seqs[i]]
<1>1. Joins(f)
  BY DEF IsJoin
<1>2. Len(seqs) \in Nat /\ Len(seqs) # 0
  OBVIOUS
<1>3. ASSUME NEW g, Joins(g) PROVE g = f
  <2>1. \A i \in 1..Len(seqs) : g[i] = IF i = 1 THEN seqs[i] ELSE g[i-1] \o seqs[i]
    BY <1>3, Zenon
  <2>2. g = [i \in 1..Len(seqs) |-> g[i]]
    BY <1>3, Zenon
  <2>3. \A i \in 1..Len(seqs) : f[i] = IF i = 1 THEN seqs[i] ELSE f[i-1] \o seqs[i]
    BY DEF IsJoin
  <2>4. f = [i \in 1..Len(seqs) |-> f[i]]
    BY DEF IsJoin
  <2> HIDE DEF Joins
  <2> DEFINE good == {m \in Nat : m \in 1..Len(seqs) => g[m] = f[m]}
  <2>5. 0 \in good
    OBVIOUS
  <2>6. ASSUME NEW m \in 0..Len(seqs)-1, m \in good PROVE m+1 \in good
    <3>1. m+1 \in 1..Len(seqs) /\ (m+1)-1 = m /\ (m+1 # 1 => m \in 1..Len(seqs))
      BY <1>2
    <3>2. m+1 # 1 => g[m] = f[m]
      BY <2>6, <3>1
    <3>3. g[m+1] = f[m+1]
      BY <2>1, <2>3, <3>1, <3>2
    <3> QED
      BY <3>3
  <2>7. 0..Len(seqs) \subseteq good
    <3> HIDE DEF good
    <3> QED
      BY <1>2, <2>5, <2>6, SetInduction
  <2>8. \A i \in 1..Len(seqs) : g[i] = f[i]
    BY <1>2, <2>7
  <2> QED
    BY <2>2, <2>4, <2>8, Zenon
<1> HIDE DEF Joins
<1>4. (CHOOSE g : Joins(g)) = f
  BY <1>1, <1>3
<1> USE DEF Joins
<1> QED
  BY <1>2, <1>4, Zenon DEF FlattenSeq

LEMMA FlattenEmpty == FlattenSeq(<<>>) = <<>>
  BY DEF FlattenSeq

LEMMA FlattenType ==
  ASSUME NEW T, NEW seqs \in Seq(Seq(T))
  PROVE  FlattenSeq(seqs) \in Seq(T)
<1>1. CASE seqs = <<>>
  <2>1. <<>> \in Seq(T)
    OBVIOUS
  <2> QED
    BY <1>1, <2>1, FlattenEmpty, Zenon
<1>2. CASE seqs # <<>>
  <2>1. Len(seqs) \in Nat /\ Len(seqs) > 0
    BY <1>2
  <2>2. PICK f : IsJoin(f, seqs, Len(seqs), T)
    BY <2>1, JoinExists
  <2>3. f[Len(seqs)] \in Seq(T)
    <3>1. f \in [1..Len(seqs) -> Seq(T)] /\ Len(seqs) \in 1..Len(seqs)
      BY <2>1, <2>2 DEF IsJoin
    <3> QED
      BY <3>1, Zenon
  <2>4. FlattenSeq(seqs) = f[Len(seqs)]
    BY <2>1, <2>2, FlattenIsJoin
  <2> QED
    BY <2>3, <2>4
<1> QED
  BY <1>1, <1>2

LEMMA FlattenAppend ==
  ASSUME NEW T, NEW seqs \in Seq(Seq(T)), NEW s \in Seq(T)
  PROVE  FlattenSeq(Append(seqs, s)) = FlattenSeq(seqs) \o s
<1> DEFINE longer == Append(seqs, s)
           n == Len(seqs)
<1>1. longer \in Seq(Seq(T)) /\ n \in Nat /\ Len(longer) = n+1 /\ longer[n+1] = s
  BY SMTT(30)
<1>2. \A i \in 1..n : longer[i] = seqs[i]
  OBVIOUS
<1> HIDE DEF longer
<1>3. PICK f : IsJoin(f, longer, n+1, T)
  BY <1>1, JoinExists
<1>4. FlattenSeq(longer) = f[n+1]
  <2>1. Len(longer) > 0 /\ IsJoin(f, longer, Len(longer), T)
    BY <1>1, <1>3
  <2> QED
    BY <1>1, <2>1, FlattenIsJoin, Zenon
<1>5. CASE n = 0
  <2>1. seqs = <<>> /\ f[n+1] = s
    BY <1>1, <1>3, <1>5 DEF IsJoin
  <2>2. <<>> \o s = s
    OBVIOUS
  <2> QED
    BY <1>4, <2>1, <2>2, FlattenEmpty DEF longer
<1>6. CASE n # 0
  <2> DEFINE g == [i \in 1..n |-> f[i]]
  <2>1. g \in [1..n -> Seq(T)]
    BY <1>1, <1>3 DEF IsJoin
  <2>2. ASSUME NEW i \in 1..n PROVE g[i] = IF i = 1 THEN seqs[i] ELSE g[i-1] \o seqs[i]
    <3>1. i \in 1..n+1 /\ (i # 1 => i-1 \in 1..n)
      BY <1>1
    <3> QED
      BY <1>2, <1>3, <3>1 DEF IsJoin
  <2>3. g[n] = f[n]
    BY <1>1, <1>6
  <2> HIDE DEF g
  <2>4. FlattenSeq(seqs) = g[n]
    <3>1. IsJoin(g, seqs, n, T)
      BY <2>1, <2>2 DEF IsJoin
    <3>2. Len(seqs) > 0
      BY <1>1, <1>6
    <3> QED
      BY <3>1, <3>2, FlattenIsJoin, Zenon
  <2>5. f[n+1] = f[n] \o s
    <3>1. n+1 \in 1..n+1 /\ n+1 # 1 /\ (n+1)-1 = n
      BY <1>1, <1>6
    <3>2. f[n+1] = f[(n+1)-1] \o longer[n+1]
      BY <1>3, <3>1 DEF IsJoin
    <3> QED
      BY <1>1, <3>1, <3>2
  <2> QED
    BY <1>4, <2>3, <2>4, <2>5 DEF longer
<1> QED
  BY <1>5, <1>6

\* What the first k of the sequences are when joined, and how long that is.
Joined(seqs, k) == FlattenSeq(SubSeq(seqs, 1, k))
End(seqs, k) == Len(Joined(seqs, k))

LEMMA JoinedGrows ==
  ASSUME NEW T, NEW seqs \in Seq(Seq(T)), NEW k \in 1..Len(seqs)
  PROVE  /\ Joined(seqs, k-1) \in Seq(T)
         /\ Joined(seqs, k) \in Seq(T)
         /\ seqs[k] \in Seq(T)
         /\ Joined(seqs, k) = Joined(seqs, k-1) \o seqs[k]
<1>1. SubSeq(seqs, 1, k-1) \in Seq(Seq(T)) /\ seqs[k] \in Seq(T)
  OBVIOUS
<1>2. SubSeq(seqs, 1, k) = Append(SubSeq(seqs, 1, k-1), seqs[k])
  OBVIOUS
<1>3. SubSeq(seqs, 1, k) \in Seq(Seq(T))
  OBVIOUS
<1> QED
  BY <1>1, <1>2, <1>3, FlattenAppend, FlattenType DEF Joined

LEMMA JoinedEnds ==
  ASSUME NEW T, NEW seqs \in Seq(Seq(T))
  PROVE  /\ Joined(seqs, 0) = <<>> /\ End(seqs, 0) = 0
         /\ Joined(seqs, Len(seqs)) = FlattenSeq(seqs)
         /\ End(seqs, Len(seqs)) = Len(FlattenSeq(seqs))
<1>1. SubSeq(seqs, 1, 0) = <<>> /\ SubSeq(seqs, 1, Len(seqs)) = seqs
  OBVIOUS
<1>2. Joined(seqs, 0) = <<>>
  BY <1>1, FlattenEmpty DEF Joined
<1> QED
  BY <1>1, <1>2 DEF Joined, End

LEMMA EndGrows ==
  ASSUME NEW T, NEW seqs \in Seq(Seq(T)), NEW k \in 1..Len(seqs)
  PROVE  /\ End(seqs, k-1) \in Nat /\ End(seqs, k) \in Nat
         /\ End(seqs, k) = End(seqs, k-1) + Len(seqs[k])
<1>1. /\ Joined(seqs, k-1) \in Seq(T) /\ seqs[k] \in Seq(T)
      /\ Joined(seqs, k) = Joined(seqs, k-1) \o seqs[k]
  BY JoinedGrows
<1>2. \A a, b \in Seq(T) : Len(a) \in Nat /\ Len(a \o b) \in Nat /\ Len(a \o b) = Len(a) + Len(b)
  OBVIOUS
<1> QED
  BY <1>1, <1>2, Zenon DEF End

\* What is joined later leaves the beginning as it is.
LEMMA JoinedIsPrefix ==
  ASSUME NEW T, NEW seqs \in Seq(Seq(T)), NEW k \in 0..Len(seqs), NEW l \in k..Len(seqs)
  PROVE  /\ End(seqs, k) \in Nat /\ End(seqs, l) \in Nat /\ End(seqs, k) <= End(seqs, l)
         /\ \A p \in 1..End(seqs, k) : Joined(seqs, l)[p] = Joined(seqs, k)[p]
<1> DEFINE Fits(m) == /\ End(seqs, k) <= End(seqs, m)
                      /\ \A p \in 1..End(seqs, k) : Joined(seqs, m)[p] = Joined(seqs, k)[p]
           good == {m \in Nat : k + m <= Len(seqs) => Fits(k + m)}
<1>0. \A m \in 0..Len(seqs) : Joined(seqs, m) \in Seq(T) /\ End(seqs, m) \in Nat
  <2>1. ASSUME NEW m \in 0..Len(seqs) PROVE Joined(seqs, m) \in Seq(T)
    <3>1. SubSeq(seqs, 1, m) \in Seq(Seq(T))
      OBVIOUS
    <3> QED
      BY <3>1, FlattenType DEF Joined
  <2> QED
    BY <2>1 DEF End
<1>1. 0 \in good
  BY <1>0
<1>2. ASSUME NEW m \in 0..l-k-1, m \in good PROVE m+1 \in good
  <2>1. k+m+1 \in 1..Len(seqs) /\ (k+m+1)-1 = k+m
    OBVIOUS
  <2>2. Fits(k+m)
    BY <1>2
  <2>3. /\ Joined(seqs, k+m+1) = Joined(seqs, k+m) \o seqs[k+m+1]
        /\ Joined(seqs, k+m) \in Seq(T)
        /\ seqs[k+m+1] \in Seq(T)
    <3>1. \A i \in 1..Len(seqs) : /\ Joined(seqs, i) = Joined(seqs, i-1) \o seqs[i]
                                  /\ Joined(seqs, i-1) \in Seq(T)
                                  /\ seqs[i] \in Seq(T)
      BY JoinedGrows
    <3> QED
      BY <2>1, <3>1
  <2>4. \A p \in 1..End(seqs, k+m) : Joined(seqs, k+m+1)[p] = Joined(seqs, k+m)[p]
    BY <2>3 DEF End
  <2>5. End(seqs, k+m) \in Nat /\ End(seqs, k+m+1) = End(seqs, k+m) + Len(seqs[k+m+1])
    <3>1. \A i \in 1..Len(seqs) : End(seqs, i-1) \in Nat /\ End(seqs, i) = End(seqs, i-1) + Len(seqs[i])
      BY EndGrows
    <3> QED
      BY <2>1, <3>1
  <2>6. Len(seqs[k+m+1]) \in Nat /\ End(seqs, k) \in Nat
    BY <1>0, <2>3
  <2>7. Fits(k+m+1)
    BY <2>2, <2>4, <2>5, <2>6
  <2>8. k + (m+1) = k+m+1
    OBVIOUS
  <2> HIDE DEF Fits
  <2> QED
    BY <2>7, <2>8
<1>3. 0..l-k \subseteq good
  <2>1. l-k \in Nat
    OBVIOUS
  <2> HIDE DEF good
  <2> QED
    BY <1>1, <1>2, <2>1, SetInduction
<1>4. Fits(l)
  <2>1. l-k \in good /\ k + (l-k) = l
    <3>1. l-k \in 0..l-k /\ k + (l-k) = l
      OBVIOUS
    <3> HIDE DEF good
    <3> QED
      BY <1>3, <3>1
  <2> HIDE DEF Fits
  <2> QED
    BY <2>1
<1> QED
  BY <1>0, <1>4

\* The k-th sequence is found behind those before it.
LEMMA FoundInJoined ==
  ASSUME NEW T, NEW seqs \in Seq(Seq(T)), NEW k \in 1..Len(seqs)
  PROVE  /\ End(seqs, k) <= Len(FlattenSeq(seqs))
         /\ \A j \in 1..Len(seqs[k]) : FlattenSeq(seqs)[End(seqs, k-1) + j] = seqs[k][j]
<1>1. /\ Joined(seqs, k) = Joined(seqs, k-1) \o seqs[k]
      /\ Joined(seqs, k-1) \in Seq(T) /\ seqs[k] \in Seq(T)
  BY JoinedGrows
<1>2. End(seqs, k) = End(seqs, k-1) + Len(seqs[k])
  BY EndGrows
<1>3. \A j \in 1..Len(seqs[k]) : Joined(seqs, k)[End(seqs, k-1) + j] = seqs[k][j]
  BY <1>1 DEF End
<1>4. /\ End(seqs, k) <= End(seqs, Len(seqs))
      /\ \A p \in 1..End(seqs, k) : Joined(seqs, Len(seqs))[p] = Joined(seqs, k)[p]
  BY JoinedIsPrefix
<1>5. End(seqs, k-1) \in Nat /\ Len(seqs[k]) \in Nat
  BY <1>1 DEF End
<1>6. \A j \in 1..Len(seqs[k]) : End(seqs, k-1) + j \in 1..End(seqs, k)
  BY <1>2, <1>5
<1> QED
  BY <1>3, <1>4, <1>6, JoinedEnds

-----------------------------------------------------------------------------
(* Headers.                                                                *)

CR == Byte("CR")
LF == Byte("LF")

\* What a header line may be: one without a line break.
Lines == {b \in Bytes : b # CR /\ b # LF}

LEMMA ByteType == ASSUME NEW is \in Kinds PROVE Byte(is) \in Bytes
BY DEF Bytes, Byte

LEMMA BreakType == CR \in Bytes /\ LF \in Bytes /\ CR # LF
<1>1. "CR" \in Kinds /\ "LF" \in Kinds
  BY DEF Kinds
<1>2. Byte("CR") # Byte("LF")
  BY DEF Byte
<1> QED
  BY <1>1, <1>2, ByteType DEF CR, LF

LineWithBreak(lines) == [i \in DOMAIN lines |-> <<lines[i], CR, LF>>]

LEMMA HeaderShape ==
  ASSUME NEW lines \in Seq(Bytes)
  PROVE  /\ Header(lines) \in Seq(Bytes)
         /\ Len(Header(lines)) = 3 * Len(lines) + 2
         /\ \A i \in 1..Len(lines) : /\ Header(lines)[3 * i - 2] = lines[i]
                                     /\ Header(lines)[3 * i - 1] = CR
                                     /\ Header(lines)[3 * i] = LF
         /\ Header(lines)[3 * Len(lines) + 1] = CR
         /\ Header(lines)[3 * Len(lines) + 2] = LF
<1> DEFINE n == Len(lines)
           chunks == LineWithBreak(lines)
           all == FlattenSeq(chunks)
<1>1. CR \in Bytes /\ LF \in Bytes
  BY BreakType
<1>2. chunks \in Seq(Seq(Bytes)) /\ Len(chunks) = n /\ n \in Nat
  <2>1. \A l \in Bytes : <<l, CR, LF>> \in Seq(Bytes)
    BY <1>1
  <2>2. DOMAIN lines = 1..n /\ n \in Nat /\ \A i \in 1..n : lines[i] \in Bytes
    OBVIOUS
  <2>3. chunks = [i \in 1..n |-> <<lines[i], CR, LF>>]
    BY <2>2 DEF LineWithBreak
  <2>4. \A i \in 1..n : <<lines[i], CR, LF>> \in Seq(Bytes)
    BY <2>1, <2>2
  <2> HIDE DEF chunks
  <2> QED
    BY <2>2, <2>3, <2>4
<1>3. \A i \in 1..n : chunks[i] = <<lines[i], CR, LF>>
  BY DEF LineWithBreak
<1>4. \A i \in 1..n : Len(chunks[i]) = 3
  <2>1. \A a, b, c : Len(<<a, b, c>>) = 3
    OBVIOUS
  <2> QED
    BY <1>3, <2>1, Zenon
<1>5. Header(lines) = all \o <<CR, LF>>
  BY DEF Header, LineWithBreak, CR, LF
<1>6. all \in Seq(Bytes)
  BY <1>2, FlattenType
<1> HIDE DEF chunks, all
<1>7. \A k \in 0..n : End(chunks, k) = 3 * k
  <2> DEFINE good == {m \in Nat : m <= n => End(chunks, m) = 3 * m}
  <2>1. 0 \in good
    BY <1>2, JoinedEnds
  <2>2. ASSUME NEW m \in 0..n-1, m \in good PROVE m+1 \in good
    <3>1. m+1 \in 1..Len(chunks) /\ (m+1)-1 = m
      BY <1>2
    <3>2. \A i \in 1..Len(chunks) : End(chunks, i) = End(chunks, i-1) + Len(chunks[i])
      BY <1>2, EndGrows
    <3>3. End(chunks, m+1) = End(chunks, m) + 3
      BY <1>2, <1>4, <3>1, <3>2
    <3> QED
      BY <2>2, <3>1, <3>3
  <2>3. 0..n \subseteq good
    <3> HIDE DEF good
    <3> QED
      BY <1>2, <2>1, <2>2, SetInduction
  <2> QED
    BY <2>3
<1>8. Len(all) = 3 * n
  BY <1>2, <1>7, JoinedEnds DEF all
<1>9. \A i \in 1..n : all[3*i - 2] = lines[i] /\ all[3*i - 1] = CR /\ all[3*i] = LF
  <2> TAKE i \in 1..n
  <2>1. \A j \in 1..3 : all[End(chunks, i-1) + j] = chunks[i][j]
    <3>1. i \in 1..Len(chunks) /\ Len(chunks[i]) = 3
      BY <1>2, <1>4
    <3>2. chunks \in Seq(Seq(Bytes))
      BY <1>2
    <3>3. \A j \in 1..Len(chunks[i]) : all[End(chunks, i-1) + j] = chunks[i][j]
      BY <3>1, <3>2, FoundInJoined DEF all
    <3> QED
      BY <3>1, <3>3, Zenon
  <2>2. End(chunks, i-1) = 3*i - 3
    BY <1>2, <1>7
  <2>3. chunks[i][1] = lines[i] /\ chunks[i][2] = CR /\ chunks[i][3] = LF
    BY <1>3
  <2>4. 3*i - 3 + 1 = 3*i - 2 /\ 3*i - 3 + 2 = 3*i - 1 /\ 3*i - 3 + 3 = 3*i
    BY <1>2
  <2> QED
    BY <2>1, <2>2, <2>3, <2>4
<1>10. /\ Header(lines) \in Seq(Bytes)
       /\ Len(Header(lines)) = 3 * n + 2
       /\ \A p \in 1..3*n : Header(lines)[p] = all[p]
       /\ Header(lines)[3 * n + 1] = CR
       /\ Header(lines)[3 * n + 2] = LF
  <2>1. \A a \in Seq(Bytes) : LET b == a \o <<CR, LF>>
                             IN /\ b \in Seq(Bytes) /\ Len(b) = Len(a) + 2
                                /\ \A p \in 1..Len(a) : b[p] = a[p]
                                /\ b[Len(a) + 1] = CR /\ b[Len(a) + 2] = LF
    BY <1>1
  <2> HIDE DEF n
  <2> QED
    BY <1>5, <1>6, <1>8, <2>1, Zenon
<1>11. \A i \in 1..n : 3*i - 2 \in 1..3*n /\ 3*i - 1 \in 1..3*n /\ 3*i \in 1..3*n
  BY <1>2
<1> QED
  BY <1>9, <1>10, <1>11

\* A separator in a sequence of bytes.
SeparatorAt(bytes, i) ==
  bytes[i-3] = CR /\ bytes[i-2] = LF /\ bytes[i-1] = CR /\ bytes[i] = LF

LEMMA HeaderEndsAtSeparators ==
  ASSUME NEW bytes \in Seq(Bytes)
  PROVE  HeaderEnds(bytes) = {i \in 4..Len(bytes) : SeparatorAt(bytes, i)}
<1>1. ASSUME NEW i \in 4..Len(bytes)
      PROVE  SubSeq(bytes, i-3, i) = Separator <=> SeparatorAt(bytes, i)
  <2>1. Separator = <<CR, LF, CR, LF>>
    BY DEF Separator, CR, LF
  <2>2. Separator \in Seq(Bytes) /\ Len(Separator) = 4
    BY <2>1, BreakType
  <2>3. /\ SubSeq(bytes, i-3, i) \in Seq(Bytes) /\ Len(SubSeq(bytes, i-3, i)) = 4
        /\ \A j \in 1..4 : SubSeq(bytes, i-3, i)[j] = bytes[i-3+j-1]
    <3>1. /\ SubSeq(bytes, i-3, i) \in Seq(Bytes)
          /\ Len(SubSeq(bytes, i-3, i)) = IF i-3 <= i THEN i-(i-3)+1 ELSE 0
          /\ \A j \in 1..i-(i-3)+1 : SubSeq(bytes, i-3, i)[j] = bytes[i-3+j-1]
      <4>1. i-3 \in Int /\ i \in Int /\ \A j \in i-3..i : bytes[j] \in Bytes
        OBVIOUS
      <4> QED
        BY <4>1, SubSeqProperties
    <3> QED
      BY <3>1
  <2>4. SubSeq(bytes, i-3, i) = Separator <=> \A j \in 1..4 : SubSeq(bytes, i-3, i)[j] = Separator[j]
    BY <2>2, <2>3, SeqEqual
  <2>5. /\ Separator[1] = CR /\ Separator[2] = LF /\ Separator[3] = CR /\ Separator[4] = LF
    BY <2>1
  <2>6. /\ SubSeq(bytes, i-3, i)[1] = bytes[i-3] /\ SubSeq(bytes, i-3, i)[2] = bytes[i-2]
        /\ SubSeq(bytes, i-3, i)[3] = bytes[i-1] /\ SubSeq(bytes, i-3, i)[4] = bytes[i]
    <3>1. i-3+1-1 = i-3 /\ i-3+2-1 = i-2 /\ i-3+3-1 = i-1 /\ i-3+4-1 = i
      OBVIOUS
    <3> QED
      BY <2>3, <3>1
  <2>7. (\A j \in 1..4 : SubSeq(bytes, i-3, i)[j] = Separator[j]) <=> SeparatorAt(bytes, i)
    <3>1. \A f : (\A j \in 1..4 : f[j] = Separator[j]) <=> 
                   f[1] = Separator[1] /\ f[2] = Separator[2] /\ f[3] = Separator[3] /\ f[4] = Separator[4]
      OBVIOUS
    <3> QED
      BY <2>5, <2>6, <3>1, Zenon DEF SeparatorAt
  <2> QED
    BY <2>4, <2>7
<1> QED
  BY <1>1 DEF HeaderEnds

\* In a header there is one separator, its end.
LEMMA SeparatorIsLast ==
  ASSUME NEW lines \in Seq(Lines), Len(lines) > 0, NEW i \in 4..Len(Header(lines))
  PROVE  SeparatorAt(Header(lines), i) <=> i = Len(Header(lines))
<1> DEFINE n == Len(lines)
           H == Header(lines)
<1>1. lines \in Seq(Bytes) /\ n \in Nat /\ n > 0
  BY DEF Lines
<1>2. \A j \in 1..n : lines[j] # CR
  BY DEF Lines
<1>3. /\ Len(H) = 3*n + 2
      /\ \A j \in 1..n : H[3*j - 2] = lines[j] /\ H[3*j - 1] = CR /\ H[3*j] = LF
      /\ H[3*n + 1] = CR /\ H[3*n + 2] = LF
  BY <1>1, HeaderShape
<1>4. CR # LF
  BY BreakType
<1>i. i \in 4..Len(H)
  OBVIOUS
<1> HIDE DEF H, n
<1>5. SeparatorAt(H, 3*n + 2)
  <2>1. (3*n + 2) - 3 = 3*n - 1 /\ (3*n + 2) - 2 = 3*n /\ (3*n + 2) - 1 = 3*n + 1
    BY <1>1
  <2>2. n \in 1..n
    BY <1>1
  <2>3. H[3*n - 1] = CR /\ H[3*n] = LF
    BY <1>3, <2>2
  <2>4. H[3*n + 1] = CR /\ H[3*n + 2] = LF
    BY <1>3
  <2> QED
    BY <2>1, <2>3, <2>4, Zenon DEF SeparatorAt
<1>6. ASSUME i # 3*n + 2, SeparatorAt(H, i) PROVE FALSE
  <2>1. i \in 4..3*n+1
    BY <1>1, <1>3, <1>6, <1>i
  <2>2. PICK j \in 1..n : i-3 = 3*j - 2 \/ i-3 = 3*j - 1 \/ i-3 = 3*j
    <3>1. (i-1) \div 3 \in 1..n
      BY <1>1, <2>1
    <3>2. i-3 = 3*((i-1) \div 3) - 2 \/ i-3 = 3*((i-1) \div 3) - 1 \/ i-3 = 3*((i-1) \div 3)
      BY <1>1, <2>1
    <3> QED
      BY <3>1, <3>2
  <2>3. CASE i-3 = 3*j - 2
    BY <1>2, <1>3, <1>6, <2>3 DEF SeparatorAt
  <2>4. CASE i-3 = 3*j - 1
    <3>1. PICK k \in 1..n : i-1 = 3*k - 2
      <4>1. j+1 \in 1..n /\ i-1 = 3*(j+1) - 2
        BY <1>1, <2>1, <2>4
      <4> QED
        BY <4>1
    <3>2. H[3*k - 2] = lines[k] /\ lines[k] # CR
      BY <1>2, <1>3
    <3> QED
      BY <1>6, <3>1, <3>2 DEF SeparatorAt
  <2>5. CASE i-3 = 3*j
    BY <1>3, <1>4, <1>6, <2>5 DEF SeparatorAt
  <2> QED
    BY <2>2, <2>3, <2>4, <2>5
<1> QED
  BY <1>3, <1>5, <1>6 DEF H

\* A byte of a header is one of its lines or of a line break.
LEMMA HeaderBytes ==
  ASSUME NEW lines \in Seq(Bytes), NEW p \in 1..Len(Header(lines))
  PROVE  \/ Header(lines)[p] = CR
         \/ Header(lines)[p] = LF
         \/ \E j \in 1..Len(lines) : p = 3*j - 2 /\ Header(lines)[p] = lines[j]
<1> DEFINE n == Len(lines)
           H == Header(lines)
<1>1. n \in Nat /\ p \in 1..Len(H)
  OBVIOUS
<1>2. /\ Len(H) = 3*n + 2
      /\ \A j \in 1..n : H[3*j - 2] = lines[j] /\ H[3*j - 1] = CR /\ H[3*j] = LF
      /\ H[3*n + 1] = CR /\ H[3*n + 2] = LF
  BY HeaderShape
<1> HIDE DEF H, n
<1>3. CASE p \in 1..3*n
  <2>1. PICK j \in 1..n : p = 3*j - 2 \/ p = 3*j - 1 \/ p = 3*j
    <3>1. (p+2) \div 3 \in 1..n
      BY <1>1, <1>3
    <3>2. p = 3*((p+2) \div 3) - 2 \/ p = 3*((p+2) \div 3) - 1 \/ p = 3*((p+2) \div 3)
      BY <1>1, <1>3
    <3> QED
      BY <3>1, <3>2
  <2>2. H[3*j - 2] = lines[j] /\ H[3*j - 1] = CR /\ H[3*j] = LF
    BY <1>2
  <2>3. H[p] = CR \/ H[p] = LF \/ (p = 3*j - 2 /\ H[p] = lines[j])
    BY <2>1, <2>2
  <2> QED
    BY <2>3 DEF H, n
<1>4. CASE p \notin 1..3*n
  <2>1. p = 3*n + 1 \/ p = 3*n + 2
    BY <1>1, <1>2, <1>4
  <2> QED
    BY <1>2, <2>1 DEF H
<1> QED
  BY <1>3, <1>4

-----------------------------------------------------------------------------
(* Frames.                                                                 *)

HasLength(frame) == \E i \in DOMAIN frame.lines : frame.lines[i].is = "Content-Length"

\* What every frame of the model is like: a length is that of the body, and
\* without a length, or with a header that cannot be read, there is no body.
WellFormed ==
  {frame \in [lines : Seq(Lines), body : Seq(BodyBytes)] :
     /\ Len(frame.lines) > 0
     /\ \A i \in DOMAIN frame.lines :
          frame.lines[i].is = "Content-Length" => frame.lines[i].value = Len(frame.body)
     /\ HasLength(frame) <=> Len(frame.body) > 0
     /\ Unreadable(frame.lines) => ~HasLength(frame)}

LEMMA LengthIsDecoded ==
  ASSUME NEW frame \in WellFormed
  PROVE  DecodeHeader(Header(frame.lines)) = IF HasLength(frame) THEN Len(frame.body) ELSE NoLength
<1> DEFINE lines == frame.lines
           H == Header(lines)
           starts == {i \in DOMAIN H : /\ H[i].is = "Content-Length"
                                       /\ i = 1 \/ H[i-1] = Byte("LF")}
<1>1. lines \in Seq(Bytes) /\ Len(lines) \in Nat
  BY DEF WellFormed, Lines
<1>2. /\ DOMAIN H = 1..3*Len(lines)+2
      /\ \A j \in 1..Len(lines) : H[3*j - 2] = lines[j] /\ H[3*j - 1] = CR /\ H[3*j] = LF
  <2>1. H \in Seq(Bytes) /\ Len(H) = 3*Len(lines)+2
    BY <1>1, HeaderShape
  <2>2. DOMAIN H = 1..Len(H)
    BY <2>1
  <2>3. \A j \in 1..Len(lines) : H[3*j - 2] = lines[j] /\ H[3*j - 1] = CR /\ H[3*j] = LF
    BY <1>1, HeaderShape
  <2> QED
    BY <2>1, <2>2, <2>3
<1>3. CR.is # "Content-Length" /\ LF.is # "Content-Length"
  BY DEF CR, LF, Byte
<1>4. ASSUME NEW i \in starts PROVE H[i].value = Len(frame.body) /\ HasLength(frame)
  <2>1. i \in 1..Len(H)
    BY <1>1, <1>2, HeaderShape
  <2>2. PICK j \in 1..Len(lines) : H[i] = lines[j]
    BY <1>1, <1>3, <2>1, HeaderBytes
  <2>3. lines[j].is = "Content-Length"
    BY <2>2
  <2> QED
    BY <1>1, <2>2, <2>3 DEF WellFormed, HasLength
<1>5. ASSUME HasLength(frame) PROVE starts # {}
  <2>1. PICK j \in 1..Len(lines) : lines[j].is = "Content-Length"
    BY <1>1, <1>5 DEF HasLength
  <2>2. 3*j - 2 \in DOMAIN H /\ H[3*j - 2].is = "Content-Length"
    BY <1>1, <1>2, <2>1
  <2>3. 3*j - 2 = 1 \/ H[(3*j - 2) - 1] = LF
    <3>1. CASE j = 1
      BY <3>1
    <3>2. CASE j # 1
      <4>1. PICK k \in 1..Len(lines) : (3*j - 2) - 1 = 3*k
        <5>1. j-1 \in 1..Len(lines) /\ (3*j - 2) - 1 = 3*(j-1)
          BY <1>1, <3>2
        <5> QED
          BY <5>1
      <4> QED
        BY <1>2, <4>1
    <3> QED
      BY <3>1, <3>2
  <2>4. 3*j - 2 \in starts
    BY <2>2, <2>3 DEF LF
  <2> QED
    BY <2>4
<1>6. starts \subseteq Nat
  BY <1>1, <1>2
<1>7. DecodeHeader(H) = IF starts = {} THEN NoLength ELSE H[Min(starts)].value
  BY DEF DecodeHeader
<1> HIDE DEF starts, H
<1>8. starts # {} => Min(starts) \in starts
  BY <1>6, MinOfSome
<1> QED
  BY <1>4, <1>5, <1>7, <1>8 DEF H

LEMMA UnreadableLines ==
  ASSUME NEW lines \in Seq(Bytes)
  PROVE  Unreadable(Header(lines)) <=> Unreadable(lines)
<1> DEFINE H == Header(lines)
<1>1. Len(lines) \in Nat /\ DOMAIN lines = 1..Len(lines)
  OBVIOUS
<1>2. /\ DOMAIN H = 1..Len(H) /\ Len(H) = 3*Len(lines) + 2
      /\ \A j \in 1..Len(lines) : H[3*j - 2] = lines[j]
  BY HeaderShape
<1>3. CR # Byte("unreadable") /\ LF # Byte("unreadable")
  BY DEF CR, LF, Byte
<1>4. ASSUME Unreadable(H) PROVE Unreadable(lines)
  <2>1. PICK p \in 1..Len(H) : H[p] = Byte("unreadable")
    BY <1>2, <1>4 DEF Unreadable, Range
  <2>2. PICK j \in 1..Len(lines) : H[p] = lines[j]
    BY <1>3, <2>1, HeaderBytes
  <2> QED
    BY <1>1, <2>1, <2>2 DEF Unreadable, Range
<1>5. ASSUME Unreadable(lines) PROVE Unreadable(H)
  <2>1. PICK j \in 1..Len(lines) : lines[j] = Byte("unreadable")
    BY <1>1, <1>5 DEF Unreadable, Range
  <2>2. 3*j - 2 \in DOMAIN H /\ H[3*j - 2] = Byte("unreadable")
    BY <1>1, <1>2, <2>1
  <2> QED
    BY <2>2 DEF Unreadable, Range
<1> QED
  BY <1>4, <1>5

LEMMA EncodedIsWellFormed ==
  ASSUME NEW message \in Messages
  PROVE  EncodeMessage(message) \in WellFormed
<1> DEFINE utf8(c) == IF c = "e" THEN <<Byte("e1"), Byte("e2")>> ELSE <<Byte(c)>>
           chunks == [i \in DOMAIN message |-> utf8(message[i])]
           body == FlattenSeq(chunks)
<1> DEFINE Chars == {"{", "a", "e"}
<1>1. message \in Seq(Chars) /\ Len(message) > 0
  <2>1. PICK rest \in BoundedSeq({"a", "e"}, MaxChars) : message = <<"{">> \o rest
    BY DEF Messages
  <2>2. PICK n \in 0..MaxChars : rest \in [1..n -> {"a", "e"}]
    BY <2>1, Zenon DEF BoundedSeq, SeqOf
  <2>3. rest \in [1..n -> Chars] /\ "{" \in Chars
    BY <2>2
  <2> HIDE DEF Chars
  <2>4. rest \in Seq(Chars)
    <3>1. n \in Nat
      BY FramingAssumption
    <3>2. \A m \in Nat : \A f \in [1..m -> Chars] : f \in Seq(Chars)
      OBVIOUS
    <3> QED
      BY <2>3, <3>1, <3>2, Zenon
  <2>5. \A c \in Chars, s \in Seq(Chars) : <<c>> \o s \in Seq(Chars) /\ Len(<<c>> \o s) > 0
    OBVIOUS
  <2> QED
    BY <2>1, <2>3, <2>4, <2>5, Zenon
<1>2. DOMAIN message = 1..Len(message) /\ Len(message) \in Nat /\ \A i \in 1..Len(message) : message[i] \in Chars
  <2> HIDE DEF Chars
  <2> QED
    BY <1>1
<1>3. \A c \in Chars : utf8(c) \in Seq(BodyBytes) /\ Len(utf8(c)) > 0
  <2>1. \A k \in {"{", "a", "e1", "e2"} : Byte(k) \in BodyBytes
    BY DEF Byte, BodyBytes, Kinds
  <2>2. \A a, b \in BodyBytes : /\ <<a>> \in Seq(BodyBytes) /\ Len(<<a>>) > 0
                                /\ <<a, b>> \in Seq(BodyBytes) /\ Len(<<a, b>>) > 0
    OBVIOUS
  <2> QED
    BY <2>1, <2>2
<1> HIDE DEF utf8, Chars
<1>4. \A i \in 1..Len(message) : utf8(message[i]) \in Seq(BodyBytes) /\ Len(utf8(message[i])) > 0
  BY <1>2, <1>3, Zenon
<1>5. /\ chunks \in Seq(Seq(BodyBytes)) /\ Len(chunks) = Len(message)
      /\ \A i \in 1..Len(message) : Len(chunks[i]) > 0
  <2>1. chunks = [i \in 1..Len(message) |-> utf8(message[i])]
    BY <1>2, Zenon
  <2> HIDE DEF chunks
  <2> QED
    BY <1>2, <1>4, <2>1
<1>6. EncodeMessage(message) = [lines |-> <<ContentLength(Len(body))>>, body |-> body]
  BY DEF EncodeMessage, utf8
<1> HIDE DEF chunks
<1>7. body \in Seq(BodyBytes)
  BY <1>5, FlattenType
<1>8. Len(body) \in Nat /\ Len(body) > 0
  <2>1. 1 \in 1..Len(message) /\ 1 \in 1..Len(chunks)
    BY <1>1, <1>2, <1>5
  <2>2. End(chunks, 1) = End(chunks, 1-1) + Len(chunks[1]) /\ End(chunks, 1) <= Len(body)
    BY <1>5, <2>1, EndGrows, FoundInJoined
  <2>3. End(chunks, 0) = 0
    BY <1>5, JoinedEnds
  <2>4. Len(chunks[1]) > 0 /\ Len(chunks[1]) \in Nat /\ Len(body) \in Nat
    BY <1>5, <1>7, <2>1
  <2> QED
    BY <2>2, <2>3, <2>4
<1> HIDE DEF body
<1>9. ASSUME NEW n \in Nat
      PROVE  /\ ContentLength(n) \in Lines
             /\ ContentLength(n) # Byte("unreadable")
             /\ ContentLength(n).is = "Content-Length" /\ ContentLength(n).value = n
  BY DEF ContentLength, Lines, Bytes, Kinds, CR, LF, Byte
<1>10. ASSUME NEW line \in Lines
       PROVE  <<line>> \in Seq(Lines) /\ DOMAIN <<line>> = {1} /\ <<line>>[1] = line /\ Len(<<line>>) = 1
  OBVIOUS
<1> DEFINE line == ContentLength(Len(body))
<1>11. /\ <<line>> \in Seq(Lines) /\ DOMAIN <<line>> = {1} /\ <<line>>[1] = line /\ Len(<<line>>) = 1
       /\ line.is = "Content-Length" /\ line.value = Len(body) /\ line # Byte("unreadable")
  BY <1>8, <1>9, <1>10
<1> HIDE DEF line
<1>12. [lines |-> <<line>>, body |-> body] \in WellFormed
  BY <1>7, <1>8, <1>11 DEF WellFormed, HasLength, Unreadable, Range
<1> QED
  BY <1>6, <1>12 DEF line

LEMMA ForeignIsWellFormed == ForeignFrames \subseteq WellFormed
<1> DEFINE laidOut == <<Byte("{")>> \o Separator \o <<Byte("a")>>
<1>1. \A k \in Kinds : Byte(k) \in BodyBytes /\ Byte(k) \in Bytes
  BY DEF Byte, BodyBytes, Bytes
<1>2. Byte("field") \in Lines /\ Byte("unreadable") \in Lines
  BY DEF Byte, Lines, Bytes, Kinds, CR, LF
<1>3. \A n \in Nat : /\ ContentLength(n) \in Lines
                     /\ ContentLength(n).is = "Content-Length" /\ ContentLength(n).value = n
                     /\ ContentLength(n) # Byte("unreadable")
  BY DEF ContentLength, Lines, Bytes, Kinds, CR, LF, Byte
<1>4. /\ Byte("field").is # "Content-Length" /\ Byte("unreadable").is # "Content-Length"
      /\ Byte("field") # Byte("unreadable")
  BY DEF Byte
<1>5. laidOut \in Seq(BodyBytes) /\ Len(laidOut) = 6
  <2>1. \A k \in {"{", "a", "CR", "LF"} : Byte(k) \in BodyBytes
    BY <1>1 DEF Kinds
  <2>2. \A a, b, c, d \in BodyBytes : <<a, b, c, d>> \in Seq(BodyBytes) /\ Len(<<a, b, c, d>>) = 4
    OBVIOUS
  <2>3. Separator \in Seq(BodyBytes) /\ Len(Separator) = 4
    BY <2>1, <2>2 DEF Separator
  <2>4. \A s, t \in Seq(BodyBytes) : Len(s \o t) = Len(s) + Len(t)
    OBVIOUS
  <2>5. \A s, t \in Seq(BodyBytes) : s \o t \in Seq(BodyBytes)
    OBVIOUS
  <2>6. \A a \in BodyBytes : <<a>> \in Seq(BodyBytes) /\ Len(<<a>>) = 1
    OBVIOUS
  <2>7. Byte("{") \in BodyBytes /\ Byte("a") \in BodyBytes
    BY <2>1
  <2>8. laidOut \in Seq(BodyBytes)
    BY <2>3, <2>5, <2>6, <2>7, Zenon
  <2>9. Len(laidOut) = (1 + 4) + 1
    <3> DEFINE open == <<Byte("{")>>
               close == <<Byte("a")>>
    <3>1. /\ open \in Seq(BodyBytes) /\ Len(open) = 1
          /\ close \in Seq(BodyBytes) /\ Len(close) = 1
          /\ laidOut = open \o Separator \o close
      BY <2>6, <2>7, Zenon
    <3> HIDE DEF open, close, laidOut
    <3>2. open \o Separator \in Seq(BodyBytes) /\ Len(open \o Separator) = Len(open) + Len(Separator)
      BY <2>3, <2>4, <2>5, <3>1, Zenon
    <3>3. Len(open \o Separator \o close) = Len(open \o Separator) + Len(close)
      BY <2>4, <3>1, <3>2, Zenon
    <3> QED
      BY <2>3, <3>1, <3>2, <3>3, Zenon
  <2>10. (1 + 4) + 1 = 6
    OBVIOUS
  <2> QED
    BY <2>8, <2>9, <2>10, Zenon
<1> DEFINE noJson == <<Byte("a")>>
           noText == <<Byte("{"), Byte("unreadable")>>
<1>6. noJson \in Seq(BodyBytes) /\ Len(noJson) = 1 /\ noText \in Seq(BodyBytes) /\ Len(noText) = 2
  <2>1. \A k \in {"a", "{", "unreadable"} : Byte(k) \in BodyBytes
    BY <1>1 DEF Kinds
  <2>2. \A a, b \in BodyBytes : /\ <<a>> \in Seq(BodyBytes) /\ Len(<<a>>) = 1
                               /\ <<a, b>> \in Seq(BodyBytes) /\ Len(<<a, b>>) = 2
    OBVIOUS
  <2> QED
    BY <2>1, <2>2
<1> HIDE DEF laidOut, noJson, noText
<1>7. [lines |-> <<Byte("field"), ContentLength(Len(laidOut)), Byte("field")>>, body |-> laidOut] \in WellFormed
  <2> DEFINE lines == <<Byte("field"), ContentLength(6), Byte("field")>>
  <2>1. /\ lines \in Seq(Lines) /\ Len(lines) = 3 /\ DOMAIN lines = 1..3
        /\ lines[1] = Byte("field") /\ lines[2] = ContentLength(6) /\ lines[3] = Byte("field")
    BY <1>2, <1>3
  <2> HIDE DEF lines
  <2>2. \A i \in DOMAIN lines : lines[i] = Byte("field") \/ lines[i] = ContentLength(6)
    BY <2>1
  <2> DEFINE frame == [lines |-> lines, body |-> laidOut]
  <2>3. frame \in [lines : Seq(Lines), body : Seq(BodyBytes)] /\ frame.lines = lines /\ frame.body = laidOut
    BY <1>5, <2>1
  <2> HIDE DEF frame
  <2>4. HasLength(frame)
    BY <1>3, <2>1, <2>3 DEF HasLength
  <2>5. ~Unreadable(frame.lines)
    BY <1>3, <1>4, <2>2, <2>3 DEF Unreadable, Range
  <2>6. \A i \in DOMAIN lines : lines[i].is = "Content-Length" => lines[i].value = 6
    BY <1>3, <1>4, <2>2
  <2>7. /\ Len(frame.lines) = 3 /\ Len(frame.body) = 6
        /\ \A i \in DOMAIN frame.lines :
             frame.lines[i].is = "Content-Length" => frame.lines[i].value = Len(frame.body)
    BY <1>5, <2>1, <2>3, <2>6, Zenon
  <2>8. 3 > 0 /\ 6 > 0
    OBVIOUS
  <2>9. frame \in WellFormed
    BY <2>3, <2>4, <2>5, <2>7, <2>8, Zenon DEF WellFormed
  <2> QED
    BY <1>5, <2>9 DEF lines, frame
<1>8. \A line \in Lines : /\ <<line>> \in Seq(Lines) /\ Len(<<line>>) = 1
                          /\ DOMAIN <<line>> = {1} /\ <<line>>[1] = line
  OBVIOUS
<1>9. ASSUME NEW line \in {Byte("field"), Byte("unreadable")}
      PROVE  [lines |-> <<line>>, body |-> <<>>] \in WellFormed
  <2>1. <<>> \in Seq(BodyBytes) /\ Len(<<>>) = 0
    OBVIOUS
  <2> DEFINE frame == [lines |-> <<line>>, body |-> <<>>]
  <2>2. /\ frame \in [lines : Seq(Lines), body : Seq(BodyBytes)]
        /\ frame.lines = <<line>> /\ frame.body = <<>>
    BY <1>2, <1>8, <2>1
  <2> HIDE DEF frame
  <2>3. \A i \in DOMAIN frame.lines : frame.lines[i].is # "Content-Length"
    BY <1>2, <1>4, <1>8, <2>2
  <2>4. ~HasLength(frame)
    BY <2>3 DEF HasLength
  <2>5. Len(frame.lines) > 0 /\ ~(Len(frame.body) > 0)
    BY <1>2, <1>8, <2>1, <2>2
  <2> QED
    BY <2>2, <2>3, <2>4, <2>5, Zenon DEF WellFormed, frame
<1>10. ASSUME NEW n \in 1..2, NEW body \in Seq(BodyBytes), Len(body) = n
       PROVE  [lines |-> <<ContentLength(n)>>, body |-> body] \in WellFormed
  <2> DEFINE lines == <<ContentLength(n)>>
             frame == [lines |-> lines, body |-> body]
  <2>1. /\ lines \in Seq(Lines) /\ Len(lines) = 1
        /\ DOMAIN lines = {1} /\ lines[1] = ContentLength(n)
    BY <1>3, <1>8
  <2>2. ContentLength(n).is = "Content-Length" /\ ContentLength(n).value = n
    BY <1>3
  <2> HIDE DEF lines
  <2>3. /\ frame \in [lines : Seq(Lines), body : Seq(BodyBytes)]
        /\ frame.lines = lines /\ frame.body = body
    BY <2>1
  <2> HIDE DEF frame
  <2>4. HasLength(frame)
    BY <2>1, <2>2, <2>3 DEF HasLength
  <2>5. ~Unreadable(frame.lines)
    BY <1>3, <2>1, <2>3 DEF Unreadable, Range
  <2>6. \A i \in DOMAIN frame.lines :
          frame.lines[i].is = "Content-Length" => frame.lines[i].value = Len(frame.body)
    <3>1. \A i \in DOMAIN lines : lines[i].value = n
      BY <2>1, <2>2
    <3> QED
      BY <1>10, <2>3, <3>1, Zenon
  <2>7. Len(frame.lines) > 0 /\ Len(frame.body) > 0
    <3>1. 1 > 0 /\ n > 0
      OBVIOUS
    <3> QED
      BY <1>10, <2>1, <2>3, <3>1, Zenon
  <2>8. frame \in WellFormed
    BY <2>3, <2>4, <2>5, <2>6, <2>7, Zenon DEF WellFormed
  <2> QED
    BY <2>8 DEF lines, frame
<1>11. [lines |-> <<ContentLength(1)>>, body |-> noJson] \in WellFormed
  BY <1>6, <1>10
<1>12. [lines |-> <<ContentLength(2)>>, body |-> noText] \in WellFormed
  BY <1>6, <1>10
<1>13. /\ [lines |-> <<Byte("field")>>, body |-> <<>>] \in WellFormed
       /\ [lines |-> <<Byte("unreadable")>>, body |-> <<>>] \in WellFormed
  BY <1>9
<1> QED
  BY <1>7, <1>11, <1>12, <1>13, Zenon DEF ForeignFrames, laidOut, noJson, noText

LEMMA FramesAreWellFormed == Frames \subseteq WellFormed
BY EncodedIsWellFormed, ForeignIsWellFormed DEF Frames

-----------------------------------------------------------------------------
(* Where the frames are in a stream.                                       *)

Chunks(fs) == [i \in DOMAIN fs |-> Header(fs[i].lines) \o fs[i].body]

\* Where the header of a frame ends, from its beginning.
HeaderLen(frame) == Len(Header(frame.lines))

\* Where the first k frames end.
Off(fs, k) == End(Chunks(fs), k)

LEMMA FrameShape ==
  ASSUME NEW frame \in WellFormed
  PROVE  /\ frame.lines \in Seq(Lines) /\ frame.lines \in Seq(Bytes)
         /\ Len(frame.lines) \in Nat /\ Len(frame.lines) > 0
         /\ frame.body \in Seq(BodyBytes) /\ frame.body \in Seq(Bytes)
         /\ Len(frame.body) \in Nat
         /\ Header(frame.lines) \in Seq(Bytes)
         /\ HeaderLen(frame) \in Nat /\ HeaderLen(frame) > 4
<1>1. frame.lines \in Seq(Lines) /\ frame.body \in Seq(BodyBytes) /\ Len(frame.lines) > 0
  BY DEF WellFormed
<1>2. Lines \subseteq Bytes /\ BodyBytes \subseteq Bytes
  BY DEF Lines, Bytes, BodyBytes
<1>3. frame.lines \in Seq(Bytes) /\ frame.body \in Seq(Bytes)
  BY <1>1, <1>2
<1>4. Len(frame.lines) \in Nat /\ Len(frame.body) \in Nat
  BY <1>1
<1>5. Header(frame.lines) \in Seq(Bytes) /\ HeaderLen(frame) = 3 * Len(frame.lines) + 2
  BY <1>3, HeaderShape DEF HeaderLen
<1> QED
  BY <1>1, <1>3, <1>4, <1>5

LEMMA ChunksType ==
  ASSUME NEW fs \in Seq(WellFormed)
  PROVE  /\ Chunks(fs) \in Seq(Seq(Bytes))
         /\ Len(Chunks(fs)) = Len(fs)
         /\ \A i \in 1..Len(fs) : Chunks(fs)[i] = Header(fs[i].lines) \o fs[i].body
<1> DEFINE chunk(i) == Header(fs[i].lines) \o fs[i].body
<1>1. DOMAIN fs = 1..Len(fs) /\ Len(fs) \in Nat /\ \A i \in 1..Len(fs) : fs[i] \in WellFormed
  OBVIOUS
<1>2. Chunks(fs) = [i \in 1..Len(fs) |-> chunk(i)]
  BY <1>1, Zenon DEF Chunks
<1>3. \A s, t \in Seq(Bytes) : s \o t \in Seq(Bytes)
  OBVIOUS
<1>4. \A i \in 1..Len(fs) : chunk(i) \in Seq(Bytes)
  BY <1>1, <1>3, FrameShape, Zenon
<1> HIDE DEF chunk
<1>5. Chunks(fs) \in Seq(Seq(Bytes)) /\ Len(Chunks(fs)) = Len(fs)
  BY <1>1, <1>2, <1>4
<1>6. \A i \in 1..Len(fs) : Chunks(fs)[i] = chunk(i)
  BY <1>2
<1> QED
  BY <1>5, <1>6 DEF chunk

LEMMA WrittenIsJoined ==
  ASSUME NEW fs \in Seq(WellFormed)
  PROVE  /\ Written(fs) = FlattenSeq(Chunks(fs))
         /\ \A k \in 0..Len(fs) : Written(SubSeq(fs, 1, k)) = Joined(Chunks(fs), k)
<1>1. \A s : Written(s) = FlattenSeq(Chunks(s))
  BY DEF Written, Chunks
<1>2. ASSUME NEW k \in 0..Len(fs) PROVE Chunks(SubSeq(fs, 1, k)) = SubSeq(Chunks(fs), 1, k)
  <2>1. /\ SubSeq(fs, 1, k) \in Seq(WellFormed) /\ Len(SubSeq(fs, 1, k)) = k
        /\ \A i \in 1..k : SubSeq(fs, 1, k)[i] = fs[i]
    OBVIOUS
  <2>2. \A s \in Seq(WellFormed) : /\ Chunks(s) \in Seq(Seq(Bytes)) /\ Len(Chunks(s)) = Len(s)
                                   /\ \A i \in 1..Len(s) : Chunks(s)[i] = Header(s[i].lines) \o s[i].body
    BY ChunksType
  <2> DEFINE a == Chunks(SubSeq(fs, 1, k))
             b == Chunks(fs)
  <2>3. a \in Seq(Seq(Bytes)) /\ Len(a) = k /\ \A i \in 1..k : a[i] = b[i]
    <3>1. \A i \in 1..k : i \in 1..Len(fs)
      OBVIOUS
    <3>2. a \in Seq(Seq(Bytes)) /\ Len(a) = k
      BY <2>1, <2>2, Zenon
    <3>3. \A i \in 1..k : a[i] = b[i]
      BY <2>1, <2>2, <3>1, Zenon
    <3> QED
      BY <3>2, <3>3
  <2>4. b \in Seq(Seq(Bytes)) /\ Len(b) = Len(fs)
    BY <2>2
  <2> HIDE DEF a, b
  <2>5. SubSeq(b, 1, k) = a
    BY <2>3, <2>4
  <2> QED
    BY <2>5 DEF a, b
<1> QED
  BY <1>1, <1>2 DEF Joined

LEMMA Places ==
  ASSUME NEW fs \in Seq(WellFormed), NEW k \in 0..Len(fs)-1
  PROVE  /\ k+1 \in 1..Len(fs) /\ fs[k+1] \in WellFormed
         /\ Off(fs, k) \in Nat
         /\ Off(fs, k+1) = Off(fs, k) + HeaderLen(fs[k+1]) + Len(fs[k+1].body)
         /\ Off(fs, k+1) <= Len(Written(fs))
         /\ \A p \in 1..HeaderLen(fs[k+1]) :
              Written(fs)[Off(fs, k) + p] = Header(fs[k+1].lines)[p]
         /\ \A p \in 1..Len(fs[k+1].body) :
              Written(fs)[Off(fs, k) + HeaderLen(fs[k+1]) + p] = fs[k+1].body[p]
<1> DEFINE frame == fs[k+1]
           h == Header(frame.lines)
           b == frame.body
<1>1. k+1 \in 1..Len(fs) /\ (k+1)-1 = k /\ frame \in WellFormed
  OBVIOUS
<1>2. h \in Seq(Bytes) /\ b \in Seq(Bytes) /\ Len(h) \in Nat /\ Len(b) \in Nat
  <2>1. \A f \in WellFormed : /\ Header(f.lines) \in Seq(Bytes) /\ f.body \in Seq(Bytes)
                              /\ Len(f.body) \in Nat
    BY FrameShape
  <2>2. h \in Seq(Bytes) /\ b \in Seq(Bytes)
    BY <1>1, <2>1, Zenon
  <2> HIDE DEF h, b
  <2> QED
    BY <2>2
<1>3. Chunks(fs) \in Seq(Seq(Bytes)) /\ Len(Chunks(fs)) = Len(fs) /\ Chunks(fs)[k+1] = h \o b
  BY <1>1, ChunksType
<1>4. Len(h \o b) = Len(h) + Len(b)
  <2> HIDE DEF h, b
  <2> QED
    BY <1>2
<1>5. Off(fs, k) \in Nat /\ Off(fs, k+1) = Off(fs, k) + Len(h) + Len(b)
  <2>1. Off(fs, k) \in Nat /\ Off(fs, k+1) = Off(fs, k) + Len(h \o b)
    BY <1>1, <1>3, EndGrows DEF Off
  <2> HIDE DEF h, b
  <2> QED
    BY <1>2, <1>4, <2>1
<1>6. /\ Off(fs, k+1) <= Len(Written(fs))
      /\ \A j \in 1..Len(h) + Len(b) : Written(fs)[Off(fs, k) + j] = (h \o b)[j]
  <2>1. Written(fs) = FlattenSeq(Chunks(fs))
    BY WrittenIsJoined
  <2> DEFINE c == Chunks(fs)
             i == k+1
  <2>2. c \in Seq(Seq(Bytes)) /\ i \in 1..Len(c) /\ c[i] = h \o b /\ Len(c[i]) = Len(h) + Len(b)
    BY <1>1, <1>3, <1>4, Zenon
  <2> HIDE DEF c, h, b, i
  <2>3. /\ End(c, i) <= Len(FlattenSeq(c))
        /\ \A j \in 1..Len(c[i]) : FlattenSeq(c)[End(c, i-1) + j] = c[i][j]
    BY <2>2, FoundInJoined
  <2>4. i = k+1 /\ i-1 = k
    BY <1>1 DEF i
  <2> QED
    BY <2>1, <2>2, <2>3, <2>4, Zenon DEF Off, c
<1> HIDE DEF h, b
<1>7. /\ \A p \in 1..Len(h) : (h \o b)[p] = h[p]
      /\ \A p \in 1..Len(b) : (h \o b)[Len(h) + p] = b[p]
  BY <1>2
<1>8. \A p \in 1..Len(h) : Written(fs)[Off(fs, k) + p] = h[p]
  BY <1>2, <1>6, <1>7
<1>9. \A p \in 1..Len(b) : Written(fs)[Off(fs, k) + Len(h) + p] = b[p]
  <2> TAKE p \in 1..Len(b)
  <2>1. Len(h) + p \in 1..Len(h) + Len(b) /\ Off(fs, k) + (Len(h) + p) = Off(fs, k) + Len(h) + p
    BY <1>2, <1>5
  <2>2. Written(fs)[Off(fs, k) + (Len(h) + p)] = (h \o b)[Len(h) + p]
    BY <1>6, <2>1
  <2> QED
    BY <1>7, <2>1, <2>2
<1> QED
  BY <1>1, <1>5, <1>6, <1>8, <1>9 DEF HeaderLen, h, b

LEMMA OffGrows ==
  ASSUME NEW fs \in Seq(WellFormed)
  PROVE  /\ Written(fs) \in Seq(Bytes)
         /\ Off(fs, 0) = 0 /\ Off(fs, Len(fs)) = Len(Written(fs))
         /\ \A k \in 0..Len(fs) : Off(fs, k) \in Nat
         /\ \A k \in 0..Len(fs) : \A l \in k..Len(fs) : Off(fs, k) <= Off(fs, l)
<1> DEFINE c == Chunks(fs)
<1>1. c \in Seq(Seq(Bytes)) /\ Len(c) = Len(fs) /\ Written(fs) = FlattenSeq(c)
  BY ChunksType, WrittenIsJoined, Zenon
<1>2. \A k : Off(fs, k) = End(c, k)
  BY DEF Off
<1> HIDE DEF c
<1>3. Written(fs) \in Seq(Bytes) /\ End(c, 0) = 0 /\ End(c, Len(c)) = Len(Written(fs))
  BY <1>1, FlattenType, JoinedEnds
<1>4. \A k \in 0..Len(c) : \A l \in k..Len(c) :
        End(c, k) \in Nat /\ End(c, l) \in Nat /\ End(c, k) <= End(c, l)
  BY <1>1, JoinedIsPrefix
<1>5. \A k \in 0..Len(fs) : k \in k..Len(fs)
  OBVIOUS
<1>6. \A k \in 0..Len(fs) : Off(fs, k) \in Nat
  BY <1>1, <1>2, <1>4, <1>5, Zenon
<1>7. \A k \in 0..Len(fs) : \A l \in k..Len(fs) : Off(fs, k) <= Off(fs, l)
  BY <1>1, <1>2, <1>4, Zenon
<1>8. Off(fs, 0) = 0 /\ Off(fs, Len(fs)) = Len(Written(fs))
  BY <1>1, <1>2, <1>3, Zenon
<1> QED
  BY <1>3, <1>6, <1>7, <1>8, Zenon

\* Frames that end within the first n bytes are the first ones.
LEMMA FramesWithinAreFirst ==
  ASSUME frames \in Seq(WellFormed), NEW k \in 0..Len(frames), NEW n \in Nat,
         Off(frames, k) <= n, k < Len(frames) => n < Off(frames, k+1)
  PROVE  Cardinality(FramesWithin(n)) = k
<1>1. DOMAIN frames = 1..Len(frames) /\ Len(frames) \in Nat
  OBVIOUS
<1>2. \A i \in 1..Len(frames) : Len(Written(SubSeq(frames, 1, i))) = Off(frames, i)
  BY WrittenIsJoined DEF Off, End
<1>3. \A i \in 1..k : Off(frames, i) <= n
  <2> TAKE i \in 1..k
  <2>1. i \in 0..Len(frames) /\ k \in i..Len(frames)
    BY <1>1
  <2>2. Off(frames, i) <= Off(frames, k) /\ Off(frames, i) \in Nat /\ Off(frames, k) \in Nat
    BY <2>1, OffGrows
  <2> QED
    BY <2>2
<1>4. ASSUME NEW i \in 1..Len(frames), i \notin 1..k PROVE ~(Off(frames, i) <= n)
  <2>1. k+1 \in 0..Len(frames) /\ i \in k+1..Len(frames) /\ k < Len(frames)
    BY <1>1, <1>4
  <2>2. Off(frames, k+1) <= Off(frames, i)
    BY <2>1, OffGrows
  <2>3. i \in 0..Len(frames)
    BY <1>1
  <2>4. Off(frames, k+1) \in Nat /\ Off(frames, i) \in Nat
    BY <2>1, <2>3, OffGrows
  <2> QED
    BY <2>1, <2>2, <2>4
<1>5. FramesWithin(n) = 1..k
  <2>1. \A i \in 1..k : i \in 1..Len(frames)
    BY <1>1
  <2> QED
    BY <1>1, <1>2, <1>3, <1>4, <2>1 DEF FramesWithin
<1> QED
  BY <1>5, FS_Interval

LEMMA FrameAt ==
  ASSUME frames \in Seq(WellFormed), NEW n \in Nat, NEW k \in 0..Len(frames), Off(frames, k) <= n
  PROVE  \E l \in k..Len(frames) :
           Off(frames, l) <= n /\ (l < Len(frames) => n < Off(frames, l+1))
<1> DEFINE over == {i \in k+1..Len(frames) : n < Off(frames, i)}
<1>1. Len(frames) \in Nat /\ \A i \in 0..Len(frames) : Off(frames, i) \in Nat
  BY OffGrows
<1>2. CASE over = {}
  <2>1. ~(n < Off(frames, Len(frames)))
    <3>1. CASE k = Len(frames)
      BY <1>1, <3>1
    <3>2. CASE k # Len(frames)
      <4>1. Len(frames) \in k+1..Len(frames)
        BY <1>1, <3>2
      <4> QED
        BY <1>2, <4>1
    <3> QED
      BY <3>1, <3>2
  <2>2. Len(frames) \in k..Len(frames) /\ ~(Len(frames) < Len(frames)) /\ Len(frames) \in 0..Len(frames)
    BY <1>1
  <2> QED
    BY <1>1, <2>1, <2>2
<1>3. CASE over # {}
  <2>1. over \subseteq Nat
    OBVIOUS
  <2> HIDE DEF over
  <2>2. PICK i \in over : \A j \in over : i <= j
    BY <1>3, <2>1, FirstOfSome
  <2> USE DEF over
  <2>3. i-1 \in k..Len(frames) /\ i-1 \in 0..Len(frames) /\ (i-1)+1 = i
    BY <1>1
  <2>4. Off(frames, i-1) <= n
    <3>1. CASE i-1 = k
      BY <3>1
    <3>2. CASE i-1 # k
      <4>1. i-1 \in k+1..Len(frames) /\ i-1 \notin over
        BY <1>1, <2>2, <3>2
      <4> QED
        BY <1>1, <2>3, <4>1
    <3> QED
      BY <3>1, <3>2
  <2> QED
    BY <2>3, <2>4
<1> QED
  BY <1>2, <1>3

-----------------------------------------------------------------------------
(* The messages of a stream.                                               *)

Parts == [i \in 1..Len(frames) |-> IF IsMessage(frames[i]) THEN <<frames[i].body>> ELSE <<>>]

\* A body that is JSON is not empty, and so its length was given.
LEMMA JsonIsMessage ==
  ASSUME NEW frame \in WellFormed
  PROVE  /\ IsMessage(frame) <=> IsJson(frame.body)
         /\ IsJson(frame.body) => HasLength(frame)
<1>1. DOMAIN frame.body = 1..Len(frame.body) /\ Len(frame.body) \in Nat
  <2>1. frame.body \in Seq(BodyBytes)
    BY FrameShape
  <2> QED
    BY <2>1
<1>2. ASSUME IsJson(frame.body) PROVE Len(frame.body) > 0
  <2>1. PICK i \in DOMAIN frame.body : frame.body[i] = Byte("{")
    BY <1>2 DEF IsJson, Range
  <2>2. i \in 1..Len(frame.body)
    BY <1>1, <2>1, Zenon
  <2>3. \A n \in Nat : \A j \in 1..n : n > 0
    OBVIOUS
  <2> QED
    BY <1>1, <2>2, <2>3, Zenon
<1>3. IsJson(frame.body) => HasLength(frame)
  BY <1>2 DEF WellFormed
<1>4. ASSUME HasLength(frame)
      PROVE  \E i \in DOMAIN frame.lines : frame.lines[i] = ContentLength(Len(frame.body))
  <2>1. PICK i \in DOMAIN frame.lines : frame.lines[i].is = "Content-Length"
    BY <1>4 DEF HasLength
  <2>2. frame.lines[i].value = Len(frame.body)
    BY <2>1 DEF WellFormed
  <2>3. frame.lines[i] \in Bytes
    <3>1. frame.lines \in Seq(Bytes)
      BY FrameShape
    <3> QED
      BY <3>1
  <2>4. frame.lines[i] = [is |-> "Content-Length", value |-> Len(frame.body)]
    BY <2>1, <2>2, <2>3 DEF Bytes
  <2> QED
    BY <2>4 DEF ContentLength
<1> QED
  BY <1>3, <1>4 DEF IsMessage

LEMMA PartsType ==
  ASSUME frames \in Seq(WellFormed)
  PROVE  /\ Parts \in Seq(Seq(Seq(BodyBytes)))
         /\ Len(Parts) = Len(frames)
         /\ \A i \in 1..Len(frames) :
              Parts[i] = IF IsMessage(frames[i]) THEN <<frames[i].body>> ELSE <<>>
<1> DEFINE part(i) == IF IsMessage(frames[i]) THEN <<frames[i].body>> ELSE <<>>
<1>1. Len(frames) \in Nat /\ \A i \in 1..Len(frames) : frames[i] \in WellFormed
  OBVIOUS
<1>2. \A i \in 1..Len(frames) : frames[i].body \in Seq(BodyBytes)
  BY <1>1, FrameShape, Zenon
<1>3. \A T : \A s \in T : <<s>> \in Seq(T) /\ <<>> \in Seq(T)
  OBVIOUS
<1>4. \A i \in 1..Len(frames) : part(i) \in Seq(Seq(BodyBytes))
  BY <1>2, <1>3, Zenon
<1>5. Parts = [i \in 1..Len(frames) |-> part(i)]
  BY DEF Parts
<1> HIDE DEF part
<1>6. Parts \in Seq(Seq(Seq(BodyBytes))) /\ Len(Parts) = Len(frames)
  BY <1>1, <1>4, <1>5
<1>7. \A i \in 1..Len(frames) : Parts[i] = part(i)
  BY <1>5
<1> QED
  BY <1>6, <1>7 DEF part

LEMMA MessagesAreJoined ==
  ASSUME frames \in Seq(WellFormed), NEW k \in 0..Len(frames)
  PROVE  MessagesOf(k) = Joined(Parts, k)
<1> DEFINE part(i) == IF IsMessage(frames[i]) THEN <<frames[i].body>> ELSE <<>>
<1>1. /\ Parts \in Seq(Seq(Seq(BodyBytes))) /\ Len(Parts) = Len(frames)
      /\ \A i \in 1..Len(frames) : Parts[i] = part(i)
  BY PartsType
<1>2. \A i \in 1..k : i \in 1..Len(frames)
  OBVIOUS
<1>3. SubSeq(Parts, 1, k) = [i \in 1..k |-> Parts[i]]
  BY <1>1
<1>4. SubSeq(Parts, 1, k) = [i \in 1..k |-> part(i)]
  BY <1>1, <1>2, <1>3, Zenon
<1> QED
  BY <1>4, Zenon DEF MessagesOf, Joined

LEMMA MessagesType ==
  ASSUME frames \in Seq(WellFormed), NEW k \in 0..Len(frames)
  PROVE  MessagesOf(k) \in Seq(Seq(BodyBytes))
<1>1. Parts \in Seq(Seq(Seq(BodyBytes))) /\ Len(Parts) = Len(frames)
  BY PartsType
<1>2. SubSeq(Parts, 1, k) \in Seq(Seq(Seq(BodyBytes)))
  BY <1>1
<1> QED
  BY <1>2, MessagesAreJoined, FlattenType DEF Joined

LEMMA NextMessage ==
  ASSUME frames \in Seq(WellFormed), NEW k \in 0..Len(frames)-1
  PROVE  MessagesOf(k+1) = IF IsJson(frames[k+1].body)
                           THEN Append(MessagesOf(k), frames[k+1].body) ELSE MessagesOf(k)
<1>1. k \in 0..Len(frames) /\ k+1 \in 0..Len(frames) /\ k+1 \in 1..Len(frames) /\ (k+1)-1 = k
  OBVIOUS
<1>2. Parts \in Seq(Seq(Seq(BodyBytes))) /\ k+1 \in 1..Len(Parts)
  BY <1>1, PartsType
<1>3. MessagesOf(k+1) = MessagesOf(k) \o Parts[k+1]
  BY <1>1, <1>2, JoinedGrows, MessagesAreJoined
<1>4. Parts[k+1] = IF IsJson(frames[k+1].body) THEN <<frames[k+1].body>> ELSE <<>>
  <2>1. frames[k+1] \in WellFormed
    BY <1>1
  <2> QED
    BY <1>1, <2>1, JsonIsMessage, PartsType, Zenon
<1>5. MessagesOf(k) \in Seq(Seq(BodyBytes))
  BY <1>1, MessagesType
<1>6. frames[k+1].body \in Seq(BodyBytes)
  BY <1>1, FrameShape
<1>7. \A T : \A s \in Seq(T) : s \o <<>> = s /\ \A e \in T : s \o <<e>> = Append(s, e)
  OBVIOUS
<1> QED
  BY <1>3, <1>4, <1>5, <1>6, <1>7, Zenon

LEMMA MessagesGrow ==
  ASSUME frames \in Seq(WellFormed), NEW k \in 0..Len(frames), NEW l \in k..Len(frames)
  PROVE  IsPrefix(MessagesOf(k), MessagesOf(l))
<1> DEFINE s == MessagesOf(k)
           t == MessagesOf(l)
<1>1. k \in 0..Len(frames) /\ l \in 0..Len(frames)
  OBVIOUS
<1>2. s \in Seq(Seq(BodyBytes)) /\ t \in Seq(Seq(BodyBytes))
  BY <1>1, MessagesType
<1>3. s = Joined(Parts, k) /\ t = Joined(Parts, l)
  BY <1>1, MessagesAreJoined
<1>4. Parts \in Seq(Seq(Seq(BodyBytes))) /\ k \in 0..Len(Parts) /\ l \in k..Len(Parts)
  BY PartsType
<1>5. Len(s) <= Len(t) /\ \A p \in 1..Len(s) : t[p] = s[p]
  BY <1>3, <1>4, JoinedIsPrefix DEF End
<1> HIDE DEF s, t
<1>6. SubSeq(s, 1, Len(s)) = SubSeq(t, 1, Len(s))
  <2>1. \A T : \A a, b \in Seq(T) : Len(a) <= Len(b) =>
          /\ SubSeq(b, 1, Len(a)) \in Seq(T) /\ Len(SubSeq(b, 1, Len(a))) = Len(a)
          /\ \A p \in 1..Len(a) : SubSeq(b, 1, Len(a))[p] = b[p]
    OBVIOUS
  <2> DEFINE u == SubSeq(t, 1, Len(s))
  <2>2. u \in Seq(Seq(BodyBytes)) /\ Len(u) = Len(s) /\ \A p \in 1..Len(s) : u[p] = t[p]
    BY <1>2, <1>5, <2>1, Zenon
  <2> HIDE DEF u
  <2>3. u = s
    BY <1>2, <1>5, <2>2, SeqEqual
  <2>4. SubSeq(s, 1, Len(s)) = s
    BY <1>2
  <2> QED
    BY <2>3, <2>4 DEF u
<1> QED
  BY <1>5, <1>6 DEF IsPrefix, s, t

-----------------------------------------------------------------------------
(* The parsers.                                                            *)

\* A parser that took n bytes and holds some of them, waits for so long a body and
\* is in a state, is done with k frames.
Done(k, n, bytes, body, s) ==
  LET o == Off(frames, k)
      header == HeaderLen(frames[k+1])
  IN /\ o <= n
     /\ (parser = "mux" \/ s \in {"reading", "closed"}) /\ k < Len(frames)
          => n < Off(frames, k+1)
     /\ s \in {"reading", "cutting"} /\ body = NoLength =>
          /\ Len(bytes) = n - o
          /\ \A p \in 1..Len(bytes) : bytes[p] = stream[o + p]
     /\ parser = "mux" /\ s = "reading" /\ body = NoLength /\ k < Len(frames) => n < o + header
     /\ s = "reading" /\ body # NoLength =>
          k < Len(frames) /\ n = o + header /\ body = Len(frames[k+1].body) /\ bytes = <<>>

Parsed(k) == got = MessagesOf(k) /\ Done(k, taken, buf, length, state)

IInv ==
  /\ TypeOK
  /\ frames \in Seq(WellFormed)
  /\ Len(stream) <= Len(Written(frames))
  /\ \A p \in 1..Len(stream) : stream[p] = Written(frames)[p]
  /\ parser = "mux" => state # "cutting"
  /\ parser = "repl" => length = NoLength
  /\ TruncationIsNoFailure
  /\ \E k \in 0..Len(frames) : Parsed(k)

-----------------------------------------------------------------------------
(* What the parsers find.                                                  *)

LEMMA HeaderFound ==
  ASSUME NEW frame \in WellFormed, NEW bytes \in Seq(Bytes),
         \A p \in 1..Len(bytes) : p <= HeaderLen(frame) => bytes[p] = Header(frame.lines)[p]
  PROVE  /\ Len(bytes) < HeaderLen(frame) => HeaderEnds(bytes) = {}
         /\ HeaderLen(frame) <= Len(bytes) =>
              /\ HeaderEnds(bytes) # {}
              /\ Min(HeaderEnds(bytes)) = HeaderLen(frame)
              /\ SubSeq(bytes, 1, HeaderLen(frame)) = Header(frame.lines)
<1> DEFINE H == Header(frame.lines)
           n == HeaderLen(frame)
           ends == HeaderEnds(bytes)
<1>1. H \in Seq(Bytes) /\ n = Len(H) /\ n \in Nat /\ n > 4
  BY FrameShape DEF HeaderLen
<1>2. Len(bytes) \in Nat /\ \A p \in 1..Len(bytes) : p <= n => bytes[p] = H[p]
  OBVIOUS
<1>3. ends = {i \in 4..Len(bytes) : SeparatorAt(bytes, i)}
  BY HeaderEndsAtSeparators
<1>4. \A i \in 4..n : SeparatorAt(H, i) <=> i = n
  BY <1>1, FrameShape, SeparatorIsLast
<1> HIDE DEF H, n, ends
<1>5. ASSUME NEW i \in 4..Len(bytes), i <= n PROVE SeparatorAt(bytes, i) <=> i = n
  <2>1. \A j \in 0..3 : i-j \in 1..Len(bytes) /\ i-j <= n
    BY <1>1, <1>2, <1>5
  <2>2. bytes[i-3] = H[i-3] /\ bytes[i-2] = H[i-2] /\ bytes[i-1] = H[i-1]
    BY <1>2, <2>1
  <2>3. bytes[i] = H[i]
    BY <1>2, <1>5
  <2>4. SeparatorAt(bytes, i) <=> SeparatorAt(H, i)
    BY <2>2, <2>3, Zenon DEF SeparatorAt
  <2>5. i \in 4..n
    BY <1>1, <1>5
  <2> QED
    BY <1>4, <2>4, <2>5
<1>6. ASSUME Len(bytes) < n PROVE ends = {}
  BY <1>1, <1>2, <1>3, <1>5, <1>6
<1>7. ASSUME n <= Len(bytes) PROVE ends # {} /\ Min(ends) = n /\ SubSeq(bytes, 1, n) = H
  <2>1. n \in 4..Len(bytes) /\ n \in ends
    BY <1>1, <1>2, <1>3, <1>5, <1>7
  <2>2. \A i \in ends : n <= i
    BY <1>1, <1>2, <1>3, <1>5
  <2>3. ends \subseteq Nat
    BY <1>3
  <2>4. Min(ends) \in ends /\ Min(ends) <= n
    BY <2>1, <2>3, MinOfSome
  <2>5. Min(ends) = n
    <3>1. \A m \in ends : m <= n /\ n <= m => m = n
      BY <1>1, <2>3
    <3> QED
      BY <2>2, <2>4, <3>1, Zenon
  <2>6. SubSeq(bytes, 1, n) \in Seq(Bytes) /\ Len(SubSeq(bytes, 1, n)) = n
    BY <1>1, <1>2, <1>7
  <2>7. \A p \in 1..n : SubSeq(bytes, 1, n)[p] = bytes[p]
    BY <1>1, <1>2, <1>7
  <2>8. \A p \in 1..n : SubSeq(bytes, 1, n)[p] = H[p]
    <3>1. \A p \in 1..n : p \in 1..Len(bytes) /\ p <= n
      BY <1>1, <1>2, <1>7
    <3> QED
      BY <1>2, <2>7, <3>1, Zenon
  <2>9. SubSeq(bytes, 1, n) = H
    BY <1>1, <2>6, <2>8, SeqEqual
  <2> QED
    BY <2>1, <2>5, <2>9
<1> QED
  BY <1>1, <1>2, <1>6, <1>7 DEF H, n, ends

\* What is said of a header found.
LEMMA HeaderRead ==
  ASSUME NEW frame \in WellFormed
  PROVE  LET H == Header(frame.lines)
         IN /\ Unreadable(H) <=> Unreadable(frame.lines)
            /\ Unreadable(H) \/ DecodeHeader(H) = NoLength <=> ~HasLength(frame)
            /\ HasLength(frame) => DecodeHeader(H) = Len(frame.body)
            /\ ~HasLength(frame) => Len(frame.body) = 0
            /\ HasLength(frame) => Len(frame.body) \in Nat \ {0}
            /\ ~IsJson(frame.body) <=> ~IsMessage(frame)
            /\ ~HasLength(frame) => ~IsJson(frame.body)
<1> DEFINE H == Header(frame.lines)
<1>1. Unreadable(H) <=> Unreadable(frame.lines)
  BY FrameShape, UnreadableLines
<1>2. DecodeHeader(H) = IF HasLength(frame) THEN Len(frame.body) ELSE NoLength
  BY LengthIsDecoded
<1>3. Len(frame.body) \in Nat
  BY FrameShape
<1>4. HasLength(frame) <=> Len(frame.body) > 0
  BY DEF WellFormed
<1>5. Unreadable(frame.lines) => ~HasLength(frame)
  BY DEF WellFormed
<1>6. (IsMessage(frame) <=> IsJson(frame.body)) /\ (IsJson(frame.body) => HasLength(frame))
  BY JsonIsMessage
<1> HIDE DEF H
<1>7. HasLength(frame) => DecodeHeader(H) # NoLength
  BY <1>2, <1>3 DEF NoLength
<1>8. Unreadable(H) \/ DecodeHeader(H) = NoLength <=> ~HasLength(frame)
  BY <1>1, <1>2, <1>5, <1>7
<1> QED
  BY <1>1, <1>2, <1>3, <1>4, <1>6, <1>8 DEF H

LEMMA StreamIsWritten ==
  ASSUME IInv
  PROVE  /\ stream \in Seq(Bytes) /\ Len(stream) \in Nat /\ taken \in 0..Len(stream)
         /\ Len(stream) <= Len(Written(frames))
         /\ \A p \in 1..Len(stream) : stream[p] = Written(frames)[p]
<1>1. stream \in Seq(Bytes) /\ taken \in 0..Len(stream)
  BY DEF IInv, TypeOK
<1>2. Len(stream) \in Nat
  BY <1>1
<1> QED
  BY <1>1, <1>2 DEF IInv

\* Bytes of the stream behind k frames begin with the header of the next one.
LEMMA NextHeader ==
  ASSUME IInv, NEW k \in 0..Len(frames)-1, NEW bytes \in Seq(Bytes),
         Off(frames, k) + Len(bytes) <= Len(stream),
         \A p \in 1..Len(bytes) : bytes[p] = stream[Off(frames, k) + p]
  PROVE  \A p \in 1..Len(bytes) :
           p <= HeaderLen(frames[k+1]) => bytes[p] = Header(frames[k+1].lines)[p]
<1> DEFINE o == Off(frames, k)
           n == HeaderLen(frames[k+1])
<1>1. /\ o \in Nat /\ frames[k+1] \in WellFormed
      /\ \A p \in 1..n : Written(frames)[o + p] = Header(frames[k+1].lines)[p]
  BY Places DEF IInv
<1>2. n \in Nat
  BY <1>1, FrameShape
<1>3. Len(stream) \in Nat /\ \A p \in 1..Len(stream) : stream[p] = Written(frames)[p]
  BY StreamIsWritten
<1>4. o + Len(bytes) <= Len(stream) /\ \A p \in 1..Len(bytes) : bytes[p] = stream[o + p]
  OBVIOUS
<1>5. Len(bytes) \in Nat
  OBVIOUS
<1> HIDE DEF o, n
<1>6. ASSUME NEW p \in 1..Len(bytes), p <= n PROVE bytes[p] = Header(frames[k+1].lines)[p]
  <2>1. p \in 1..n /\ o + p \in 1..Len(stream)
    BY <1>1, <1>2, <1>3, <1>4, <1>5, <1>6
  <2> QED
    BY <1>1, <1>3, <1>4, <2>1
<1> QED
  BY <1>6 DEF n

\* The body of a frame is in the stream behind its header.
LEMMA NextBody ==
  ASSUME IInv, NEW k \in 0..Len(frames)-1, NEW bytes \in Seq(Bytes),
         Len(bytes) = Len(frames[k+1].body),
         Off(frames, k+1) <= Len(stream),
         \A p \in 1..Len(bytes) :
           bytes[p] = stream[Off(frames, k) + HeaderLen(frames[k+1]) + p]
  PROVE  bytes = frames[k+1].body
<1> DEFINE o == Off(frames, k)
           n == HeaderLen(frames[k+1])
           b == frames[k+1].body
<1>1. /\ o \in Nat /\ frames[k+1] \in WellFormed
      /\ Off(frames, k+1) = o + n + Len(b)
      /\ \A p \in 1..Len(b) : Written(frames)[o + n + p] = b[p]
  BY Places DEF IInv
<1>2. n \in Nat /\ Len(b) \in Nat /\ b \in Seq(Bytes)
  BY <1>1, FrameShape
<1>3. Len(stream) \in Nat /\ \A p \in 1..Len(stream) : stream[p] = Written(frames)[p]
  BY StreamIsWritten
<1>4. /\ Len(bytes) = Len(b) /\ o + n + Len(b) <= Len(stream)
      /\ \A p \in 1..Len(b) : bytes[p] = stream[o + n + p]
  BY <1>1
<1> HIDE DEF o, n, b
<1>5. \A p \in 1..Len(b) : o + n + p \in 1..Len(stream)
  BY <1>1, <1>2, <1>3, <1>4
<1>6. \A p \in 1..Len(b) : bytes[p] = b[p]
  BY <1>1, <1>3, <1>4, <1>5, Zenon
<1>7. bytes = b
  BY <1>2, <1>4, <1>6, SeqEqual
<1> QED
  BY <1>7 DEF b

-----------------------------------------------------------------------------
(* Steps.                                                                  *)

LEMMA InputKept ==
  ASSUME UNCHANGED input
  PROVE  /\ frames' = frames /\ stream' = stream /\ parser' = parser
         /\ \A k : MessagesOf(k)' = MessagesOf(k)
<1>1. frames' = frames /\ stream' = stream /\ parser' = parser
  BY DEF input
<1>2. \A k : MessagesOf(k)' = MessagesOf(k)
  BY <1>1, Zenon DEF MessagesOf
<1> QED
  BY <1>1, <1>2

LEMMA InvKept ==
  ASSUME IInv, UNCHANGED input,
         taken' \in 0..Len(stream), buf' \in Seq(Bytes), length' \in Nat \cup {NoLength},
         state' \in {"reading", "cutting", "closed", "failed"},
         parser = "mux" => state' # "cutting", parser = "repl" => length' = NoLength,
         TruncationIsNoFailure',
         NEW k \in 0..Len(frames), got' = MessagesOf(k), Done(k, taken', buf', length', state')
  PROVE  IInv'
<1>1. /\ frames' = frames /\ stream' = stream /\ parser' = parser
      /\ MessagesOf(k)' = MessagesOf(k)
  BY InputKept
<1>2. Parsed(k)'
  BY <1>1 DEF Parsed, Done
<1>3. /\ frames \in Seq(WellFormed) /\ Len(stream) <= Len(Written(frames))
      /\ \A p \in 1..Len(stream) : stream[p] = Written(frames)[p]
  BY DEF IInv
<1>4. got' \in Seq(Seq(BodyBytes))
  BY <1>3, MessagesType
<1>5. TypeOK'
  BY <1>1, <1>4 DEF IInv, TypeOK
<1> QED
  BY <1>1, <1>2, <1>3, <1>5 DEF IInv

LEMMA HeaderIsWithin ==
  ASSUME IInv, NEW k \in 0..Len(frames)-1, NEW n, Off(frames, k) + HeaderLen(frames[k+1]) <= n
  PROVE  k+1 \in HeadersWithin(n)
<1>1. k+1 \in DOMAIN frames /\ k \in 0..Len(frames) /\ (k+1)-1 = k /\ frames \in Seq(WellFormed)
  BY DEF IInv
<1>2. Len(Written(SubSeq(frames, 1, k))) = Off(frames, k)
  BY <1>1, WrittenIsJoined DEF Off, End
<1> QED
  BY <1>1, <1>2, Zenon DEF HeadersWithin, HeaderLen

LEMMA InitInv == Init => IInv
<1> SUFFICES ASSUME Init PROVE IInv
  OBVIOUS
<1>1. frames \in Seq(WellFormed)
  <2>1. PICK n \in 0..MaxFrames : frames \in [1..n -> Frames]
    BY Zenon DEF Init, BoundedSeq, SeqOf
  <2>2. frames \in [1..n -> WellFormed]
    BY <2>1, FramesAreWellFormed
  <2>3. n \in Nat
    BY FramingAssumption
  <2>4. \A m \in Nat : \A f \in [1..m -> WellFormed] : f \in Seq(WellFormed)
    OBVIOUS
  <2> QED
    BY <2>2, <2>3, <2>4, Zenon
<1>2. Len(frames) \in Nat /\ 0 \in 0..Len(frames)
  BY <1>1
<1>3. Written(frames) \in Seq(Bytes) /\ Off(frames, 0) = 0
  BY <1>1, OffGrows
<1>4. /\ stream \in Seq(Bytes) /\ Len(stream) \in Nat /\ Len(stream) <= Len(Written(frames))
      /\ \A p \in 1..Len(stream) : stream[p] = Written(frames)[p]
  <2>1. PICK cut \in 0..Len(Written(frames)) : stream = SubSeq(Written(frames), 1, cut)
    BY DEF Init
  <2>2. \A T : \A w \in Seq(T) : \A c \in 0..Len(w) :
          /\ SubSeq(w, 1, c) \in Seq(T) /\ Len(SubSeq(w, 1, c)) = c /\ c \in Nat /\ c <= Len(w)
          /\ \A p \in 1..c : SubSeq(w, 1, c)[p] = w[p]
    OBVIOUS
  <2> QED
    BY <1>3, <2>1, <2>2, Zenon
<1>5. frames \in Seq([lines : Seq(Bytes), body : Seq(BodyBytes)])
  <2>1. WellFormed \subseteq [lines : Seq(Bytes), body : Seq(BodyBytes)]
    <3>1. \A f \in WellFormed : /\ f \in [lines : Seq(Lines), body : Seq(BodyBytes)]
                                /\ f.lines \in Seq(Bytes)
      BY FrameShape DEF WellFormed
    <3> QED
      BY <3>1
  <2>2. \A S, T : S \subseteq T => \A s \in Seq(S) : s \in Seq(T)
    OBVIOUS
  <2> QED
    BY <1>1, <2>1, <2>2, Zenon
<1>6. /\ taken = 0 /\ buf = <<>> /\ length = NoLength /\ state = "reading" /\ got = <<>>
      /\ parser \in {"mux", "repl"}
  BY DEF Init
<1>7. TypeOK
  <2>1. taken \in 0..Len(stream) /\ buf \in Seq(Bytes) /\ got \in Seq(Seq(BodyBytes))
    BY <1>4, <1>6
  <2> QED
    BY <1>4, <1>5, <1>6, <2>1 DEF TypeOK
<1>8. MessagesOf(0) = <<>>
  <2>1. Parts \in Seq(Seq(Seq(BodyBytes)))
    BY <1>1, PartsType
  <2>2. Joined(Parts, 0) = <<>>
    BY <2>1, JoinedEnds
  <2> QED
    BY <1>1, <1>2, <2>2, MessagesAreJoined
<1>9. Done(0, 0, <<>>, NoLength, "reading")
  <2>1. ASSUME 0 < Len(frames) PROVE 0 < Off(frames, 0+1) /\ 0 < 0 + HeaderLen(frames[0+1])
    <3>1. 0 \in 0..Len(frames)-1
      BY <1>2, <2>1
    <3>2. /\ frames[0+1] \in WellFormed
          /\ Off(frames, 0+1) = Off(frames, 0) + HeaderLen(frames[0+1]) + Len(frames[0+1].body)
      BY <1>1, <3>1, Places
    <3>3. HeaderLen(frames[0+1]) \in Nat /\ HeaderLen(frames[0+1]) > 4 /\ Len(frames[0+1].body) \in Nat
      BY <3>2, FrameShape
    <3> QED
      BY <1>3, <3>2, <3>3
  <2>2. Len(<<>>) = 0
    OBVIOUS
  <2> QED
    BY <1>3, <2>1, <2>2 DEF Done
<1>10. Parsed(0)
  BY <1>6, <1>8, <1>9 DEF Parsed
<1>11. TruncationIsNoFailure
  BY <1>6 DEF TruncationIsNoFailure
<1> QED
  BY <1>1, <1>2, <1>4, <1>6, <1>7, <1>10, <1>11 DEF IInv

LEMMA FailureKept ==
  ASSUME UNCHANGED input,
         state' = "failed" =>
           \E i \in HeadersWithin(taken') :
             IF parser = "mux" THEN ~IsMessage(frames[i])
                               ELSE Unreadable(frames[i].lines) \/ Unreadable(frames[i].body)
  PROVE  TruncationIsNoFailure'
<1>1. frames' = frames /\ parser' = parser
  BY InputKept
<1>2. HeadersWithin(taken)' = HeadersWithin(taken')
  BY <1>1, Zenon DEF HeadersWithin
<1>3. \A f : IsMessage(f)' <=> IsMessage(f)
  BY DEF IsMessage
<1> QED
  BY <1>1, <1>2, <1>3, Zenon DEF TruncationIsNoFailure

\* Where the next frame is.
LEMMA NextFrame ==
  ASSUME IInv, NEW k \in 0..Len(frames)
  PROVE  /\ frames \in Seq(WellFormed) /\ Len(frames) \in Nat
         /\ Off(frames, k) \in Nat
         /\ k = Len(frames) => Off(frames, k) >= Len(stream)
         /\ k < Len(frames) =>
              /\ k \in 0..Len(frames)-1 /\ k+1 \in 0..Len(frames)
              /\ frames[k+1] \in WellFormed
              /\ HeaderLen(frames[k+1]) \in Nat /\ HeaderLen(frames[k+1]) > 4
              /\ Len(frames[k+1].body) \in Nat
              /\ Off(frames, k+1) \in Nat
              /\ Off(frames, k+1) = Off(frames, k) + HeaderLen(frames[k+1]) + Len(frames[k+1].body)
              /\ Off(frames, k) < Off(frames, k+1)
<1>1. frames \in Seq(WellFormed)
  BY DEF IInv
<1>2. Len(frames) \in Nat /\ Off(frames, k) \in Nat
  BY <1>1, OffGrows
<1>3. ASSUME k = Len(frames) PROVE Off(frames, k) >= Len(stream)
  <2>1. Off(frames, k) = Len(Written(frames))
    BY <1>1, <1>3, OffGrows
  <2>2. Len(stream) <= Len(Written(frames)) /\ Len(stream) \in Nat
    BY StreamIsWritten
  <2> QED
    BY <1>2, <2>1, <2>2
<1>4. ASSUME k < Len(frames)
      PROVE  /\ k \in 0..Len(frames)-1 /\ k+1 \in 0..Len(frames)
             /\ frames[k+1] \in WellFormed
             /\ HeaderLen(frames[k+1]) \in Nat /\ HeaderLen(frames[k+1]) > 4
             /\ Len(frames[k+1].body) \in Nat
             /\ Off(frames, k+1) \in Nat
             /\ Off(frames, k+1) = Off(frames, k) + HeaderLen(frames[k+1]) + Len(frames[k+1].body)
             /\ Off(frames, k) < Off(frames, k+1)
  <2>1. k \in 0..Len(frames)-1 /\ k+1 \in 0..Len(frames)
    BY <1>2, <1>4
  <2>2. /\ frames[k+1] \in WellFormed
        /\ Off(frames, k+1) = Off(frames, k) + HeaderLen(frames[k+1]) + Len(frames[k+1].body)
    BY <1>1, <2>1, Places
  <2>3. /\ HeaderLen(frames[k+1]) \in Nat /\ HeaderLen(frames[k+1]) > 4
        /\ Len(frames[k+1].body) \in Nat
    BY <2>2, FrameShape
  <2> QED
    BY <1>2, <2>1, <2>2, <2>3
<1> QED
  BY <1>1, <1>2, <1>3, <1>4

\* A parser that stands between two frames is done with those before.
LEMMA DoneBetween ==
  ASSUME IInv, NEW k \in 0..Len(frames), NEW bytes, NEW s, s # "reading",
         s = "cutting" => bytes = <<>>
  PROVE  Done(k, Off(frames, k), bytes, NoLength, s)
<1>1. Len(<<>>) = 0
  OBVIOUS
<1> QED
  BY <1>1, NextFrame DEF Done

\* Within a header, and behind it.
LEMMA WithinFrame ==
  \A o, n, m, t \in Nat :
    /\ o <= t /\ t + 1 < o + n => o <= t + 1 /\ t + 1 < o + n + m
    /\ m # 0 => o <= o + n /\ o + n < o + n + m
OBVIOUS

LEMMA ReadByteStep == ASSUME IInv, ReadByte PROVE IInv'
<1> DEFINE bytes == Append(buf, stream[taken + 1])
           missing == Unreadable(bytes) \/ DecodeHeader(bytes) = NoLength
<1>1. PICK k \in 0..Len(frames) : Parsed(k)
  BY DEF IInv
<1> DEFINE o == Off(frames, k)
           f == frames[k+1]
           n == HeaderLen(f)
<1>2. /\ parser = "mux" /\ state = "reading" /\ length = NoLength /\ taken < Len(stream)
      /\ taken' = taken + 1 /\ UNCHANGED input /\ got' = got
      /\ HeaderEnds(bytes) = {} => buf' = bytes /\ length' = length /\ state' = state
      /\ HeaderEnds(bytes) # {} =>
           /\ buf' = <<>>
           /\ length' = IF missing THEN NoLength ELSE DecodeHeader(bytes)
           /\ state' = IF missing THEN "failed" ELSE state
  BY DEF ReadByte
<1>3. /\ stream \in Seq(Bytes) /\ Len(stream) \in Nat /\ taken \in 0..Len(stream)
      /\ buf \in Seq(Bytes)
  BY StreamIsWritten DEF IInv, TypeOK
<1>4. /\ got = MessagesOf(k) /\ o <= taken /\ Len(buf) = taken - o
      /\ \A p \in 1..Len(buf) : buf[p] = stream[o + p]
      /\ k < Len(frames) => taken < o + n
  BY <1>1, <1>2 DEF Parsed, Done
<1>5. Len(frames) \in Nat /\ o \in Nat /\ k < Len(frames)
  BY <1>2, <1>3, <1>4, NextFrame
<1>6. /\ k \in 0..Len(frames)-1 /\ k+1 \in 0..Len(frames) /\ f \in WellFormed
      /\ n \in Nat /\ n > 4 /\ Len(f.body) \in Nat
      /\ Off(frames, k+1) \in Nat /\ Off(frames, k+1) = o + n + Len(f.body)
  BY <1>5, NextFrame
<1> HIDE DEF o, f, n
<1>7. /\ bytes \in Seq(Bytes) /\ Len(bytes) = (taken + 1) - o
      /\ \A p \in 1..Len(bytes) : bytes[p] = stream[o + p]
  <2>1. stream[taken + 1] \in Bytes
    BY <1>2, <1>3
  <2>2. o + Len(bytes) = taken + 1 /\ Len(bytes) = Len(buf) + 1
    <3>1. \A s \in Seq(Bytes) : \A e \in Bytes : Len(s) \in Nat /\ Len(Append(s, e)) = Len(s) + 1
      OBVIOUS
    <3>2. Len(buf) \in Nat /\ Len(bytes) = Len(buf) + 1
      BY <1>3, <2>1, <3>1, Zenon
    <3>3. Len(buf) = taken - o /\ taken \in Nat
      BY <1>3, <1>4
    <3> DEFINE had == Len(buf)
               has == Len(bytes)
    <3>5. has \in Nat /\ had \in Nat
      BY <3>2
    <3> HIDE DEF had, has
    <3>6. has = had + 1 /\ had = taken - o
      BY <3>2, <3>3, Zenon DEF had, has
    <3>7. o + has = taken + 1
      BY <1>5, <3>3, <3>5, <3>6
    <3> QED
      BY <3>2, <3>7, Zenon DEF has
  <2>3. \A p \in 1..Len(bytes) : bytes[p] = IF p = Len(buf) + 1 THEN stream[taken+1] ELSE buf[p]
    BY <1>3, <2>1
  <2>4. \A p \in 1..Len(bytes) : IF p = Len(buf) + 1 THEN o + p = taken + 1 ELSE p \in 1..Len(buf)
    BY <1>3, <1>4, <1>5, <2>2
  <2>5. bytes \in Seq(Bytes) /\ Len(bytes) = (taken + 1) - o
    BY <1>3, <1>4, <1>5, <2>1, <2>2
  <2> HIDE DEF bytes
  <2>6. \A p \in 1..Len(bytes) : bytes[p] = stream[o + p]
    BY <1>4, <2>3, <2>4, Zenon
  <2> QED
    BY <2>5, <2>6
<1> HIDE DEF bytes
<1>8. /\ Len(bytes) < n => HeaderEnds(bytes) = {}
      /\ n <= Len(bytes) => HeaderEnds(bytes) # {} /\ SubSeq(bytes, 1, n) = Header(f.lines)
  <2>1. o + Len(bytes) <= Len(stream)
    BY <1>2, <1>3, <1>5, <1>7
  <2>2. \A p \in 1..Len(bytes) : p <= n => bytes[p] = Header(f.lines)[p]
    BY <1>6, <1>7, <2>1, NextHeader DEF o, n, f
  <2> QED
    BY <1>6, <1>7, <2>2, HeaderFound DEF n
<1>9. CASE HeaderEnds(bytes) = {}
  <2>1. taken + 1 < o + n
    BY <1>3, <1>5, <1>6, <1>7, <1>8, <1>9
  <2>2. Done(k, taken', buf', length', state')
    <3>1. taken' = taken + 1 /\ buf' = bytes /\ length' = NoLength /\ state' = "reading"
      BY <1>2, <1>9
    <3>2. o <= taken + 1 /\ taken + 1 < Off(frames, k+1)
      <4>1. taken \in Nat
        BY <1>3
      <4> QED
        BY <1>4, <1>5, <1>6, <2>1, <4>1, WithinFrame, Zenon
    <3>3. Len(buf') = taken' - o /\ \A p \in 1..Len(buf') : buf'[p] = stream[o + p]
      BY <1>7, <3>1, Zenon
    <3>4. o <= taken' /\ taken' < Off(frames, k+1) /\ taken' < o + n
      BY <2>1, <3>1, <3>2, Zenon
    <3> QED
      BY <3>1, <3>3, <3>4 DEF Done, o, n, f
  <2>3. TruncationIsNoFailure'
    BY <1>2, <1>9, FailureKept
  <2> QED
    BY <1>2, <1>3, <1>4, <1>7, <1>9, <2>2, <2>3, InvKept
<1>10. CASE HeaderEnds(bytes) # {}
  <2>1. Len(bytes) = n /\ taken + 1 = o + n
    BY <1>3, <1>4, <1>5, <1>6, <1>7, <1>8, <1>10
  <2>2. bytes = Header(f.lines)
    <3>1. SubSeq(bytes, 1, Len(bytes)) = bytes
      BY <1>7
    <3> QED
      BY <1>6, <1>8, <2>1, <3>1
  <2>3. /\ missing <=> ~HasLength(f)
        /\ HasLength(f) => DecodeHeader(bytes) = Len(f.body) /\ Len(f.body) \in Nat \ {0}
        /\ ~HasLength(f) => Len(f.body) = 0 /\ ~IsMessage(f) /\ ~IsJson(f.body)
    BY <1>6, <2>2, HeaderRead DEF n
  <2>4. CASE HasLength(f)
    <3>5. taken' = o + n /\ o <= taken' /\ taken' < Off(frames, k+1)
      BY <1>2, <1>5, <1>6, <2>1, <2>3, <2>4, WithinFrame, Zenon
    <3>6. buf' = <<>> /\ length' = Len(f.body) /\ length' # NoLength /\ state' = "reading"
      BY <1>2, <1>10, <2>3, <2>4 DEF NoLength
    <3>1. Done(k, taken', buf', length', state')
      BY <1>5, <3>5, <3>6, Zenon DEF Done, o, n, f
    <3>2. TruncationIsNoFailure'
      BY <1>2, <1>10, <2>3, <2>4, FailureKept
    <3>3. buf' = <<>> /\ length' = Len(f.body) /\ state' = "reading"
      BY <1>2, <1>10, <2>3, <2>4
    <3>4. buf' \in Seq(Bytes) /\ length' \in Nat
      BY <1>6, <3>3
    <3> QED
      BY <1>2, <1>3, <1>4, <3>1, <3>2, <3>3, <3>4, InvKept
  <2>5. CASE ~HasLength(f)
    <3>1. taken' = Off(frames, k+1) /\ length' = NoLength /\ state' = "failed" /\ buf' = <<>>
      BY <1>2, <1>6, <1>10, <2>1, <2>3, <2>5
    <3>2. got' = MessagesOf(k+1)
      BY <1>2, <1>4, <1>6, <2>3, <2>5, NextMessage DEF IInv, f
    <3>3. Done(k+1, taken', buf', length', state')
      BY <1>6, <3>1, DoneBetween
    <3>4. k+1 \in HeadersWithin(taken')
      BY <1>2, <1>5, <1>6, <2>1, HeaderIsWithin DEF o, n, f
    <3>5. TruncationIsNoFailure'
      BY <1>2, <2>3, <2>5, <3>4, FailureKept DEF f
    <3>6. buf' \in Seq(Bytes)
      BY <3>1
    <3> QED
      BY <1>2, <1>3, <1>6, <3>1, <3>2, <3>3, <3>5, <3>6, InvKept
  <2> QED
    BY <2>4, <2>5
<1> QED
  BY <1>9, <1>10

LEMMA ReadBodyStep == ASSUME IInv, ReadBody PROVE IInv'
<1> DEFINE body == SubSeq(stream, taken + 1, taken + length)
<1>1. PICK k \in 0..Len(frames) : Parsed(k)
  BY DEF IInv
<1> DEFINE o == Off(frames, k)
           f == frames[k+1]
           n == HeaderLen(f)
<1>2. /\ parser = "mux" /\ state = "reading" /\ length # NoLength
      /\ taken + length <= Len(stream) /\ taken' = taken + length
      /\ length' = NoLength /\ UNCHANGED input /\ buf' = buf
      /\ IsJson(body) => got' = Append(got, body) /\ state' = state
      /\ ~IsJson(body) => state' = "failed" /\ got' = got
  BY DEF ReadBody
<1>3. stream \in Seq(Bytes) /\ Len(stream) \in Nat /\ taken \in 0..Len(stream)
  BY StreamIsWritten
<1>4. /\ got = MessagesOf(k) /\ k < Len(frames) /\ taken = o + n
      /\ length = Len(f.body) /\ buf = <<>>
  BY <1>1, <1>2 DEF Parsed, Done
<1>5. /\ k \in 0..Len(frames)-1 /\ k+1 \in 0..Len(frames) /\ f \in WellFormed
      /\ o \in Nat /\ n \in Nat /\ Len(f.body) \in Nat
      /\ Off(frames, k+1) \in Nat /\ Off(frames, k+1) = o + n + Len(f.body)
      /\ frames \in Seq(WellFormed)
  BY <1>4, NextFrame
<1>6. taken' = Off(frames, k+1) /\ Off(frames, k+1) <= Len(stream)
  BY <1>2, <1>4, <1>5
<1>7. body = f.body
  <2>1. /\ body \in Seq(Bytes) /\ Len(body) = length
        /\ \A p \in 1..length : body[p] = stream[taken + p]
    <3>1. \A s \in Seq(Bytes) : \A i, m \in Nat : i + m <= Len(s) =>
            LET c == SubSeq(s, i + 1, i + m)
            IN c \in Seq(Bytes) /\ Len(c) = m /\ \A p \in 1..m : c[p] = s[i + p]
      OBVIOUS
    <3>2. taken \in Nat /\ length \in Nat
      BY <1>3, <1>4, <1>5
    <3> QED
      BY <1>2, <1>3, <3>1, <3>2, Zenon
  <2> HIDE DEF body
  <2>2. /\ Len(body) = Len(f.body)
        /\ \A p \in 1..Len(body) : body[p] = stream[o + n + p]
    BY <1>4, <2>1, Zenon
  <2> QED
    BY <1>5, <1>6, <2>1, <2>2, NextBody
<1>8. MessagesOf(k+1) = IF IsJson(f.body) THEN Append(got, f.body) ELSE got
  BY <1>4, <1>5, NextMessage
<1>9. got' = MessagesOf(k+1)
  BY <1>2, <1>7, <1>8, Zenon
<1>10. buf' \in Seq(Bytes) /\ taken' \in 0..Len(stream)
  BY <1>2, <1>4, <1>5, <1>6, <1>3
<1> HIDE DEF body
<1>11. CASE IsJson(body)
  <2>1. state' = "reading" /\ buf' = <<>> /\ length' = NoLength
    BY <1>2, <1>4, <1>11
  <2>2. Done(k+1, Off(frames, k+1), <<>>, NoLength, "reading")
    <3>1. \A i \in 0..Len(frames) : i < Len(frames) =>
            Off(frames, i) < Off(frames, i+1) /\ Off(frames, i) < Off(frames, i) + HeaderLen(frames[i+1])
      BY NextFrame
    <3>2. Len(<<>>) = Off(frames, k+1) - Off(frames, k+1)
      BY <1>5
    <3>3. \A p \in 1..Len(<<>>) : <<>>[p] = stream[Off(frames, k+1) + p]
      OBVIOUS
    <3>4. Off(frames, k+1) <= Off(frames, k+1)
      BY <1>5
    <3> QED
      BY <1>5, <3>1, <3>2, <3>3, <3>4, Zenon DEF Done
  <2>3. TruncationIsNoFailure'
    BY <1>2, <2>1, FailureKept
  <2>4. Done(k+1, taken', buf', length', state')
    BY <1>6, <2>1, <2>2
  <2> QED
    BY <1>2, <1>5, <1>9, <1>10, <2>1, <2>3, <2>4, InvKept
<1>12. CASE ~IsJson(body)
  <2>1. state' = "failed" /\ length' = NoLength
    BY <1>2, <1>12
  <2>2. Done(k+1, taken', buf', length', state')
    BY <1>5, <1>6, <2>1, DoneBetween
  <2>3. k+1 \in HeadersWithin(taken')
    BY <1>2, <1>4, <1>5, HeaderIsWithin
  <2>4. ~IsMessage(f)
    BY <1>5, <1>7, <1>12, JsonIsMessage
  <2>5. TruncationIsNoFailure'
    BY <1>2, <2>3, <2>4, FailureKept
  <2> QED
    BY <1>2, <1>5, <1>9, <1>10, <2>1, <2>2, <2>5, InvKept
<1> QED
  BY <1>11, <1>12

LEMMA ReadEofStep == ASSUME IInv, ReadEof PROVE IInv'
<1>1. PICK k \in 0..Len(frames) : Parsed(k)
  BY DEF IInv
<1> DEFINE o == Off(frames, k)
<1>2. /\ parser = "mux" /\ state = "reading"
      /\ Len(stream) < taken + (IF length = NoLength THEN 1 ELSE length)
      /\ taken' = Len(stream) /\ state' = "closed"
      /\ UNCHANGED input /\ buf' = buf /\ length' = length /\ got' = got
  BY DEF ReadEof
<1>3. /\ Len(stream) \in Nat /\ taken \in 0..Len(stream)
      /\ buf \in Seq(Bytes) /\ length \in Nat \cup {NoLength}
  BY StreamIsWritten DEF IInv, TypeOK
<1>4. got = MessagesOf(k) /\ o <= taken
  BY <1>1 DEF Parsed, Done
<1>5. o \in Nat
  BY NextFrame
<1>6. ASSUME k < Len(frames) PROVE Len(stream) < Off(frames, k+1)
  <2>1. /\ Off(frames, k+1) \in Nat
        /\ Off(frames, k+1) = o + HeaderLen(frames[k+1]) + Len(frames[k+1].body)
    BY <1>6, NextFrame
  <2>2. CASE length = NoLength
    <3>1. taken < Off(frames, k+1)
      BY <1>1, <1>2, <1>6 DEF Parsed, Done
    <3> QED
      BY <1>2, <1>3, <2>1, <2>2, <3>1
  <2>3. CASE length # NoLength
    <3>1. taken = o + HeaderLen(frames[k+1]) /\ length = Len(frames[k+1].body)
      BY <1>1, <1>2, <2>3 DEF Parsed, Done
    <3> QED
      BY <1>2, <2>1, <2>3, <3>1
  <2> QED
    BY <2>2, <2>3
<1>7. Done(k, taken', buf', length', state')
  <2>1. o <= Len(stream)
    BY <1>3, <1>4, <1>5
  <2> QED
    BY <1>2, <1>6, <2>1 DEF Done
<1>8. TruncationIsNoFailure'
  BY <1>2, FailureKept
<1> QED
  BY <1>2, <1>3, <1>4, <1>7, <1>8, InvKept

-----------------------------------------------------------------------------
(* Steps of the REPL's parser.                                             *)

\* What the buffer begins with.
LEMMA HeaderInBuffer ==
  ASSUME IInv, parser = "repl", state = "cutting",
         NEW k \in 0..Len(frames), Done(k, taken, buf, length, state)
  PROVE  /\ taken \in Nat /\ buf \in Seq(Bytes) /\ Len(buf) \in Nat
         /\ Off(frames, k) <= taken /\ Len(buf) = taken - Off(frames, k)
         /\ \A p \in 1..Len(buf) : buf[p] = stream[Off(frames, k) + p]
         /\ HeaderEnds(buf) = {} => (k < Len(frames) => Len(buf) < HeaderLen(frames[k+1]))
         /\ HeaderEnds(buf) # {} =>
              /\ k < Len(frames)
              /\ HeaderLen(frames[k+1]) <= Len(buf)
              /\ Min(HeaderEnds(buf)) = HeaderLen(frames[k+1])
              /\ SubSeq(buf, 1, HeaderLen(frames[k+1])) = Header(frames[k+1].lines)
<1> DEFINE o == Off(frames, k)
           n == HeaderLen(frames[k+1])
<1>1. /\ stream \in Seq(Bytes) /\ Len(stream) \in Nat /\ taken \in 0..Len(stream) /\ taken \in Nat
      /\ buf \in Seq(Bytes)
  BY StreamIsWritten DEF IInv, TypeOK
<1>2. Len(buf) \in Nat
  BY <1>1
<1>3. length = NoLength
  BY DEF IInv
<1>4. /\ o <= taken /\ Len(buf) = taken - o
      /\ \A p \in 1..Len(buf) : buf[p] = stream[o + p]
  BY <1>3 DEF Done
<1>5. o \in Nat
  BY NextFrame
<1>6. ASSUME k < Len(frames)
      PROVE  /\ Len(buf) < n => HeaderEnds(buf) = {}
             /\ n <= Len(buf) => /\ HeaderEnds(buf) # {}
                                 /\ Min(HeaderEnds(buf)) = n
                                 /\ SubSeq(buf, 1, n) = Header(frames[k+1].lines)
             /\ n \in Nat
  <2>1. k \in 0..Len(frames)-1 /\ frames[k+1] \in WellFormed /\ n \in Nat
    BY <1>6, NextFrame
  <2>2. o + Len(buf) <= Len(stream)
    BY <1>1, <1>4, <1>5
  <2>3. \A p \in 1..Len(buf) : p <= n => buf[p] = Header(frames[k+1].lines)[p]
    BY <1>1, <1>4, <2>1, <2>2, NextHeader
  <2> QED
    BY <1>1, <2>1, <2>3, HeaderFound
<1>7. ASSUME ~(k < Len(frames)) PROVE HeaderEnds(buf) = {}
  <2>1. k = Len(frames)
    BY <1>7, NextFrame
  <2>2. o >= Len(stream)
    BY <2>1, NextFrame
  <2>3. Len(buf) = 0
    BY <1>1, <1>2, <1>4, <1>5, <2>2
  <2> HIDE DEF o
  <2> QED
    BY <2>3 DEF HeaderEnds
<1> HIDE DEF o, n
<1>8. HeaderEnds(buf) = {} => (k < Len(frames) => Len(buf) < n)
  BY <1>2, <1>6
<1>9. HeaderEnds(buf) # {} =>
        /\ k < Len(frames) /\ n <= Len(buf)
        /\ Min(HeaderEnds(buf)) = n /\ SubSeq(buf, 1, n) = Header(frames[k+1].lines)
  BY <1>2, <1>6, <1>7
<1> QED
  BY <1>1, <1>2, <1>4, <1>8, <1>9 DEF o, n

\* What is left of it when some of its bytes are cut off.
LEMMA RestOfBuffer ==
  ASSUME buf \in Seq(Bytes), taken \in Nat, NEW o \in Nat, NEW m \in 0..Len(buf),
         Len(buf) = taken - o, \A p \in 1..Len(buf) : buf[p] = stream[o + p]
  PROVE  LET rest == SubSeq(buf, m + 1, Len(buf))
         IN /\ rest \in Seq(Bytes)
            /\ Len(rest) = taken - (o + m) /\ o + m <= taken
            /\ \A p \in 1..Len(rest) : rest[p] = stream[(o + m) + p]
<1> DEFINE rest == SubSeq(buf, m + 1, Len(buf))
<1>1. /\ rest \in Seq(Bytes) /\ Len(rest) = Len(buf) - m
      /\ \A p \in 1..Len(buf) - m : rest[p] = buf[m + p]
  <2>1. \A s \in Seq(Bytes) : \A i \in 0..Len(s) :
          LET c == SubSeq(s, i + 1, Len(s))
          IN c \in Seq(Bytes) /\ Len(c) = Len(s) - i /\ \A p \in 1..Len(s) - i : c[p] = s[i + p]
    OBVIOUS
  <2> QED
    BY <2>1, Zenon
<1> HIDE DEF rest
<1>2. Len(buf) \in Nat
  OBVIOUS
<1>3. \A p \in 1..Len(buf) - m : m + p \in 1..Len(buf) /\ o + (m + p) = (o + m) + p
  BY <1>2
<1>4. \A p \in 1..Len(buf) - m : rest[p] = stream[(o + m) + p]
  BY <1>1, <1>3, Zenon
<1> QED
  BY <1>1, <1>2, <1>4 DEF rest

LEMMA RecvStep == ASSUME IInv, Recv PROVE IInv'
<1>1. PICK k \in 0..Len(frames) : Parsed(k)
  BY DEF IInv
<1> DEFINE o == Off(frames, k)
<1>2. PICK n \in taken+1..Len(stream) : buf' = buf \o SubSeq(stream, taken + 1, n) /\ taken' = n
  BY DEF Recv
<1>3. /\ parser = "repl" /\ state = "reading" /\ state' = "cutting"
      /\ UNCHANGED input /\ length' = length /\ got' = got
  BY DEF Recv
<1>4. /\ stream \in Seq(Bytes) /\ Len(stream) \in Nat /\ taken \in 0..Len(stream)
      /\ buf \in Seq(Bytes) /\ length = NoLength
  BY <1>3, StreamIsWritten DEF IInv, TypeOK
<1>5. /\ got = MessagesOf(k) /\ o <= taken /\ Len(buf) = taken - o
      /\ \A p \in 1..Len(buf) : buf[p] = stream[o + p]
  BY <1>1, <1>3, <1>4 DEF Parsed, Done
<1>6. o \in Nat /\ n \in Nat /\ taken \in Nat /\ taken < n /\ Len(buf) \in Nat
  BY <1>4, NextFrame
<1> DEFINE piece == SubSeq(stream, taken + 1, n)
<1>7. /\ piece \in Seq(Bytes) /\ Len(piece) = n - taken
      /\ \A p \in 1..n - taken : piece[p] = stream[taken + p]
  <2>1. \A s \in Seq(Bytes) : \A i \in Nat : \A m \in i+1..Len(s) :
          LET c == SubSeq(s, i + 1, m)
          IN c \in Seq(Bytes) /\ Len(c) = m - i /\ \A p \in 1..m - i : c[p] = s[i + p]
    OBVIOUS
  <2> QED
    BY <1>4, <1>6, <2>1, Zenon
<1> HIDE DEF piece
<1>8. /\ buf' \in Seq(Bytes) /\ Len(buf') = Len(buf) + Len(piece)
      /\ \A p \in 1..Len(buf) : buf'[p] = buf[p]
      /\ \A p \in 1..Len(piece) : buf'[Len(buf) + p] = piece[p]
  <2>1. buf' = buf \o piece
    BY <1>2 DEF piece
  <2>2. \A s, t \in Seq(Bytes) : /\ s \o t \in Seq(Bytes) /\ Len(s \o t) = Len(s) + Len(t)
                                 /\ \A p \in 1..Len(s) : (s \o t)[p] = s[p]
                                 /\ \A p \in 1..Len(t) : (s \o t)[Len(s) + p] = t[p]
    OBVIOUS
  <2> QED
    BY <1>4, <1>7, <2>1, <2>2, Zenon
<1>9. Len(buf') = n - o
  BY <1>5, <1>6, <1>7, <1>8
<1>10. ASSUME NEW p \in 1..Len(buf') PROVE buf'[p] = stream[o + p]
  <2>1. CASE p \in 1..Len(buf)
    BY <1>5, <1>8, <2>1
  <2>2. CASE p \notin 1..Len(buf)
    <3>1. PICK q \in 1..n - taken : p = Len(buf) + q
      <4>1. p \in 1..n - o
        BY <1>9, <1>10, Zenon
      <4> DEFINE l == Len(buf)
      <4>2. l \in Nat /\ l = taken - o /\ p \notin 1..l
        BY <1>5, <1>6, <2>2
      <4>3. o \in Nat /\ n \in Nat /\ taken \in Nat
        BY <1>6
      <4> HIDE DEF l, o
      <4>4. p - l \in 1..n - taken /\ p = l + (p - l)
        BY <4>1, <4>2, <4>3
      <4> QED
        BY <4>4, Zenon DEF l
    <3>2. buf'[p] = stream[taken + q]
      BY <1>7, <1>8, <3>1, Zenon
    <3>3. taken + q = o + p
      <4> DEFINE l == Len(buf)
      <4>1. l = taken - o /\ p = l + q /\ o \in Nat /\ taken \in Nat
        BY <1>5, <1>6, <3>1
      <4> HIDE DEF l, o
      <4> QED
        BY <4>1
    <3> QED
      BY <3>2, <3>3, Zenon
  <2> QED
    BY <2>1, <2>2
<1>11. Done(k, taken', buf', length', state')
  <2>1. o <= n
    BY <1>5, <1>6
  <2> HIDE DEF o
  <2> QED
    BY <1>2, <1>3, <1>4, <1>9, <1>10, <2>1 DEF Done, o
<1>12. TruncationIsNoFailure'
  BY <1>3, FailureKept
<1>13. taken' \in 0..Len(stream)
  BY <1>2, <1>4, <1>6
<1> QED
  BY <1>3, <1>4, <1>5, <1>8, <1>11, <1>12, <1>13, InvKept

LEMMA RecvEofStep == ASSUME IInv, RecvEof PROVE IInv'
<1>1. PICK k \in 0..Len(frames) : Parsed(k)
  BY DEF IInv
<1>2. /\ parser = "repl" /\ state = "reading" /\ state' = "closed"
      /\ UNCHANGED input /\ taken' = taken /\ buf' = buf /\ length' = length /\ got' = got
  BY DEF RecvEof
<1>3. taken \in 0..Len(stream) /\ buf \in Seq(Bytes) /\ length = NoLength
  BY <1>2 DEF IInv, TypeOK
<1>4. got = MessagesOf(k) /\ Done(k, taken', buf', length', state')
  BY <1>1, <1>2 DEF Parsed, Done
<1>5. TruncationIsNoFailure'
  BY <1>2, FailureKept
<1> QED
  BY <1>2, <1>3, <1>4, <1>5, InvKept

LEMMA NothingToCutStep == ASSUME IInv, NothingToCut PROVE IInv'
<1>1. PICK k \in 0..Len(frames) : Parsed(k)
  BY DEF IInv
<1> DEFINE o == Off(frames, k)
           f == frames[k+1]
           n == HeaderLen(f)
           H == Header(f.lines)
<1>2. /\ parser = "repl" /\ state = "cutting" /\ state' = "reading"
      /\ UNCHANGED input /\ taken' = taken /\ buf' = buf /\ length' = length /\ got' = got
  BY DEF NothingToCut
<1>3. taken \in 0..Len(stream) /\ length = NoLength
  BY <1>2 DEF IInv, TypeOK
<1>4. got = MessagesOf(k) /\ Done(k, taken, buf, length, state)
  BY <1>1 DEF Parsed
<1>5. /\ taken \in Nat /\ buf \in Seq(Bytes) /\ Len(buf) \in Nat
      /\ o <= taken /\ Len(buf) = taken - o
      /\ \A p \in 1..Len(buf) : buf[p] = stream[o + p]
      /\ HeaderEnds(buf) = {} => (k < Len(frames) => Len(buf) < n)
      /\ HeaderEnds(buf) # {} =>
           /\ k < Len(frames) /\ n <= Len(buf)
           /\ Min(HeaderEnds(buf)) = n /\ SubSeq(buf, 1, n) = H
  BY <1>2, <1>4, HeaderInBuffer
<1>6. HeaderEnds(buf) # {} => ~Unreadable(H) /\ n + DecodeHeader(H) > Len(buf)
  <2>1. HeaderEnds(buf) # {} =>
          LET end == Min(HeaderEnds(buf))
              header == SubSeq(buf, 1, end)
          IN ~Unreadable(header) /\ end + DecodeHeader(header) > Len(buf)
    BY DEF NothingToCut
  <2> QED
    BY <1>5, <2>1, Zenon
<1>7. ASSUME k < Len(frames) PROVE taken < Off(frames, k+1)
  <2>1. /\ f \in WellFormed /\ o \in Nat /\ n \in Nat /\ Len(f.body) \in Nat
        /\ Off(frames, k+1) = o + n + Len(f.body)
    BY <1>7, NextFrame
  <2>2. CASE HeaderEnds(buf) = {}
    <3>1. Len(buf) < n
      BY <1>5, <1>7, <2>2
    <3>2. Len(buf) = taken - o /\ taken \in Nat /\ Len(buf) \in Nat
      BY <1>5
    <3> DEFINE m == Len(f.body)
               e == Off(frames, k+1)
               l == Len(buf)
    <3>3. o \in Nat /\ n \in Nat /\ m \in Nat /\ e = o + n + m
      BY <2>1
    <3>4. l < n /\ l = taken - o /\ taken \in Nat /\ l \in Nat
      BY <3>1, <3>2
    <3> HIDE DEF o, n, m, e, l
    <3>5. taken < e
      BY <3>3, <3>4
    <3> QED
      BY <3>5 DEF e
  <2>3. CASE HeaderEnds(buf) # {}
    <3>1. /\ Unreadable(H) \/ DecodeHeader(H) = NoLength <=> ~HasLength(f)
          /\ HasLength(f) => DecodeHeader(H) = Len(f.body)
      BY <2>1, HeaderRead
    <3>2. DecodeHeader(H) # NoLength
      <4>1. CASE DecodeHeader(H) = NoLength
        <5>1. n + DecodeHeader(H) > Len(buf) /\ n <= Len(buf)
          BY <1>5, <1>6, <2>3
        <5> HIDE DEF H, n
        <5>2. n + (-1) > Len(buf)
          BY <4>1, <5>1 DEF NoLength
        <5> QED
          BY <1>5, <2>1, <5>1, <5>2
      <4> QED
        BY <4>1
    <3>3. n + Len(f.body) > Len(buf)
      BY <1>6, <2>3, <3>1, <3>2
    <3> DEFINE m == Len(f.body)
               e == Off(frames, k+1)
               l == Len(buf)
    <3>4. o \in Nat /\ n \in Nat /\ m \in Nat /\ e = o + n + m
      BY <2>1
    <3>5. n + m > l /\ l = taken - o /\ taken \in Nat /\ l \in Nat
      BY <1>5, <3>3
    <3> HIDE DEF o, n, m, e, l
    <3>6. taken < e
      BY <3>4, <3>5
    <3> QED
      BY <3>6 DEF e
  <2> QED
    BY <2>2, <2>3
<1>8. Done(k, taken', buf', length', state')
  <2> HIDE DEF o
  <2> QED
    BY <1>2, <1>3, <1>5, <1>7 DEF Done, o
<1>9. TruncationIsNoFailure'
  BY <1>2, FailureKept
<1> QED
  BY <1>2, <1>3, <1>4, <1>5, <1>8, <1>9, InvKept

\* A parser of the REPL that cut a frame off its buffer is done with it.
LEMMA DoneWhenCut ==
  ASSUME IInv, NEW k \in 0..Len(frames)-1, parser = "repl",
         NEW n, NEW bytes, NEW s \in {"cutting", "failed"},
         Off(frames, k+1) <= n, Len(bytes) = n - Off(frames, k+1),
         \A p \in 1..Len(bytes) : bytes[p] = stream[Off(frames, k+1) + p]
  PROVE  Done(k+1, n, bytes, NoLength, s)
BY DEF Done

LEMMA CutHeaderStep == ASSUME IInv, CutHeader PROVE IInv'
<1>1. PICK k \in 0..Len(frames) : Parsed(k)
  BY DEF IInv
<1> DEFINE o == Off(frames, k)
           f == frames[k+1]
           n == HeaderLen(f)
           H == Header(f.lines)
<1>2. /\ parser = "repl" /\ state = "cutting" /\ HeaderEnds(buf) # {}
      /\ UNCHANGED input /\ taken' = taken /\ length' = length /\ got' = got
  BY DEF CutHeader
<1>3. taken \in 0..Len(stream) /\ length = NoLength
  BY <1>2 DEF IInv, TypeOK
<1>4. got = MessagesOf(k) /\ Done(k, taken, buf, length, state)
  BY <1>1 DEF Parsed
<1>5. /\ taken \in Nat /\ buf \in Seq(Bytes) /\ Len(buf) \in Nat
      /\ o <= taken /\ Len(buf) = taken - o
      /\ \A p \in 1..Len(buf) : buf[p] = stream[o + p]
      /\ k < Len(frames) /\ n <= Len(buf)
      /\ Min(HeaderEnds(buf)) = n /\ SubSeq(buf, 1, n) = H
  BY <1>2, <1>4, HeaderInBuffer
<1>6. /\ k \in 0..Len(frames)-1 /\ k+1 \in 0..Len(frames)
      /\ f \in WellFormed /\ o \in Nat /\ n \in Nat
      /\ Off(frames, k+1) = o + n + Len(f.body) /\ Len(f.body) \in Nat
      /\ frames \in Seq(WellFormed)
  BY <1>5, NextFrame
<1>7. /\ Unreadable(H) => state' = "failed" /\ buf' = buf
      /\ ~Unreadable(H) => /\ DecodeHeader(H) = NoLength
                           /\ buf' = SubSeq(buf, n + 1, Len(buf)) /\ state' = state
  <2>1. LET end == Min(HeaderEnds(buf))
            header == SubSeq(buf, 1, end)
        IN IF Unreadable(header)
           THEN state' = "failed" /\ UNCHANGED buf
           ELSE /\ DecodeHeader(header) = NoLength
                /\ buf' = SubSeq(buf, end + 1, Len(buf))
                /\ UNCHANGED state
    BY DEF CutHeader
  <2> QED
    BY <1>5, <2>1, Zenon
<1>8. /\ Unreadable(H) <=> Unreadable(f.lines)
      /\ Unreadable(H) \/ DecodeHeader(H) = NoLength <=> ~HasLength(f)
      /\ ~HasLength(f) => Len(f.body) = 0 /\ ~IsJson(f.body)
  BY <1>6, HeaderRead
<1>9. CASE Unreadable(H)
  <2>1. o + n <= taken
    <3> HIDE DEF o, n
    <3> QED
      BY <1>5, <1>6
  <2>2. k+1 \in HeadersWithin(taken')
    BY <1>2, <1>6, <2>1, HeaderIsWithin
  <2>3. TruncationIsNoFailure'
    BY <1>2, <1>8, <1>9, <2>2, FailureKept
  <2>4. Done(k, taken', buf', length', state')
    BY <1>2, <1>3, <1>5, <1>7, <1>9 DEF Done
  <2> QED
    BY <1>2, <1>3, <1>4, <1>5, <1>7, <1>9, <2>3, <2>4, InvKept
<1>10. CASE ~Unreadable(H)
  <2>1. Len(f.body) = 0 /\ ~IsJson(f.body) /\ state' = "cutting"
    BY <1>2, <1>7, <1>8, <1>10
  <2>2. Off(frames, k+1) = o + n
    <3> HIDE DEF o, n
    <3> QED
      BY <1>6, <2>1
  <2>3. /\ buf' \in Seq(Bytes)
        /\ Len(buf') = taken - (o + n) /\ o + n <= taken
        /\ \A p \in 1..Len(buf') : buf'[p] = stream[(o + n) + p]
    <3>1. n \in 0..Len(buf) /\ buf' = SubSeq(buf, n + 1, Len(buf))
      BY <1>5, <1>6, <1>7, <1>10
    <3> HIDE DEF o, n
    <3> QED
      BY <1>5, <1>6, <3>1, RestOfBuffer
  <2>4. Done(k+1, taken', buf', length', state')
    BY <1>2, <1>3, <1>6, <2>1, <2>2, <2>3, DoneWhenCut
  <2>5. got' = MessagesOf(k+1)
    BY <1>2, <1>4, <1>6, <2>1, NextMessage
  <2>6. TruncationIsNoFailure'
    BY <1>2, <2>1, FailureKept
  <2> QED
    BY <1>2, <1>3, <1>6, <2>1, <2>3, <2>4, <2>5, <2>6, InvKept
<1> QED
  BY <1>9, <1>10

LEMMA CutMessageStep == ASSUME IInv, CutMessage PROVE IInv'
<1>1. PICK k \in 0..Len(frames) : Parsed(k)
  BY DEF IInv
<1> DEFINE o == Off(frames, k)
           f == frames[k+1]
           n == HeaderLen(f)
           H == Header(f.lines)
           total == n + DecodeHeader(H)
           body == SubSeq(buf, n + 1, total)
<1>2. /\ parser = "repl" /\ state = "cutting" /\ HeaderEnds(buf) # {}
      /\ UNCHANGED input /\ taken' = taken /\ length' = length
  BY DEF CutMessage
<1>3. taken \in 0..Len(stream) /\ length = NoLength /\ Len(stream) \in Nat
  BY <1>2, StreamIsWritten DEF IInv, TypeOK
<1>4. got = MessagesOf(k) /\ Done(k, taken, buf, length, state)
  BY <1>1 DEF Parsed
<1>5. /\ taken \in Nat /\ buf \in Seq(Bytes) /\ Len(buf) \in Nat
      /\ o <= taken /\ Len(buf) = taken - o
      /\ \A p \in 1..Len(buf) : buf[p] = stream[o + p]
      /\ k < Len(frames) /\ n <= Len(buf)
      /\ Min(HeaderEnds(buf)) = n /\ SubSeq(buf, 1, n) = H
  BY <1>2, <1>4, HeaderInBuffer
<1>6. /\ k \in 0..Len(frames)-1 /\ k+1 \in 0..Len(frames)
      /\ f \in WellFormed /\ o \in Nat /\ n \in Nat
      /\ Off(frames, k+1) = o + n + Len(f.body) /\ Len(f.body) \in Nat
      /\ frames \in Seq(WellFormed)
  BY <1>5, NextFrame
<1>7. /\ ~Unreadable(H) /\ DecodeHeader(H) # NoLength /\ total <= Len(buf)
      /\ buf' = SubSeq(buf, total + 1, Len(buf))
      /\ got' = IF IsJson(body) THEN Append(got, body) ELSE got
      /\ state' = IF Unreadable(body) THEN "failed" ELSE state
  <2>1. LET end == Min(HeaderEnds(buf))
            header == SubSeq(buf, 1, end)
            all == end + DecodeHeader(header)
            message == SubSeq(buf, end + 1, all)
        IN /\ ~Unreadable(header) /\ DecodeHeader(header) # NoLength
           /\ all <= Len(buf)
           /\ buf' = SubSeq(buf, all + 1, Len(buf))
           /\ got' = IF IsJson(message) THEN Append(got, message) ELSE got
           /\ state' = IF Unreadable(message) THEN "failed" ELSE state
    BY DEF CutMessage
  <2> QED
    BY <1>5, <2>1, Zenon
<1>8. DecodeHeader(H) = Len(f.body)
  BY <1>6, <1>7, HeaderRead
<1> DEFINE b == n + Len(f.body)
<1>9. total = b /\ b \in 0..Len(buf) /\ b \in Nat /\ o + b = Off(frames, k+1)
  <2>1. total = b
    BY <1>8
  <2>2. b <= Len(buf)
    BY <1>7, <2>1
  <2>3. Len(buf) \in Nat
    BY <1>5
  <2>4. /\ o \in Nat /\ n \in Nat /\ Len(f.body) \in Nat
        /\ Off(frames, k+1) = o + n + Len(f.body)
    BY <1>6
  <2> HIDE DEF total, n, o, f
  <2>5. b \in 0..Len(buf) /\ b \in Nat
    BY <2>2, <2>3, <2>4
  <2>6. o + b = Off(frames, k+1)
    <3> DEFINE m == Len(f.body)
    <3>1. o \in Nat /\ n \in Nat /\ m \in Nat /\ Off(frames, k+1) = o + n + m
      BY <2>4
    <3> HIDE DEF m
    <3>2. o + (n + m) = o + n + m
      BY <3>1
    <3> QED
      BY <3>1, <3>2, Zenon DEF b, m
  <2> QED
    BY <2>1, <2>5, <2>6
<1>10. body = f.body
  <2>1. /\ body \in Seq(Bytes) /\ Len(body) = Len(f.body)
        /\ \A p \in 1..Len(body) : body[p] = buf[n + p]
    <3>1. \A s \in Seq(Bytes) : \A i, m \in Nat : i + m <= Len(s) =>
            LET c == SubSeq(s, i + 1, i + m)
            IN c \in Seq(Bytes) /\ Len(c) = m /\ \A p \in 1..m : c[p] = s[i + p]
      OBVIOUS
    <3> DEFINE m == Len(f.body)
    <3>2. body = SubSeq(buf, n + 1, n + m) /\ n + m <= Len(buf)
      BY <1>7, <1>8
    <3>3. buf \in Seq(Bytes) /\ n \in Nat /\ m \in Nat
      BY <1>5, <1>6
    <3> HIDE DEF body, n, m
    <3>4. body \in Seq(Bytes) /\ Len(body) = m /\ \A p \in 1..m : body[p] = buf[n + p]
      BY <3>1, <3>2, <3>3, Zenon
    <3> QED
      BY <3>4, Zenon DEF m
  <2> HIDE DEF body
  <2>2. \A p \in 1..Len(body) : n + p \in 1..Len(buf) /\ o + (n + p) = o + n + p
    <3> HIDE DEF n, o
    <3> QED
      BY <1>5, <1>6, <1>9, <2>1 DEF b
  <2>3. \A p \in 1..Len(body) : body[p] = stream[o + n + p]
    BY <1>5, <2>1, <2>2, Zenon
  <2>4. Off(frames, k+1) <= Len(stream)
    <3> HIDE DEF b, o
    <3> QED
      BY <1>3, <1>5, <1>6, <1>9
  <2> QED
    BY <1>6, <2>1, <2>3, <2>4, NextBody
<1>11. got' = MessagesOf(k+1)
  BY <1>4, <1>6, <1>7, <1>10, NextMessage
<1>12. /\ buf' \in Seq(Bytes)
       /\ Len(buf') = taken - (o + b) /\ o + b <= taken
       /\ \A p \in 1..Len(buf') : buf'[p] = stream[(o + b) + p]
  <2>1. buf' = SubSeq(buf, b + 1, Len(buf))
    BY <1>7, <1>9
  <2> HIDE DEF o, b
  <2> QED
    BY <1>5, <1>6, <1>9, <2>1, RestOfBuffer
<1>13. state' \in {"cutting", "failed"} /\ (state' = "failed" => Unreadable(f.body))
  BY <1>2, <1>7, <1>10
<1>14. Done(k+1, taken', buf', length', state')
  <2>1. /\ Off(frames, k+1) <= taken' /\ Len(buf') = taken' - Off(frames, k+1)
        /\ \A p \in 1..Len(buf') : buf'[p] = stream[Off(frames, k+1) + p]
    BY <1>2, <1>9, <1>12, Zenon
  <2> QED
    BY <1>2, <1>3, <1>6, <1>13, <2>1, DoneWhenCut
<1>15. o + n <= taken
  <2> HIDE DEF o, n
  <2> QED
    BY <1>5, <1>6
<1>16. k+1 \in HeadersWithin(taken')
  BY <1>2, <1>6, <1>15, HeaderIsWithin
<1>17. TruncationIsNoFailure'
  BY <1>2, <1>13, <1>16, FailureKept
<1> QED
  BY <1>2, <1>3, <1>6, <1>11, <1>12, <1>13, <1>14, <1>17, InvKept

-----------------------------------------------------------------------------
(* The theorems.                                                           *)

LEMMA FramingInvariant == Spec => []IInv
<1>1. IInv /\ [Next]_vars => IInv'
  <2> SUFFICES ASSUME IInv, [Next]_vars PROVE IInv'
    OBVIOUS
  <2>1. CASE ReadByte
    BY <2>1, ReadByteStep
  <2>2. CASE ReadBody
    BY <2>2, ReadBodyStep
  <2>3. CASE ReadEof
    BY <2>3, ReadEofStep
  <2>4. CASE Recv
    BY <2>4, RecvStep
  <2>5. CASE RecvEof
    BY <2>5, RecvEofStep
  <2>6. CASE NothingToCut
    BY <2>6, NothingToCutStep
  <2>7. CASE CutHeader
    BY <2>7, CutHeaderStep
  <2>8. CASE CutMessage
    BY <2>8, CutMessageStep
  <2>9. CASE UNCHANGED vars
    <3>1. /\ UNCHANGED input /\ taken' = taken /\ buf' = buf /\ length' = length
          /\ state' = state /\ got' = got
      BY <2>9 DEF vars
    <3>2. PICK k \in 0..Len(frames) : Parsed(k)
      BY DEF IInv
    <3>3. got' = MessagesOf(k) /\ Done(k, taken', buf', length', state')
      BY <3>1, <3>2 DEF Parsed
    <3>4. TruncationIsNoFailure'
      BY <3>1, FailureKept DEF IInv, TruncationIsNoFailure
    <3>5. /\ taken \in 0..Len(stream) /\ buf \in Seq(Bytes) /\ length \in Nat \cup {NoLength}
          /\ state \in {"reading", "cutting", "closed", "failed"}
          /\ parser = "mux" => state # "cutting"
          /\ parser = "repl" => length = NoLength
      BY DEF IInv, TypeOK
    <3> QED
      BY <3>1, <3>2, <3>3, <3>4, <3>5, InvKept
  <2> QED
    BY <2>1, <2>2, <2>3, <2>4, <2>5, <2>6, <2>7, <2>8, <2>9 DEF Next
<1> QED
  BY <1>1, InitInv, PTL DEF Spec

\* The variables of the framing have their types (protocol.py:163-206,
\* ipython_ext.py:146-187).
THEOREM FramingTypeCorrect == Spec => []TypeOK
<1>1. IInv => TypeOK
  BY DEF IInv
<1> QED
  BY <1>1, FramingInvariant, PTL

LEMMA GotWithin ==
  ASSUME IInv, NEW n \in Nat, taken <= n
  PROVE  Bodies(n) \in Seq(Seq(BodyBytes)) /\ IsPrefix(got, Bodies(n))
<1>1. PICK k \in 0..Len(frames) : Parsed(k)
  BY DEF IInv
<1>2. frames \in Seq(WellFormed) /\ taken \in Nat
  BY StreamIsWritten DEF IInv
<1>3. got = MessagesOf(k) /\ Off(frames, k) <= taken /\ Off(frames, k) \in Nat
  BY <1>1, <1>2, OffGrows DEF Parsed, Done
<1>4. Off(frames, k) <= n
  BY <1>2, <1>3
<1>5. PICK l \in k..Len(frames) :
        Off(frames, l) <= n /\ (l < Len(frames) => n < Off(frames, l+1))
  BY <1>2, <1>4, FrameAt
<1>6. l \in 0..Len(frames)
  OBVIOUS
<1>7. Bodies(n) = MessagesOf(l)
  BY <1>2, <1>5, <1>6, FramesWithinAreFirst DEF Bodies
<1> QED
  BY <1>2, <1>3, <1>5, <1>6, <1>7, MessagesGrow, MessagesType

LEMMA GotEverything ==
  ASSUME IInv, parser = "mux" \/ state \in {"reading", "closed"}
  PROVE  got = Bodies(taken)
<1>1. PICK k \in 0..Len(frames) : Parsed(k)
  BY DEF IInv
<1>2. frames \in Seq(WellFormed) /\ taken \in Nat
  BY StreamIsWritten DEF IInv
<1>3. got = MessagesOf(k) /\ Off(frames, k) <= taken
  BY <1>1 DEF Parsed, Done
<1>4. k < Len(frames) => taken < Off(frames, k+1)
  BY <1>1 DEF Parsed, Done
<1>5. Cardinality(FramesWithin(taken)) = k
  BY <1>2, <1>3, <1>4, FramesWithinAreFirst
<1> QED
  BY <1>3, <1>5 DEF Bodies

\* However many frames there are and however the bytes of them are cut into
\* pieces, each message is passed on once, whole and in order, as soon as its last
\* byte is there (protocol.py:163-206, ipython_ext.py:146-187).
THEOREM MessagesAreWhole == Spec => []WholeMessages
<1>1. IInv => WholeMessages
  <2> SUFFICES ASSUME IInv PROVE WholeMessages
    OBVIOUS
  <2>1. taken \in Nat /\ taken <= taken
    BY StreamIsWritten
  <2> QED
    BY <2>1, GotWithin, GotEverything DEF WholeMessages
<1> QED
  BY <1>1, FramingInvariant, PTL

\* Wherever the stream ends, a read loop fails only when it has read the whole
\* header of a frame that it cannot read (protocol.py:167, client.py:96).
THEOREM TruncationNeverFails == Spec => []TruncationIsNoFailure
<1>1. IInv => TruncationIsNoFailure
  BY DEF IInv
<1> QED
  BY <1>1, FramingInvariant, PTL


-----------------------------------------------------------------------------
(* A queue of messages.                                                    *)

Sent == Bodies(Len(stream))
Status == IF state \in {"closed", "failed"} THEN state ELSE "open"

\* What was passed on so far, and at the end of the stream.
Passed ==
  /\ Sent \in Seq(Seq(BodyBytes)) /\ got \in Seq(Seq(BodyBytes))
  /\ IsPrefix(got, Sent)
  /\ (parser = "mux" \/ state \in {"reading", "closed"}) /\ taken = Len(stream) => got = Sent

LEMMA InvPassed == IInv => Passed
<1> SUFFICES ASSUME IInv PROVE Passed
  OBVIOUS
<1>1. taken <= Len(stream) /\ Len(stream) \in Nat
  BY StreamIsWritten
<1>2. got \in Seq(Seq(BodyBytes))
  BY DEF IInv, TypeOK
<1> QED
  BY <1>1, <1>2, GotWithin, GotEverything DEF Passed, Sent

LEMMA OneMore ==
  ASSUME NEW T, NEW s \in Seq(T), NEW t \in Seq(T), NEW e \in T, IsPrefix(Append(s, e), t)
  PROVE  Len(s) < Len(t) /\ e = t[Len(s) + 1]
<1> DEFINE n == Len(s) + 1
<1>1. /\ Append(s, e) \in Seq(T) /\ Len(Append(s, e)) = n /\ Append(s, e)[n] = e
      /\ n \in Nat /\ n > 0 /\ Len(s) \in Nat /\ Len(t) \in Nat
  OBVIOUS
<1>2. n <= Len(t) /\ SubSeq(Append(s, e), 1, n) = SubSeq(t, 1, n)
  BY <1>1, Zenon DEF IsPrefix
<1>3. \A u \in Seq(T) : \A m \in Nat : m > 0 /\ m <= Len(u) => SubSeq(u, 1, m)[m] = u[m]
  OBVIOUS
<1>4. n <= Len(Append(s, e))
  BY <1>1
<1>5. SubSeq(Append(s, e), 1, n)[n] = e /\ SubSeq(t, 1, n)[n] = t[n]
  BY <1>1, <1>2, <1>3, <1>4, Zenon
<1>6. e = t[n]
  BY <1>2, <1>5, Zenon
<1> QED
  BY <1>1, <1>2, <1>6

LEMMA SentKept == ASSUME UNCHANGED input PROVE Sent' = Sent
BY DEF input, Sent, Bodies, MessagesOf, FramesWithin

\* The queue stays as it is, fails, is closed when all is passed on, or delivers.
LEMMA ChannelStep ==
  ASSUME Passed, Passed', UNCHANGED input,
         \/ got' = got /\ Status' = Status
         \/ got' = got /\ Status = "open" /\ Status' = "failed"
         \/ got' = got /\ Status = "open" /\ Status' = "closed" /\ got' = Sent'
         \/ Status = "open" /\ Status' = "open" /\ \E e : got' = Append(got, e)
  PROVE  [Wire!ChannelNext]_(Wire!channelVars)
<1>1. Sent' = Sent
  BY SentKept
<1>2. CASE got' = got /\ Status' = Status
  BY <1>1, <1>2 DEF Wire!channelVars, Sent, Status
<1>3. CASE got' = got /\ Status = "open" /\ Status' = "failed"
  BY <1>1, <1>3 DEF Wire!ChannelNext, Wire!Fail, Sent, Status
<1>4. CASE got' = got /\ Status = "open" /\ Status' = "closed" /\ got' = Sent'
  BY <1>1, <1>4 DEF Wire!ChannelNext, Wire!Close, Sent, Status
<1>5. ASSUME Status = "open", Status' = "open", NEW e, got' = Append(got, e)
      PROVE  Wire!Deliver
  <2>1. IsPrefix(Append(got, e), Sent)
    BY <1>1, <1>5, Zenon DEF Passed
  <2> DEFINE T == Seq(BodyBytes) \cup {e}
  <2>2. \A S, R : S \subseteq R => Seq(S) \subseteq Seq(R)
    OBVIOUS
  <2>3. Seq(Seq(BodyBytes)) \subseteq Seq(T)
    BY <2>2
  <2>4. got \in Seq(T) /\ Sent \in Seq(T) /\ e \in T
    BY <2>3, Zenon DEF Passed
  <2> HIDE DEF T
  <2>5. Len(got) < Len(Sent) /\ e = Sent[Len(got) + 1]
    BY <2>1, <2>4, OneMore
  <2> QED
    BY <1>1, <1>5, <2>5, Zenon DEF Wire!Deliver, Sent, Status
<1> QED
  BY <1>2, <1>3, <1>4, <1>5 DEF Wire!ChannelNext

\* Whatever the bytes are, both parsers implement the queue of messages that the
\* multiplexer and the REPL take for granted (protocol.py:163-206,
\* ipython_ext.py:146-187).
THEOREM ImplementsChannel == Spec => CarriesMessages
<1>1. Init => Wire!ChannelInit
  BY DEF Init, Wire!ChannelInit
<1>2. ASSUME Passed, Passed', [Next]_vars
      PROVE  [Wire!ChannelNext]_(Wire!channelVars)
  <2>1. CASE ReadByte
    <3>1. UNCHANGED input /\ got' = got /\ state = "reading" /\ state' \in {"reading", "failed"}
      BY <2>1 DEF ReadByte
    <3> QED
      BY <1>2, <3>1, ChannelStep DEF Status
  <2>2. CASE ReadBody
    <3> DEFINE body == SubSeq(stream, taken + 1, taken + length)
    <3>1. /\ UNCHANGED input /\ state = "reading"
          /\ \/ got' = Append(got, body) /\ state' = state
             \/ got' = got /\ state' = "failed"
      BY <2>2 DEF ReadBody
    <3> HIDE DEF body
    <3> QED
      BY <1>2, <3>1, ChannelStep DEF Status
  <2>3. CASE ReadEof
    <3>1. UNCHANGED input /\ got' = got /\ state = "reading" /\ state' = "closed"
      BY <2>3 DEF ReadEof
    <3>2. parser' = "mux" /\ taken' = Len(stream)'
      BY <2>3 DEF ReadEof, input
    <3>3. got' = Sent'
      BY <1>2, <3>2, Zenon DEF Passed
    <3> QED
      BY <1>2, <3>1, <3>3, ChannelStep DEF Status
  <2>4. CASE Recv
    <3>1. UNCHANGED input /\ got' = got /\ state = "reading" /\ state' = "cutting"
      BY <2>4 DEF Recv
    <3> QED
      BY <1>2, <3>1, ChannelStep DEF Status
  <2>5. CASE RecvEof
    <3>1. UNCHANGED input /\ got' = got /\ state = "reading" /\ state' = "closed"
      BY <2>5 DEF RecvEof
    <3>2. taken' = Len(stream)'
      BY <2>5 DEF RecvEof, input
    <3>3. got' = Sent'
      BY <1>2, <3>1, <3>2 DEF Passed
    <3> QED
      BY <1>2, <3>1, <3>3, ChannelStep DEF Status
  <2>6. CASE NothingToCut
    <3>1. UNCHANGED input /\ got' = got /\ state = "cutting" /\ state' = "reading"
      BY <2>6 DEF NothingToCut
    <3> QED
      BY <1>2, <3>1, ChannelStep DEF Status
  <2>7. CASE CutHeader
    <3>1. UNCHANGED input /\ got' = got /\ state = "cutting" /\ state' \in {"cutting", "failed"}
      BY <2>7 DEF CutHeader
    <3> QED
      BY <1>2, <3>1, ChannelStep DEF Status
  <2>8. CASE CutMessage
    <3>1. /\ UNCHANGED input /\ state = "cutting"
          /\ \E body : /\ got' = IF IsJson(body) THEN Append(got, body) ELSE got
                       /\ state' = IF Unreadable(body) THEN "failed" ELSE state
      BY <2>8, Zenon DEF CutMessage
    <3>2. PICK body : /\ got' = IF IsJson(body) THEN Append(got, body) ELSE got
                      /\ state' = IF Unreadable(body) THEN "failed" ELSE state
      BY <3>1
    <3>3. IsJson(body) => ~Unreadable(body)
      BY DEF IsJson
    <3> QED
      BY <1>2, <3>1, <3>2, <3>3, ChannelStep DEF Status
  <2>9. CASE UNCHANGED vars
    <3>1. UNCHANGED input /\ got' = got /\ Status' = Status
      BY <2>9 DEF vars, Status
    <3> QED
      BY <1>2, <3>1, ChannelStep
  <2> QED
    BY <1>2, <2>1, <2>2, <2>3, <2>4, <2>5, <2>6, <2>7, <2>8, <2>9 DEF Next
<1> QED
  BY <1>1, <1>2, InvPassed, FramingInvariant, PTL DEF Spec, CarriesMessages, Wire!ChannelSpec

-----------------------------------------------------------------------------
(* Every step counts.                                                      *)

LEMMA LengthType ==
  ASSUME NEW header \in Seq(Bytes)
  PROVE  DecodeHeader(header) \in Nat \cup {NoLength}
<1> DEFINE starts == {i \in DOMAIN header :
                        /\ header[i].is = "Content-Length"
                        /\ i = 1 \/ header[i-1] = Byte("LF")}
<1>1. starts \subseteq Nat /\ \A i \in starts : header[i] \in Bytes
  OBVIOUS
<1>2. CASE starts = {}
  BY <1>2 DEF DecodeHeader
<1>3. CASE starts # {}
  <2>1. DecodeHeader(header) = header[Min(starts)].value
    BY <1>3, Zenon DEF DecodeHeader
  <2> HIDE DEF starts
  <2>2. Min(starts) \in starts
    BY <1>1, <1>3, MinOfSome
  <2>3. header[Min(starts)].value \in Nat
    BY <1>1, <2>2 DEF Bytes
  <2> QED
    BY <2>1, <2>3
<1> QED
  BY <1>2, <1>3

LEMMA HeaderIsInBuffer ==
  ASSUME NEW bytes \in Seq(Bytes), HeaderEnds(bytes) # {}
  PROVE  /\ Min(HeaderEnds(bytes)) \in 4..Len(bytes)
         /\ SubSeq(bytes, 1, Min(HeaderEnds(bytes))) \in Seq(Bytes)
<1>1. HeaderEnds(bytes) \subseteq 4..Len(bytes) /\ Len(bytes) \in Nat
  BY DEF HeaderEnds
<1>2. Min(HeaderEnds(bytes)) \in HeaderEnds(bytes)
  BY <1>1, MinOfSome
<1> QED
  BY <1>1, <1>2

\* What is cut off the front of a buffer shortens it.
LEMMA BufferShrinks ==
  ASSUME NEW bytes \in Seq(Bytes), NEW n \in 1..Len(bytes)
  PROVE  Len(SubSeq(bytes, n + 1, Len(bytes))) < Len(bytes)
OBVIOUS

Waits(body) == IF body = NoLength THEN 0 ELSE 1
Rank(s) == CASE s = "cutting" -> 2 [] s = "reading" -> 1 [] OTHER -> 0

LEMMA LessIsLeft ==
  ASSUME TypeOK, TypeOK', UNCHANGED input,
         Len(buf') + Waits(length') + Rank(state') + 3 * taken
           < Len(buf) + Waits(length) + Rank(state) + 3 * taken'
  PROVE  Left' < Left
<1>1. \A all, t, u, b, c, w, x, k, l \in Int :
        c + x + l + 3 * t < b + w + k + 3 * u =>
          3 * (all - u) + c + x + l < 3 * (all - t) + b + w + k
  OBVIOUS
<1>2. Len(stream) \in Int /\ taken \in Int /\ Len(buf) \in Int /\ taken' \in Int /\ Len(buf') \in Int
  BY DEF TypeOK
<1>3. /\ Waits(length) \in Int /\ Waits(length') \in Int
      /\ Rank(state) \in Int /\ Rank(state') \in Int
  BY DEF Waits, Rank
<1>4. Left = 3 * (Len(stream) - taken) + Len(buf) + Waits(length) + Rank(state)
  BY DEF Left, Waits, Rank
<1>5. Left' = 3 * (Len(stream) - taken') + Len(buf') + Waits(length') + Rank(state')
  BY DEF Left, Waits, Rank, input
<1> QED
  BY <1>1, <1>2, <1>3, <1>4, <1>5, Zenon

LEMMA CutIsLeft ==
  ASSUME TypeOK, TypeOK', UNCHANGED input, taken' = taken, length' = length,
         Len(buf') <= Len(buf), Rank(state') <= Rank(state),
         Len(buf') < Len(buf) \/ Rank(state') < Rank(state)
  PROVE  Left' < Left
<1>1. \A b, c, k, l, w, t \in Int :
        c <= b /\ l <= k /\ (c < b \/ l < k) => c + w + l + 3 * t < b + w + k + 3 * t
  OBVIOUS
<1>2. Len(buf) \in Int /\ Len(buf') \in Int /\ taken \in Int
  BY DEF TypeOK
<1>3. Waits(length) \in Int /\ Rank(state) \in Int /\ Rank(state') \in Int
  BY DEF Waits, Rank
<1>4. Len(buf') + Waits(length) + Rank(state') + 3 * taken
        < Len(buf) + Waits(length) + Rank(state) + 3 * taken
  BY <1>1, <1>2, <1>3, Zenon
<1> QED
  BY <1>4, LessIsLeft, Zenon

\* The work that is left is a natural number that every step makes smaller, for
\* any stream: no parser goes round without getting on (protocol.py:163-206,
\* ipython_ext.py:156-182).
THEOREM EveryStepIsProgress == Spec => [](Left \in Nat) /\ EveryStepCounts
<1>1. ASSUME TypeOK PROVE Left \in Nat
  <2>1. Len(stream) \in Nat /\ taken \in 0..Len(stream) /\ Len(buf) \in Nat
    BY <1>1 DEF TypeOK
  <2>2. Waits(length) \in 0..1 /\ Rank(state) \in 0..2
    BY DEF Waits, Rank
  <2>3. Left = 3 * (Len(stream) - taken) + Len(buf) + Waits(length) + Rank(state)
    BY DEF Left, Waits, Rank
  <2>4. \A all, b \in Nat : \A t \in 0..all : \A w \in 0..1 : \A k \in 0..2 :
          3 * (all - t) + b + w + k \in Nat
    OBVIOUS
  <2> QED
    BY <2>1, <2>2, <2>3, <2>4, Zenon
<1>2. ASSUME TypeOK, TypeOK', [Next]_vars PROVE [Left' < Left]_vars
  <2>1. /\ Len(stream) \in Nat /\ taken \in 0..Len(stream) /\ buf \in Seq(Bytes) /\ Len(buf) \in Nat
        /\ length \in Nat \cup {NoLength}
    BY <1>2 DEF TypeOK
  <2>2. /\ TypeOK /\ TypeOK' /\ taken' \in Nat /\ Len(buf)' \in Nat
        /\ Waits(length) \in 0..1 /\ Waits(length') \in 0..1
    BY <1>2 DEF TypeOK, Waits
  <2>3. /\ Rank("cutting") = 2 /\ Rank("reading") = 1
        /\ Rank("closed") = 0 /\ Rank("failed") = 0
        /\ Waits(NoLength) = 0 /\ \A body : body # NoLength => Waits(body) = 1
    BY DEF Rank, Waits
  <2>4. CASE ReadByte
    <3>1. /\ UNCHANGED input /\ taken' = taken + 1 /\ length = NoLength /\ state = "reading"
          /\ state' \in {"reading", "failed"}
          /\ Len(buf)' <= Len(buf) + 1
      BY <2>1, <2>4 DEF ReadByte
    <3> QED
      BY <2>1, <2>2, <2>3, <3>1, LessIsLeft
  <2>5. CASE ReadBody
    <3>1. /\ UNCHANGED input /\ taken' = taken + length /\ length # NoLength /\ length' = NoLength
          /\ state = "reading" /\ state' \in {"reading", "failed"} /\ buf' = buf
      BY <2>5 DEF ReadBody
    <3> QED
      BY <2>1, <2>2, <2>3, <3>1, LessIsLeft
  <2>6. CASE ReadEof
    <3>1. /\ UNCHANGED input /\ taken' = Len(stream) /\ length' = length /\ buf' = buf
          /\ state = "reading" /\ state' = "closed"
      BY <2>6 DEF ReadEof
    <3> QED
      BY <2>1, <2>2, <2>3, <3>1, LessIsLeft
  <2>7. CASE Recv
    <3>1. PICK n \in taken + 1..Len(stream) :
             buf' = buf \o SubSeq(stream, taken + 1, n) /\ taken' = n
      BY <2>7 DEF Recv
    <3>2. UNCHANGED input /\ length' = length /\ state = "reading" /\ state' = "cutting"
      BY <2>7 DEF Recv
    <3>3. Len(buf)' = Len(buf) + (n - taken)
      BY <1>2, <2>1, <3>1 DEF TypeOK
    <3> QED
      BY <2>1, <2>2, <2>3, <3>1, <3>2, <3>3, LessIsLeft
  <2>8. CASE RecvEof
    <3>1. /\ UNCHANGED input /\ taken' = taken /\ length' = length /\ buf' = buf
          /\ state = "reading" /\ state' = "closed"
      BY <2>8 DEF RecvEof
    <3> QED
      BY <2>1, <2>2, <2>3, <3>1, LessIsLeft
  <2>9. CASE NothingToCut
    <3>1. /\ UNCHANGED input /\ taken' = taken /\ length' = length /\ buf' = buf
          /\ state = "cutting" /\ state' = "reading"
      BY <2>9 DEF NothingToCut
    <3> QED
      BY <2>1, <2>2, <2>3, <3>1, LessIsLeft
  <2>10. CASE CutHeader
    <3>1. /\ UNCHANGED input /\ taken' = taken /\ length' = length /\ state = "cutting"
          /\ HeaderEnds(buf) # {}
          /\ \/ buf' = buf /\ state' = "failed"
             \/ buf' = SubSeq(buf, Min(HeaderEnds(buf)) + 1, Len(buf)) /\ state' = state
      BY <2>10 DEF CutHeader
    <3> DEFINE end == Min(HeaderEnds(buf))
    <3>2. end \in 1..Len(buf)
      BY <2>1, <3>1, HeaderIsInBuffer
    <3> HIDE DEF end
    <3>3. buf' = SubSeq(buf, end + 1, Len(buf)) => Len(buf)' < Len(buf)
      BY <2>1, <3>2, BufferShrinks
    <3>4. CASE buf' = buf /\ state' = "failed"
      <4>1. Len(buf') <= Len(buf) /\ Rank(state') < Rank(state)
        BY <2>1, <2>3, <3>1, <3>4
      <4>2. Rank(state') <= Rank(state)
        BY <2>3, <3>1, <3>4
      <4>3. UNCHANGED input /\ taken' = taken /\ length' = length
        BY <3>1
      <4> QED
        BY <2>2, <4>1, <4>2, <4>3, CutIsLeft
    <3>5. CASE buf' = SubSeq(buf, end + 1, Len(buf)) /\ state' = state
      <4>1. Len(buf') < Len(buf)
        BY <3>3, <3>5, Zenon
      <4>2. Rank(state') <= Rank(state)
        BY <2>3, <3>1, <3>5
      <4>3. UNCHANGED input /\ taken' = taken /\ length' = length
        BY <3>1
      <4>4. Len(buf') <= Len(buf)
        BY <2>1, <2>2, <4>1
      <4> QED
        BY <2>2, <4>1, <4>2, <4>3, <4>4, CutIsLeft
    <3> QED
      BY <3>1, <3>4, <3>5 DEF end
  <2>11. CASE CutMessage
    <3> DEFINE end == Min(HeaderEnds(buf))
               header == SubSeq(buf, 1, end)
               total == end + DecodeHeader(header)
    <3>1. /\ UNCHANGED input /\ taken' = taken /\ length' = length /\ state = "cutting"
          /\ HeaderEnds(buf) # {}
          /\ DecodeHeader(header) # NoLength /\ total <= Len(buf)
          /\ buf' = SubSeq(buf, total + 1, Len(buf))
          /\ state' \in {"cutting", "failed"}
      BY <2>11 DEF CutMessage
    <3>2. end \in 1..Len(buf) /\ DecodeHeader(header) \in Nat
      <4>1. header \in Seq(Bytes) /\ end \in 4..Len(buf)
        BY <2>1, <3>1, HeaderIsInBuffer
      <4> HIDE DEF header, end
      <4>2. DecodeHeader(header) \in Nat \cup {NoLength}
        BY <4>1, LengthType
      <4> QED
        BY <2>1, <3>1, <4>1, <4>2
    <3>3. total \in 1..Len(buf)
      <4> HIDE DEF end, header
      <4> QED
        BY <2>1, <3>1, <3>2
    <3> HIDE DEF total, header, end
    <3>4. Len(buf)' < Len(buf)
      BY <2>1, <3>1, <3>3, BufferShrinks
    <3>5. Len(buf') <= Len(buf)
      BY <2>1, <2>2, <3>4
    <3>6. Rank(state') <= Rank(state)
      BY <2>3, <3>1
    <3> QED
      BY <2>2, <3>1, <3>4, <3>5, <3>6, CutIsLeft
  <2> QED
    BY <1>2, <2>4, <2>5, <2>6, <2>7, <2>8, <2>9, <2>10, <2>11 DEF Next
<1> QED
  BY <1>1, <1>2, FramingTypeCorrect, PTL DEF Spec, EveryStepCounts

=============================================================================
