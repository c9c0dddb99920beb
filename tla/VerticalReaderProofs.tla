------------------------ MODULE VerticalReaderProofs ------------------------
(***************************************************************************)
(* What the reader of a module's connection keeps, for any packets, any    *)
(* place at which the module stops, and any arrays that slices.Grow makes. *)
(* The invariant says where in the stream, and for the frame that is being *)
(* read where in the buffer, the words of every frame are.                 *)
(***************************************************************************)
EXTENDS VerticalReader, SequenceTheorems, TLAPS

USE DEF HeaderSize, EmptySize

-----------------------------------------------------------------------------
(* Sequences. *)

\* A function on 1..n is a sequence of length n.
LEMMA FunctionIsSeq ==
  ASSUME NEW S, NEW n \in Nat, NEW f \in [1..n -> S]
  PROVE  f \in Seq(S) /\ Len(f) = n
<1>1. f \in Seq(S)
  BY SeqDef
<1>2. 1..n = 1..Len(f) /\ Len(f) \in Nat
  BY <1>1, LenProperties
<1> QED
  BY <1>1, <1>2

\* What is left of a sequence when k elements are taken off its front.
LEMMA RestOfSeq ==
  ASSUME NEW S, NEW s \in Seq(S), NEW k \in 0..Len(s)
  PROVE  /\ SubSeq(s, k + 1, Len(s)) \in Seq(S)
         /\ Len(SubSeq(s, k + 1, Len(s))) = Len(s) - k
         /\ \A i \in 1..(Len(s) - k) : SubSeq(s, k + 1, Len(s))[i] = s[k + i]
<1>1. k + 1 \in Int /\ Len(s) \in Int /\ \A i \in (k + 1)..Len(s) : s[i] \in S
  BY ElementOfSeq
<1> QED
  BY <1>1, SubSeqProperties

\* The first k elements of a sequence.
LEMMA FrontOfSeq ==
  ASSUME NEW S, NEW s \in Seq(S), NEW k \in 0..Len(s)
  PROVE  /\ SubSeq(s, 1, k) \in Seq(S)
         /\ Len(SubSeq(s, 1, k)) = k
         /\ \A i \in 1..k : SubSeq(s, 1, k)[i] = s[i]
<1>1. k \in Int /\ Len(s) \in Int /\ \A i \in 1..k : s[i] \in S
  BY ElementOfSeq
<1> QED
  BY <1>1, SubSeqProperties

\* What is appended is the one new element.
LEMMA RangeOfAppend ==
  ASSUME NEW s, s \in Seq(Range(s)), NEW e
  PROVE  /\ Append(s, e) \in Seq(Range(Append(s, e)))
         /\ Range(Append(s, e)) = Range(s) \cup {e}
<1> DEFINE S == Range(s) \cup {e}
           t == Append(s, e)
<1>1. s \in Seq(S)
  BY SeqMonotonic
<1>2. /\ t \in Seq(S) /\ Len(t) = Len(s) + 1 /\ t[Len(s) + 1] = e
      /\ \A i \in 1..Len(s) : t[i] = s[i]
  BY <1>1, AppendProperties
<1> HIDE DEF S, t
<1>3. /\ Range(s) = {s[i] : i \in 1..Len(s)} /\ Range(t) = {t[i] : i \in 1..Len(t)}
      /\ Len(s) \in Nat
  <2>1. Range(s) = {s[i] : i \in 1..Len(s)}
    BY <1>1, RangeEquality
  <2>2. Range(t) = {t[i] : i \in 1..Len(t)}
    BY <1>2, RangeEquality
  <2> QED
    BY <1>1, <2>1, <2>2, LenProperties
<1>4. Range(t) = Range(s) \cup {e}
  <2>1. ASSUME NEW x \in Range(t)
        PROVE  x \in Range(s) \cup {e}
    <3>1. PICK i \in 1..(Len(s) + 1) : x = t[i]
      BY <1>2, <1>3, <2>1
    <3>2. CASE i \in 1..Len(s)
      <4>1. x = s[i]
        BY <1>2, <3>1, <3>2
      <4> QED
        BY <1>3, <3>2, <4>1
    <3>3. CASE i = Len(s) + 1
      BY <1>2, <3>1, <3>3
    <3> QED
      BY <1>3, <3>2, <3>3
  <2>2. ASSUME NEW x \in Range(s)
        PROVE  x \in Range(t)
    <3>1. PICK i \in 1..Len(s) : x = s[i]
      BY <1>3, <2>2
    <3>2. x = t[i] /\ i \in 1..Len(t)
      BY <1>2, <1>3, <3>1
    <3> QED
      BY <1>3, <3>2
  <2>3. e \in Range(t)
    <3>1. Len(s) + 1 \in 1..Len(t)
      BY <1>2, <1>3
    <3> QED
      BY <1>2, <1>3, <3>1
  <2> QED
    BY <2>1, <2>2, <2>3
<1>5. t \in Seq(Range(t))
  BY <1>2, SeqOfRange
<1> QED
  BY <1>4, <1>5 DEF t

-----------------------------------------------------------------------------
(* The operators of the model. *)

\* Every frame has a header; one that is not refused for its size is as long as it says.
LEMMA FrameFacts ==
  ASSUME NEW f \in Frames
  PROVE  /\ f \in Seq(Words) /\ Len(f) >= HeaderSize
         /\ f[1] \in Words /\ f[2] \in Words
         /\ f[1] >= HeaderSize => Len(f) = f[1]
         /\ Len(f) >= EmptySize => Len(f) = f[1]
<1>1. /\ Modulus \in Nat \ {0, 1} /\ CutAt \subseteq 1..3
      /\ \A p \in Packets : p \in Seq(Words) /\ Len(p) >= 4 /\ Len(p) = p[1]
  BY VerticalReaderAssumption DEF VerticalReaderAssumption
<1>2. CASE f \in Packets
  <2>1. f \in Seq(Words) /\ Len(f) >= 4 /\ Len(f) = f[1] /\ Len(f) \in Nat
    BY <1>1, <1>2, LenProperties
  <2>2. f[1] \in Words /\ f[2] \in Words
    <3>1. 1 \in 1..Len(f) /\ 2 \in 1..Len(f)
      BY <2>1
    <3> QED
      BY <2>1, <3>1, ElementOfSeq
  <2> QED
    BY <2>1, <2>2
<1>3. CASE f \notin Packets
  <2>1. PICK p \in Packets, n \in CutAt : f = Cut(p, n)
    BY <1>3 DEF Frames
  <2>2. PICK m \in {2, 3} : m = (IF n < HeaderSize THEN HeaderSize ELSE n)
    BY <1>1
  <2>3. p \in Seq(Words) /\ Len(p) >= 4 /\ Len(p) = p[1] /\ Len(p) \in Nat
    BY <1>1, LenProperties
  <2>4. \A i \in 2..m : p[i] \in Words
    BY <2>2, <2>3, ElementOfSeq
  <2>5. /\ SubSeq(p, 2, m) \in Seq(Words)
        /\ Len(SubSeq(p, 2, m)) = m - 1
        /\ SubSeq(p, 2, m)[1] = p[2]
    <3>1. m \in Int /\ 1 \in 1..(m - 2 + 1)
      BY <2>2
    <3> QED
      BY <2>2, <2>4, <3>1, SubSeqProperties
  <2>6. n \in Words
    <3>1. p[1] \in Words
      BY <2>3, ElementOfSeq
    <3> QED
      BY <1>1, <2>3, <3>1 DEF Words
  <2>7. <<n>> \in Seq(Words) /\ Len(<<n>>) = 1 /\ <<n>>[1] = n
    BY <2>6
  <2>8. f = <<n>> \o SubSeq(p, 2, m)
    BY <2>1, <2>2 DEF Cut
  <2> HIDE DEF HeaderSize
  <2>9. f \in Seq(Words) /\ Len(f) = m /\ f[1] = n /\ f[2] = p[2]
    BY <2>2, <2>5, <2>7, <2>8, ConcatProperties
  <2>10. p[2] \in Words /\ n \in 1..3
    BY <1>1, <2>2, <2>4
  <2> QED
    BY <2>2, <2>6, <2>9, <2>10 DEF HeaderSize
<1> QED
  BY <1>2, <1>3

\* Filling changes words of the array and not its length.
LEMMA FilledFacts ==
  ASSUME arrays \in Seq(Seq(Words)), arrays # <<>>, NEW i \in Nat \ {0}, NEW w \in Seq(Words)
  PROVE  /\ Filled(i, w) \in Seq(Words)
         /\ Len(Filled(i, w)) = Len(Last(arrays))
         /\ \A j \in 1..Len(Last(arrays)) :
              Filled(i, w)[j] = IF j \in i..(i + Len(w) - 1) THEN w[j - i + 1] ELSE Last(arrays)[j]
<1>1. Len(arrays) \in Nat \ {0} /\ Len(arrays) \in 1..Len(arrays)
  BY EmptySeq
<1>2. Last(arrays) \in Seq(Words) /\ Len(Last(arrays)) \in Nat /\ Len(w) \in Nat
  BY <1>1, ElementOfSeq, LenProperties DEF Last
<1>3. ASSUME NEW j \in 1..Len(Last(arrays)), j \in i..(i + Len(w) - 1)
      PROVE  w[j - i + 1] \in Words
  <2>1. j - i + 1 \in 1..Len(w)
    BY <1>2, <1>3
  <2> QED
    BY <2>1, ElementOfSeq
<1>4. \A j \in 1..Len(Last(arrays)) : Last(arrays)[j] \in Words
  BY <1>2, ElementOfSeq
<1>5. Filled(i, w) \in [1..Len(Last(arrays)) -> Words]
  BY <1>3, <1>4 DEF Filled
<1>6. Filled(i, w) \in Seq(Words) /\ Len(Filled(i, w)) = Len(Last(arrays))
  BY <1>2, <1>5, FunctionIsSeq
<1> QED
  BY <1>6 DEF Filled

\* Filling the array leaves the others as they are, and all of them as long.
LEMMA BehindFacts ==
  ASSUME arrays \in Seq(Seq(Words)), arrays # <<>>, NEW array \in Seq(Words),
         Len(array) = Len(Last(arrays))
  PROVE  /\ Behind(array) \in Seq(Seq(Words)) /\ Behind(array) # <<>>
         /\ Len(Behind(array)) = Len(arrays)
         /\ Last(Behind(array)) = array
         /\ \A i \in 1..Len(arrays) : Len(Behind(array)[i]) = Len(arrays[i])
<1>1. Len(arrays) \in Nat \ {0} /\ Len(arrays) \in 1..Len(arrays)
  BY EmptySeq
<1> DEFINE n == Len(arrays)
<1>2. /\ Behind(array) \in Seq(Seq(Words)) /\ Len(Behind(array)) = n
      /\ \A j \in 1..n : Behind(array)[j] = IF j = n THEN array ELSE arrays[j]
  <2> HIDE DEF n
  <2>1. n \in 1..Len(arrays)
    BY <1>1 DEF n
  <2>2. Behind(array) = [arrays EXCEPT ![n] = array]
    BY DEF Behind, n
  <2>3. n = Len(arrays)
    BY DEF n
  <2> QED
    BY <2>1, <2>2, <2>3, ExceptSeq
<1>3. Behind(array) # <<>>
  BY <1>1, <1>2, EmptySeq
<1> QED
  BY <1>1, <1>2, <1>3 DEF Last

\* The buffer has room for the message, and begins as before.
LEMMA GrownFacts ==
  ASSUME arrays \in Seq(Seq(Words)), arrays # <<>>, NEW array \in Seq(Words),
         Len(array) = Len(Last(arrays)), NEW size \in Nat, NEW a \in Grown(array, size)
  PROVE  /\ a \in Seq(Seq(Words)) /\ a # <<>>
         /\ Len(a) \in Nat /\ Len(a) >= Len(arrays)
         /\ \A i \in 1..Len(arrays) : Len(a[i]) = Len(arrays[i])
         /\ Len(Last(a)) \in Nat /\ Len(Last(a)) >= size /\ Len(Last(a)) >= Len(array)
         /\ \A i \in 1..Len(array) : Last(a)[i] = array[i]
<1> DEFINE b == Behind(array)
<1>1. /\ b \in Seq(Seq(Words)) /\ b # <<>> /\ Len(b) = Len(arrays) /\ Last(b) = array
      /\ \A i \in 1..Len(arrays) : Len(b[i]) = Len(arrays[i])
      /\ Len(arrays) \in Nat /\ Len(array) \in Nat
  BY BehindFacts, LenProperties
<1> HIDE DEF b
<1>2. CASE size <= Len(array)
  <2>1. a = b
    BY <1>2 DEF Grown, b
  <2> QED
    BY <1>1, <1>2, <2>1
<1>3. CASE ~(size <= Len(array))
  <2>1. PICK n \in 0..MaxSpare :
          a = Append(b, array \o [i \in 1..(size - Len(array) + n) |-> 0])
    BY <1>3 DEF Grown, b
  <2> DEFINE k == size - Len(array) + n
             zeros == [i \in 1..k |-> 0]
             grown == array \o zeros
  <2>2. k \in Nat /\ Len(array) + k >= size /\ 0 \in Words
    BY <1>1, <1>3, VerticalReaderAssumption DEF VerticalReaderAssumption, Words
  <2>3. zeros \in Seq(Words) /\ Len(zeros) = k
    <3> HIDE DEF k
    <3>1. zeros \in [1..k -> Words]
      BY <2>2
    <3> QED
      BY <2>2, <3>1, FunctionIsSeq
  <2> HIDE DEF k, zeros
  <2>4. /\ grown \in Seq(Words) /\ Len(grown) = Len(array) + k
        /\ \A i \in 1..Len(array) : grown[i] = array[i]
    <3>1. /\ grown \in Seq(Words) /\ Len(grown) = Len(array) + Len(zeros)
          /\ \A i \in 1..Len(array) + Len(zeros) :
               grown[i] = IF i <= Len(array) THEN array[i] ELSE zeros[i - Len(array)]
      BY <2>3, ConcatProperties
    <3> HIDE DEF grown
    <3> QED
      BY <1>1, <2>2, <2>3, <3>1
  <2> HIDE DEF grown
  <2>5. a = Append(b, grown)
    BY <2>1 DEF grown, zeros, k
  <2>6. /\ a \in Seq(Seq(Words)) /\ a # <<>> /\ Len(a) = Len(b) + 1
        /\ \A i \in 1..Len(b) : a[i] = b[i]
        /\ a[Len(b) + 1] = grown
    <3> DEFINE S == Seq(Words)
    <3>1. b \in Seq(S) /\ grown \in S
      BY <1>1, <2>4
    <3> HIDE DEF S
    <3>2. /\ a \in Seq(S) /\ a # <<>> /\ Len(a) = Len(b) + 1
          /\ \A i \in 1..Len(b) : a[i] = b[i]
          /\ a[Len(b) + 1] = grown
      BY <2>5, <3>1, AppendProperties
    <3> QED
      BY <3>2 DEF S
  <2>7. Last(a) = grown
    BY <2>6 DEF Last
  <2>8. Len(a) \in Nat /\ Len(a) >= Len(arrays)
    BY <1>1, <2>6
  <2>9. \A i \in 1..Len(arrays) : Len(a[i]) = Len(arrays[i])
    BY <1>1, <2>6
  <2>10. Len(Last(a)) \in Nat /\ Len(Last(a)) >= size /\ Len(Last(a)) >= Len(array)
    BY <1>1, <2>2, <2>4, <2>7
  <2> QED
    BY <2>4, <2>6, <2>7, <2>8, <2>9, <2>10
<1> QED
  BY <1>2, <1>3

-----------------------------------------------------------------------------
(* The invariant. *)

\* The words of f come after place p of the stream st, as far as it goes.
InPlace(st, p, f) == \A j \in 1..Len(f) : p + j \in 1..Len(st) => st[p + j] = f[j]

\* pos says after which place of the stream st every frame of fs ends, from the k-th
\* on; the stream may end before the last one.
Lay(pos, fs, k, st) ==
  /\ pos \in [k..Len(fs) -> Int]
  /\ \A i \in (k + 1)..Len(fs) :
       pos[i] = pos[i - 1] + Len(fs[i]) /\ InPlace(st, pos[i - 1], fs[i])
  /\ \A i \in k..Len(fs) : pos[i] <= pos[Len(fs)]
  /\ Len(st) <= pos[Len(fs)]

\* Before which place of the stream the frame that is read next begins: its header is
\* read before its body.
Begin == IF reader = "body" THEN -HeaderSize ELSE 0

\* The reader is in step: the stream goes on with the frames that were not read, and
\* all of them while the module stays.
InStep(pos) ==
  /\ Lay(pos, sent, frames, stream) /\ pos[frames] = Begin
  /\ ~left => Len(stream) = pos[Len(sent)]

Aligned == \E pos \in [frames..Len(sent) -> Int] : InStep(pos)

\* The header of the frame whose body is awaited is in the buffer.
Buffered ==
  /\ Len(Last(arrays)) >= HeaderSize
  /\ reader = "body" =>
       /\ frames < Len(sent)
       /\ Last(arrays)[1] = sent[frames + 1][1] /\ Last(arrays)[2] = sent[frames + 1][2]

IInv ==
  /\ TypeOK /\ handed \in Seq(Range(handed))
  /\ Aligned /\ Buffered /\ HandedAsSent

-----------------------------------------------------------------------------
(* Where the frames are. *)

\* The words of st2 are words of st, n places further ahead.
Ahead(st2, st, n) ==
  \A i \in 1..Len(st2) : i + n \in 1..Len(st) /\ st2[i] = st[i + n]

\* A stream whose words are n places further ahead than they were has the frames from
\* the j-th on, n places further ahead; it may end earlier.
LEMMA LayShift ==
  ASSUME NEW fs \in Seq(Frames), NEW st \in Seq(Words), NEW st2 \in Seq(Words),
         NEW k \in 0..Len(fs), NEW j \in k..Len(fs), NEW n \in Int,
         NEW pos, Lay(pos, fs, k, st),
         Len(st2) <= pos[Len(fs)] - n,
         Ahead(st2, st, n),
         NEW pos2 \in [j..Len(fs) -> Int], \A i \in j..Len(fs) : pos2[i] = pos[i] - n
  PROVE  Lay(pos2, fs, j, st2)
<1>1. /\ pos \in [k..Len(fs) -> Int] /\ Len(fs) \in Nat /\ Len(st) \in Nat /\ Len(st2) \in Nat
      /\ \A i \in k..Len(fs) : pos[i] <= pos[Len(fs)]
  BY LenProperties DEF Lay
<1>2. ASSUME NEW i \in (k + 1)..Len(fs)
      PROVE  /\ pos[i] = pos[i - 1] + Len(fs[i])
             /\ InPlace(st, pos[i - 1], fs[i])
             /\ Len(fs[i]) \in Nat
             /\ i - 1 \in k..Len(fs) /\ i \in k..Len(fs)
  <2>1. fs[i] \in Seq(Words)
    BY <1>1, ElementOfSeq, FrameFacts
  <2> QED
    BY <1>1, <2>1, LenProperties DEF Lay
<1>3. pos2 \in [j..Len(fs) -> Int] /\ \A i \in j..Len(fs) : pos2[i] = pos[i] - n
  BY <1>1
<1>4. ASSUME NEW i \in (j + 1)..Len(fs)
      PROVE  pos2[i] = pos2[i - 1] + Len(fs[i]) /\ InPlace(st2, pos2[i - 1], fs[i])
  <2>1. i \in (k + 1)..Len(fs) /\ i - 1 \in j..Len(fs) /\ i \in j..Len(fs)
    BY <1>1
  <2>2. pos2[i] = pos[i] - n /\ pos2[i - 1] = pos[i - 1] - n /\ pos[i] \in Int /\ pos[i - 1] \in Int
    BY <1>1, <1>2, <1>3, <2>1
  <2>3. pos2[i] = pos2[i - 1] + Len(fs[i])
    <3>1. PICK l \in Nat : l = Len(fs[i])
      BY <1>2, <2>1
    <3>2. pos[i] = pos[i - 1] + l
      BY <1>2, <2>1, <3>1
    <3>3. pos2[i] = pos2[i - 1] + l
      BY <2>2, <3>2
    <3> QED
      BY <3>1, <3>3
  <2>4. ASSUME NEW q \in 1..Len(fs[i]), pos2[i - 1] + q \in 1..Len(st2)
        PROVE  st2[pos2[i - 1] + q] = fs[i][q]
    <3>1. q \in Int
      BY <1>2, <2>1
    <3>2. (pos2[i - 1] + q) + n = pos[i - 1] + q
      BY SMTT(30), <2>2, <3>1
    <3>3. pos[i - 1] + q \in 1..Len(st) /\ st2[pos2[i - 1] + q] = st[pos[i - 1] + q]
      BY <2>4, <3>2 DEF Ahead
    <3> QED
      BY <1>2, <2>1, <3>3 DEF InPlace
  <2> QED
    BY <2>3, <2>4 DEF InPlace
<1>5. \A i \in j..Len(fs) : pos2[i] <= pos2[Len(fs)]
  <2>1. TAKE i \in j..Len(fs)
  <2>2. i \in k..Len(fs) /\ Len(fs) \in k..Len(fs) /\ Len(fs) \in j..Len(fs)
    BY <1>1
  <2>3. pos[i] \in Int /\ pos[Len(fs)] \in Int /\ pos[i] <= pos[Len(fs)]
    BY <1>1, <2>2
  <2>4. pos2[i] = pos[i] - n /\ pos2[Len(fs)] = pos[Len(fs)] - n
    BY <2>2
  <2> QED
    BY <2>3, <2>4
<1>6. Len(st2) <= pos2[Len(fs)]
  <2>1. Len(fs) \in j..Len(fs)
    BY <1>1
  <2> QED
    BY <1>3, <2>1
<1> QED
  BY <1>3, <1>4, <1>5, <1>6 DEF Lay

\* The words of a frame that ends before place e are before it.
LEMMA WithinFrame ==
  ASSUME NEW b \in Int, NEW e \in Nat, NEW l \in Nat, NEW q \in Int,
         q <= l, b + q >= 1, b + l <= e
  PROVE  b + q \in 1..e
OBVIOUS

\* A frame that is sent comes after all that is in the stream.
LEMMA LayAppend ==
  ASSUME NEW fs \in Seq(Frames), NEW st \in Seq(Words), NEW k \in 0..Len(fs), NEW f \in Frames,
         NEW pos, Lay(pos, fs, k, st), Len(st) = pos[Len(fs)],
         NEW pos2 \in [k..(Len(fs) + 1) -> Int], \A i \in k..Len(fs) : pos2[i] = pos[i],
         pos2[Len(fs) + 1] = pos[Len(fs)] + Len(f)
  PROVE  Lay(pos2, Append(fs, f), k, st \o f)
<1> DEFINE m == Len(fs)
           gs == Append(fs, f)
           su == st \o f
<1>1. /\ pos \in [k..m -> Int] /\ m \in Nat /\ Len(st) \in Nat
      /\ \A i \in k..m : pos[i] <= pos[m]
  BY LenProperties DEF Lay
<1>2. f \in Seq(Words) /\ Len(f) \in Nat
  BY FrameFacts, LenProperties
<1>3. /\ gs \in Seq(Frames) /\ Len(gs) = m + 1 /\ gs[m + 1] = f
      /\ \A i \in 1..m : gs[i] = fs[i]
  BY AppendProperties
<1>4. /\ su \in Seq(Words) /\ Len(su) = Len(st) + Len(f)
      /\ \A i \in 1..(Len(st) + Len(f)) : su[i] = IF i <= Len(st) THEN st[i] ELSE f[i - Len(st)]
  BY <1>2, ConcatProperties
<1>5. /\ \A i \in k..m : pos2[i] = pos[i]
      /\ pos2[m + 1] = Len(st) + Len(f)
      /\ pos2 \in [k..(m + 1) -> Int]
  BY <1>1, <1>2
<1>6. \A i \in (k + 1)..m : pos[i] = pos[i - 1] + Len(fs[i]) /\ InPlace(st, pos[i - 1], fs[i])
  BY DEF Lay
<1> HIDE DEF gs, su, m
<1>7. ASSUME NEW i \in (k + 1)..(m + 1)
      PROVE  pos2[i] = pos2[i - 1] + Len(gs[i]) /\ InPlace(su, pos2[i - 1], gs[i])
  <2>1. CASE i = m + 1
    <3>1. i - 1 \in k..m /\ pos2[i - 1] = Len(st) /\ gs[i] = f
      BY <1>1, <1>3, <1>5, <2>1 DEF m
    <3>2. pos2[i] = pos2[i - 1] + Len(gs[i])
      BY <1>5, <2>1, <3>1
    <3>3. ASSUME NEW q \in 1..Len(f)
          PROVE  su[Len(st) + q] = f[q]
      <4>1. Len(st) + q \in 1..(Len(st) + Len(f)) /\ ~(Len(st) + q <= Len(st)) /\ (Len(st) + q) - Len(st) = q
        BY SMTT(30), <1>1, <1>2
      <4> QED
        BY <1>4, <4>1
    <3> QED
      BY <3>1, <3>2, <3>3 DEF InPlace
  <2>2. CASE i # m + 1
    <3>1. /\ i \in (k + 1)..m /\ i \in 1..m /\ i \in k..m /\ i - 1 \in k..m
          /\ i - 1 + 1 = i
      BY <1>1, <2>2
    <3>2. pos2[i] = pos[i] /\ pos2[i - 1] = pos[i - 1] /\ gs[i] = fs[i] /\ pos[i] \in Int /\ pos[i - 1] \in Int
      BY <1>1, <1>3, <1>5, <3>1
    <3>3. pos[i] <= Len(st) /\ pos[i] = pos[i - 1] + Len(fs[i]) /\ InPlace(st, pos[i - 1], fs[i])
      BY <1>1, <1>6, <3>1 DEF m
    <3>4. Len(fs[i]) \in Nat
      <4>1. fs[i] \in Frames
        BY <3>1, ElementOfSeq DEF m
      <4> QED
        BY <4>1, FrameFacts, LenProperties
    <3>5. ASSUME NEW q \in 1..Len(fs[i]), pos[i - 1] + q \in 1..Len(su)
          PROVE  su[pos[i - 1] + q] = fs[i][q]
      <4>1. pos[i - 1] + q \in 1..Len(st)
        <5>1. PICK l \in Nat : l = Len(fs[i])
          BY <3>4
        <5>2. pos[i - 1] + q >= 1 /\ q \in Int /\ q <= l
          BY <1>1, <1>2, <1>4, <3>2, <3>5, <5>1
        <5>3. pos[i - 1] + l <= Len(st)
          BY <3>3, <5>1
        <5>4. PICK b \in Int, e \in Nat : b = pos[i - 1] /\ e = Len(st)
          BY <1>1, <3>2
        <5>5. b + q >= 1 /\ b + l <= e
          BY <5>2, <5>3, <5>4
        <5>6. b + q \in 1..e
          BY <5>2, <5>5, WithinFrame, Zenon
        <5> QED
          BY <5>4, <5>6
      <4>2. su[pos[i - 1] + q] = st[pos[i - 1] + q]
        <5>1. pos[i - 1] + q \in 1..(Len(st) + Len(f)) /\ pos[i - 1] + q <= Len(st)
          BY SMTT(30), <1>1, <1>2, <4>1
        <5> QED
          BY <1>4, <5>1
      <4> QED
        BY <3>3, <4>1, <4>2 DEF InPlace
    <3> QED
      BY <3>2, <3>3, <3>5 DEF InPlace
  <2> QED
    BY <2>1, <2>2
<1>8. \A i \in k..(m + 1) : pos2[i] <= pos2[m + 1]
  <2>1. TAKE i \in k..(m + 1)
  <2>2. CASE i = m + 1
    BY <1>1, <1>2, <1>5, <2>2
  <2>3. CASE i # m + 1
    <3>1. i \in k..m
      BY <1>1, <2>3
    <3>2. pos2[i] <= pos[m] /\ pos[m] = Len(st)
      BY <1>1, <1>5, <3>1 DEF m
    <3> QED
      BY <1>1, <1>2, <1>5, <3>1, <3>2
  <2> QED
    BY <2>2, <2>3
<1>9. Len(su) <= pos2[m + 1]
  BY <1>1, <1>2, <1>4, <1>5
<1>10. Lay(pos2, gs, k, su)
  BY <1>3, <1>5, <1>7, <1>8, <1>9 DEF Lay
<1> QED
  BY <1>10 DEF gs, su, m

-----------------------------------------------------------------------------
(* What a step leaves of the invariant. *)

\* The messages that were handed on before are still what was sent.
LEMMA HandedKept ==
  ASSUME HandedAsSent, handed' = handed, frames' = frames,
         \A i \in 1..frames : sent'[i] = sent[i],
         \A h \in Range(handed) : h.frame \in 1..frames
  PROVE  HandedAsSent'
<1>1. \A i, j \in 1..Len(handed) : i < j => handed[i].frame < handed[j].frame
  BY DEF HandedAsSent
<1>2. {h.frame : h \in Range(handed)} = {i \in 1..frames : Accepted(sent'[i])}
  <2>1. {i \in 1..frames : Accepted(sent'[i])} = {i \in 1..frames : Accepted(sent[i])}
    OBVIOUS
  <2> QED
    BY <2>1 DEF HandedAsSent
<1>3. ASSUME NEW h \in Range(handed)
      PROVE  LET f == sent'[h.frame]
             IN  h.type = f[2] /\ h.msg = Unmarshal(f) /\ h.payload = Payload(f)
  <2>1. sent'[h.frame] = sent[h.frame]
    OBVIOUS
  <2> QED
    BY <2>1 DEF HandedAsSent
<1> QED
  BY <1>1, <1>2, <1>3 DEF HandedAsSent

\* Where the payloads of the messages are that were handed on.
Kept(h) ==
  /\ h.array \in 1..Len(arrays)
  /\ h.size \in EmptySize..Len(arrays[h.array])
  /\ h.frame \in 1..frames

\* They stay there as long as no array gets shorter.
LEMMA KeptKept ==
  ASSUME NEW h, Kept(h), Len(arrays) \in Nat, Len(arrays') \in Nat, Len(arrays') >= Len(arrays),
         \A i \in 1..Len(arrays) : Len(arrays'[i]) = Len(arrays[i]),
         frames \in Nat, frames' \in {frames, frames + 1}
  PROVE  Kept(h)'
<1>1. h.array \in 1..Len(arrays') /\ Len(arrays'[h.array]) = Len(arrays[h.array])
  BY DEF Kept
<1>2. h.frame \in 1..frames'
  BY DEF Kept
<1> QED
  BY <1>1, <1>2 DEF Kept

LEMMA InvInit == Init => IInv
<1> SUFFICES ASSUME Init
             PROVE  IInv
  OBVIOUS
<1>1. sent = <<>> /\ left = FALSE /\ stream = <<>> /\ reader = "header" /\ frames = 0 /\ handed = <<>>
  BY DEF Init
<1>2. sent \in Seq(Frames) /\ stream \in Seq(Words) /\ Len(sent) = 0 /\ Len(stream) = 0
  BY <1>1, EmptySeq
<1> DEFINE array == [i \in 1..HeaderSize |-> 0]
<1>3. array \in Seq(Words) /\ Len(array) = HeaderSize
  <2>1. array \in [1..2 -> Words]
    BY VerticalReaderAssumption DEF VerticalReaderAssumption, Words
  <2> QED
    BY <2>1, FunctionIsSeq
<1>4. /\ arrays \in Seq(Seq(Words)) /\ arrays # <<>> /\ Len(Last(arrays)) = HeaderSize
  <2>1. arrays = <<array>>
    BY DEF Init
  <2> HIDE DEF array
  <2> QED
    BY <1>3, <2>1 DEF Last
<1>5. Range(handed) = {} /\ handed \in Seq(Range(handed)) /\ Len(handed) = 0
  <2>1. handed \in Seq({}) /\ Len(handed) = 0
    BY <1>1, EmptySeq
  <2>2. Range(handed) \in SUBSET {}
    BY <2>1, RangeOfSeq, Zenon
  <2> QED
    BY <2>1, <2>2
<1>6. TypeOK
  <2>1. Len(sent) <= MaxFrames /\ frames \in 0..Len(sent)
    BY <1>1, <1>2, VerticalReaderAssumption DEF VerticalReaderAssumption
  <2>2. ~(reader = "body") /\ reader \in {"header", "body", "ended", "panicked"} /\ left \in BOOLEAN
    BY <1>1
  <2> QED
    BY <1>2, <1>4, <1>5, <2>1, <2>2, Zenon DEF TypeOK
<1>7. Aligned
  <2> DEFINE pos == [i \in 0..0 |-> 0]
  <2>1. pos \in [0..0 -> Int] /\ pos[0] = 0
    OBVIOUS
  <2> HIDE DEF pos
  <2>2. Lay(pos, sent, frames, stream)
    BY <1>1, <1>2, <2>1 DEF Lay
  <2> QED
    BY <1>1, <1>2, <2>1, <2>2 DEF Aligned, InStep, Begin
<1>8. Buffered
  BY <1>1, <1>4 DEF Buffered
<1>9. HandedAsSent
  <2>1. {h.frame : h \in Range(handed)} = {} /\ {i \in 1..frames : Accepted(sent[i])} = {}
    BY <1>1, <1>5
  <2> QED
    BY <1>5, <2>1 DEF HandedAsSent
<1> QED
  BY <1>5, <1>6, <1>7, <1>8, <1>9 DEF IInv

LEMMA SendStep ==
  ASSUME IInv, NEW f \in Frames, Send(f)
  PROVE  IInv'
<1>1. /\ ~left /\ Len(sent) < MaxFrames /\ sent' = Append(sent, f) /\ stream' = stream \o f
      /\ UNCHANGED <<left, reader, arrays, frames, handed>>
  BY DEF Send
<1>2. /\ sent \in Seq(Frames) /\ stream \in Seq(Words) /\ frames \in 0..Len(sent)
      /\ Len(sent) \in Nat /\ Len(stream) \in Nat
  BY LenProperties DEF IInv, TypeOK
<1>3. /\ sent' \in Seq(Frames) /\ Len(sent') = Len(sent) + 1 /\ sent'[Len(sent) + 1] = f
      /\ \A i \in 1..Len(sent) : sent'[i] = sent[i]
  BY <1>1, <1>2, AppendProperties
<1>4. stream' \in Seq(Words)
  BY <1>1, <1>2, FrameFacts, ConcatProperties
<1>5. TypeOK'
  <2>1. Len(sent') <= MaxFrames
    BY <1>1, <1>2, <1>3, VerticalReaderAssumption DEF VerticalReaderAssumption
  <2>2. frames \in 0..Len(sent')
    BY <1>2, <1>3
  <2> QED
    BY <1>1, <1>3, <1>4, <2>1, <2>2 DEF IInv, TypeOK
<1>6. Aligned'
  <2>1. PICK pos \in [frames..Len(sent) -> Int] : InStep(pos)
    BY DEF IInv, Aligned
  <2>2. Lay(pos, sent, frames, stream) /\ pos[frames] = Begin /\ Len(stream) = pos[Len(sent)]
    BY <1>1, <2>1 DEF InStep
  <2>3. Len(f) \in Nat /\ pos[Len(sent)] \in Int
    BY <1>2, <2>2, FrameFacts, LenProperties
  <2>4. PICK pos2 : pos2 = [i \in frames..(Len(sent) + 1) |->
                              IF i <= Len(sent) THEN pos[i] ELSE pos[Len(sent)] + Len(f)]
    OBVIOUS
  <2>5. /\ pos2 \in [frames..(Len(sent) + 1) -> Int]
        /\ \A i \in frames..Len(sent) : pos2[i] = pos[i]
        /\ pos2[Len(sent) + 1] = pos[Len(sent)] + Len(f)
    BY <1>2, <2>3, <2>4
  <2>6. /\ Lay(pos2, Append(sent, f), frames, stream \o f)
        /\ Len(stream \o f) = pos2[Len(sent) + 1]
    <3>1. sent \in Seq(Frames) /\ stream \in Seq(Words) /\ frames \in 0..Len(sent)
      BY <1>2
    <3>2. Lay(pos, sent, frames, stream) /\ Len(stream) = pos[Len(sent)]
      BY <2>2
    <3>3. Lay(pos2, Append(sent, f), frames, stream \o f)
      BY <2>5, <3>1, <3>2, LayAppend
    <3>4. Len(stream \o f) = pos2[Len(sent) + 1]
      <4>1. Len(stream \o f) = Len(stream) + Len(f)
        BY <1>2, FrameFacts, ConcatProperties
      <4> QED
        BY <2>5, <3>2, <4>1
    <3> QED
      BY <3>3, <3>4
  <2>7. pos2[frames] = Begin
    BY <1>2, <2>2, <2>5
  <2> QED
    BY <1>1, <1>3, <2>5, <2>6, <2>7 DEF Aligned, InStep, Begin
<1>7. Buffered'
  <2>1. reader = "body" => frames + 1 \in 1..Len(sent)
    BY <1>2 DEF IInv, Buffered
  <2> QED
    BY <1>1, <1>2, <1>3, <2>1 DEF IInv, Buffered
<1>8. HandedAsSent'
  <2>1. \A i \in 1..frames : sent'[i] = sent[i]
    BY <1>2, <1>3
  <2>2. \A h \in Range(handed) : h.frame \in 1..frames
    BY DEF IInv, TypeOK
  <2> QED
    BY <1>1, <2>1, <2>2, HandedKept DEF IInv
<1> QED
  BY <1>1, <1>5, <1>6, <1>7, <1>8 DEF IInv

\* What is left of a stream after its first k words.
LEMMA RestIsAhead ==
  ASSUME NEW st \in Seq(Words), NEW k \in 0..Len(st), NEW st2, st2 = SubSeq(st, k + 1, Len(st))
  PROVE  st2 \in Seq(Words) /\ Len(st2) = Len(st) - k /\ Ahead(st2, st, k)
<1>1. /\ st2 \in Seq(Words) /\ Len(st2) = Len(st) - k
      /\ \A i \in 1..(Len(st) - k) : st2[i] = st[k + i]
  BY RestOfSeq
<1>2. ASSUME NEW i \in 1..Len(st2)
      PROVE  i + k \in 1..Len(st) /\ st2[i] = st[i + k]
  <2>1. Len(st) \in Nat /\ k \in Nat
    BY LenProperties
  <2>2. i \in 1..(Len(st) - k) /\ i + k = k + i /\ i + k \in 1..Len(st)
    BY <1>1, <2>1
  <2> QED
    BY <1>1, <2>2
<1> QED
  BY <1>1, <1>2 DEF Ahead

\* When the stream moves on by n words, the frames do.
LEMMA MovesOn ==
  ASSUME TypeOK, NEW pos, Lay(pos, sent, frames, stream),
         NEW j \in frames..Len(sent), NEW n \in Int, NEW st2 \in Seq(Words),
         Len(st2) <= pos[Len(sent)] - n, Ahead(st2, stream, n)
  PROVE  \E pos2 \in [j..Len(sent) -> Int] :
           Lay(pos2, sent, j, st2) /\ \A i \in j..Len(sent) : pos2[i] = pos[i] - n
<1>1. /\ sent \in Seq(Frames) /\ stream \in Seq(Words) /\ frames \in 0..Len(sent)
      /\ Len(sent) \in Nat
  BY LenProperties DEF TypeOK
<1>2. pos \in [frames..Len(sent) -> Int]
  BY DEF Lay
<1>3. PICK pos2 : pos2 = [i \in j..Len(sent) |-> pos[i] - n]
  OBVIOUS
<1>4. pos2 \in [j..Len(sent) -> Int] /\ \A i \in j..Len(sent) : pos2[i] = pos[i] - n
  <2>1. \A i \in j..Len(sent) : pos[i] \in Int
    BY SMTT(30), <1>1, <1>2
  <2> QED
    BY <1>3, <2>1
<1>5. Lay(pos2, sent, j, st2)
  BY <1>1, <1>4, LayShift
<1> QED
  BY <1>4, <1>5

LEMMA LeaveStep ==
  ASSUME IInv, NEW n \in 0..Len(stream), Leave(n)
  PROVE  IInv'
<1>1. /\ left' = TRUE /\ stream' = SubSeq(stream, 1, Len(stream) - n)
      /\ UNCHANGED <<sent, reader, arrays, frames, handed>>
  BY DEF Leave
<1>2. /\ sent \in Seq(Frames) /\ stream \in Seq(Words) /\ frames \in 0..Len(sent)
      /\ Len(sent) \in Nat /\ Len(stream) \in Nat
  BY LenProperties DEF IInv, TypeOK
<1>3. /\ stream' \in Seq(Words) /\ Len(stream') = Len(stream) - n
      /\ \A i \in 1..(Len(stream) - n) : stream'[i] = stream[i]
  <2>1. Len(stream) - n \in 0..Len(stream)
    BY <1>2
  <2> QED
    BY <1>1, <1>2, <2>1, FrontOfSeq
<1>4. TypeOK'
  BY <1>1, <1>3 DEF IInv, TypeOK
<1>5. Aligned'
  <2>1. PICK pos \in [frames..Len(sent) -> Int] : InStep(pos)
    BY DEF IInv, Aligned
  <2>2. Lay(pos, sent, frames, stream) /\ pos[frames] = Begin
    BY <2>1 DEF InStep
  <2>3. Ahead(stream', stream, 0)
    BY <1>2, <1>3 DEF Ahead
  <2>4. Len(stream') <= pos[Len(sent)] - 0
    <3>1. Len(stream) <= pos[Len(sent)] /\ pos[Len(sent)] \in Int
      BY <1>2, <2>2 DEF Lay
    <3> QED
      BY <1>2, <1>3, <3>1
  <2>5. PICK pos2 \in [frames..Len(sent) -> Int] :
          Lay(pos2, sent, frames, stream') /\ \A i \in frames..Len(sent) : pos2[i] = pos[i] - 0
    <3>1. TypeOK /\ frames \in frames..Len(sent) /\ 0 \in Int /\ stream' \in Seq(Words)
      BY <1>2, <1>3 DEF IInv
    <3> QED
      BY <2>2, <2>3, <2>4, <3>1, MovesOn, Zenon
  <2>6. pos2[frames] = Begin
    BY <1>2, <2>2, <2>5
  <2> QED
    BY <1>1, <2>5, <2>6 DEF Aligned, InStep, Begin
<1>6. Buffered'
  BY <1>1 DEF IInv, Buffered
<1>7. HandedAsSent'
  BY <1>1, HandedKept DEF IInv, TypeOK
<1> QED
  BY <1>1, <1>4, <1>5, <1>6, <1>7 DEF IInv

\* The words of the frame that is read next.
LEMMA NextFrame ==
  ASSUME IInv, NEW pos \in [frames..Len(sent) -> Int], InStep(pos), frames < Len(sent)
  PROVE  LET f == sent[frames + 1]
         IN  /\ f \in Frames /\ Len(f) \in Nat /\ Len(f) >= HeaderSize
             /\ f[1] >= HeaderSize => Len(f) = f[1]
             /\ pos[frames + 1] = Begin + Len(f)
             /\ \A j \in 1..Len(f) : Begin + j \in 1..Len(stream) => stream[Begin + j] = f[j]
<1>1. /\ sent \in Seq(Frames) /\ frames \in 0..Len(sent) /\ Len(sent) \in Nat
  BY LenProperties DEF IInv, TypeOK
<1>2. frames + 1 \in 1..Len(sent) /\ frames + 1 \in (frames + 1)..Len(sent) /\ (frames + 1) - 1 = frames
  BY <1>1
<1>3. PICK f : f = sent[frames + 1]
  OBVIOUS
<1>4. f \in Frames
  BY <1>1, <1>2, <1>3, ElementOfSeq
<1>5. Len(f) \in Nat /\ Len(f) >= HeaderSize /\ (f[1] >= HeaderSize => Len(f) = f[1])
  BY <1>4, FrameFacts, LenProperties
<1>6. pos[frames + 1] = pos[frames] + Len(f) /\ InPlace(stream, pos[frames], f) /\ pos[frames] = Begin
  BY <1>2, <1>3 DEF InStep, Lay
<1> QED
  BY <1>3, <1>4, <1>5, <1>6 DEF InPlace

LEMMA ReadHeaderStep ==
  ASSUME IInv, ReadHeader
  PROVE  IInv'
<1>1. /\ reader = "header" /\ Len(stream) >= HeaderSize /\ stream[1] >= HeaderSize
      /\ arrays' \in Grown(Filled(1, SubSeq(stream, 1, HeaderSize)), stream[1])
      /\ stream' = SubSeq(stream, HeaderSize + 1, Len(stream))
      /\ reader' = "body"
      /\ UNCHANGED <<sent, left, frames, handed>>
  BY DEF ReadHeader
<1>2. /\ sent \in Seq(Frames) /\ stream \in Seq(Words) /\ frames \in 0..Len(sent)
      /\ Len(sent) \in Nat /\ Len(stream) \in Nat
      /\ arrays \in Seq(Seq(Words)) /\ arrays # <<>> /\ Len(arrays) \in Nat
  BY LenProperties DEF IInv, TypeOK
<1>3. PICK pos \in [frames..Len(sent) -> Int] : InStep(pos)
  BY DEF IInv, Aligned
<1>4. /\ Lay(pos, sent, frames, stream) /\ pos[frames] = 0 /\ Begin = 0
      /\ Len(stream) <= pos[Len(sent)] /\ pos[Len(sent)] \in Int
      /\ ~left => Len(stream) = pos[Len(sent)]
  <2>1. Begin = 0 /\ Len(sent) \in frames..Len(sent)
    BY <1>1, <1>2 DEF Begin
  <2>2. pos[Len(sent)] \in Int
    BY <2>1
  <2> QED
    BY <1>3, <2>1, <2>2 DEF InStep, Lay
\* There is a frame the words of the stream are of, and its header is read.
<1>5. frames < Len(sent)
  <2>1. CASE frames = Len(sent)
    BY <1>1, <1>2, <1>4, <2>1
  <2> QED
    BY <1>2, <2>1
<1>6. PICK f : f = sent[frames + 1]
  OBVIOUS
<1>7. /\ Len(f) \in Nat /\ Len(f) >= HeaderSize
      /\ \A j \in 1..Len(f) : 0 + j \in 1..Len(stream) => stream[0 + j] = f[j]
  BY <1>3, <1>4, <1>5, <1>6, NextFrame
<1>8. stream[1] = f[1] /\ stream[2] = f[2]
  <2>1. 1 \in 1..Len(f) /\ 2 \in 1..Len(f) /\ 0 + 1 = 1 /\ 0 + 2 = 2
    BY <1>7
  <2>2. 1 \in 1..Len(stream) /\ 2 \in 1..Len(stream)
    BY <1>1, <1>2
  <2> QED
    BY <1>7, <2>1, <2>2
<1>9. stream[1] \in Words /\ stream[1] \in Nat
  <2>1. 1 \in 1..Len(stream)
    BY <1>1, <1>2
  <2>2. stream[1] \in Words
    BY <1>2, <2>1, ElementOfSeq
  <2> QED
    BY <2>2 DEF Words
\* It comes into the buffer, which has room for the frame.
<1>10. PICK hdr : hdr = SubSeq(stream, 1, HeaderSize)
  OBVIOUS
<1>11. hdr \in Seq(Words) /\ Len(hdr) = 2 /\ hdr[1] = stream[1] /\ hdr[2] = stream[2]
  <2>1. 2 \in 0..Len(stream)
    BY <1>1, <1>2
  <2> QED
    BY <1>2, <1>10, <2>1, FrontOfSeq
<1>12. PICK array : array = Filled(1, hdr)
  OBVIOUS
<1>13. /\ array \in Seq(Words) /\ Len(array) = Len(Last(arrays)) /\ Len(array) \in Nat /\ Len(array) >= 2
       /\ array[1] = stream[1] /\ array[2] = stream[2]
  <2>1. /\ array \in Seq(Words) /\ Len(array) = Len(Last(arrays))
        /\ \A j \in 1..Len(Last(arrays)) :
             array[j] = IF j \in 1..(1 + Len(hdr) - 1) THEN hdr[j - 1 + 1] ELSE Last(arrays)[j]
    <3>1. 1 \in Nat \ {0}
      OBVIOUS
    <3> QED
      BY <1>2, <1>11, <1>12, <3>1, FilledFacts, Zenon
  <2>2. Len(array) \in Nat /\ Len(array) >= 2
    BY <2>1, LenProperties DEF IInv, Buffered
  <2>3. array[1] = hdr[1] /\ array[2] = hdr[2]
    BY <1>11, <2>1, <2>2
  <2> QED
    BY <1>11, <2>1, <2>2, <2>3
<1>14. PICK a : a = arrays'
  OBVIOUS
<1>15. /\ a \in Seq(Seq(Words)) /\ a # <<>>
       /\ Len(a) \in Nat /\ Len(a) >= Len(arrays)
       /\ \A i \in 1..Len(arrays) : Len(a[i]) = Len(arrays[i])
       /\ Len(Last(a)) \in Nat /\ Len(Last(a)) >= stream[1] /\ Len(Last(a)) >= Len(array)
       /\ \A i \in 1..Len(array) : Last(a)[i] = array[i]
  <2>1. a \in Grown(array, stream[1])
    BY <1>1, <1>10, <1>12, <1>14
  <2> QED
    BY <1>2, <1>9, <1>13, <2>1, GrownFacts
<1>16. Last(a)[1] = f[1] /\ Last(a)[2] = f[2] /\ Last(a)[1] \in HeaderSize..Len(Last(a))
  <2>1. 1 \in 1..Len(array) /\ 2 \in 1..Len(array)
    BY <1>13
  <2>2. Last(a)[1] = stream[1] /\ Last(a)[2] = stream[2]
    BY <1>13, <1>15, <2>1
  <2> QED
    BY <1>1, <1>8, <1>9, <1>15, <2>2
<1>17. /\ stream' \in Seq(Words) /\ Len(stream') = Len(stream) - 2 /\ Ahead(stream', stream, 2)
  <2>1. 2 \in 0..Len(stream) /\ stream' = SubSeq(stream, 2 + 1, Len(stream))
    BY <1>1, <1>2
  <2> QED
    BY <1>2, <2>1, RestIsAhead
<1>18. TypeOK'
  <2>1. ASSUME NEW h \in Range(handed)
        PROVE  Kept(h)'
    <3>1. Kept(h)
      BY DEF IInv, TypeOK, Kept
    <3> QED
      BY <1>1, <1>2, <1>14, <1>15, <3>1, KeptKept
  <2> QED
    BY <1>1, <1>14, <1>15, <1>16, <1>17, <2>1 DEF IInv, TypeOK, Kept
<1>19. Aligned'
  <2>1. Len(stream') <= pos[Len(sent)] - 2 /\ (~left => Len(stream') = pos[Len(sent)] - 2)
    BY <1>2, <1>4, <1>17
  <2>2. PICK pos2 \in [frames..Len(sent) -> Int] :
          Lay(pos2, sent, frames, stream') /\ \A i \in frames..Len(sent) : pos2[i] = pos[i] - 2
    <3>1. TypeOK /\ frames \in frames..Len(sent) /\ 2 \in Int /\ stream' \in Seq(Words)
      BY <1>2, <1>17 DEF IInv
    <3> QED
      BY <1>4, <1>17, <2>1, <3>1, MovesOn, Zenon
  <2>3. pos2[frames] = -2 /\ pos2[Len(sent)] = pos[Len(sent)] - 2
    <3>1. frames \in frames..Len(sent) /\ Len(sent) \in frames..Len(sent)
      BY <1>2
    <3> QED
      BY <1>4, <2>2, <3>1
  <2> QED
    BY <1>1, <2>1, <2>2, <2>3 DEF Aligned, InStep, Begin
<1>20. Buffered'
  BY <1>1, <1>5, <1>6, <1>13, <1>14, <1>15, <1>16 DEF Buffered
<1>21. HandedAsSent'
  BY <1>1, HandedKept DEF IInv, TypeOK
<1> QED
  BY <1>1, <1>18, <1>19, <1>20, <1>21 DEF IInv

LEMMA EndStep ==
  ASSUME IInv, ReadHeaderPanics \/ ReadEnds
  PROVE  IInv'
<1>1. /\ reader = "header" /\ reader' \in {"panicked", "ended"}
      /\ UNCHANGED <<sent, left, stream, arrays, frames, handed>>
  BY DEF ReadHeaderPanics, ReadEnds
<1>2. TypeOK'
  BY <1>1 DEF IInv, TypeOK
<1>3. Aligned'
  <2>1. PICK pos \in [frames..Len(sent) -> Int] : InStep(pos)
    BY DEF IInv, Aligned
  <2>2. Begin = 0 /\ Begin' = 0
    BY <1>1 DEF Begin
  <2> QED
    BY <1>1, <2>1, <2>2 DEF Aligned, InStep
<1>4. Buffered'
  BY <1>1 DEF IInv, Buffered
<1>5. HandedAsSent'
  BY <1>1, HandedKept DEF IInv, TypeOK
<1> QED
  BY <1>1, <1>2, <1>3, <1>4, <1>5 DEF IInv

LEMMA ReadTruncatedStep ==
  ASSUME IInv, ReadTruncated
  PROVE  IInv'
<1>1. PICK i \in {1, 3} :
        /\ left /\ arrays' = Behind(Filled(i, stream))
        /\ stream' = <<>> /\ reader' = "header"
        /\ UNCHANGED <<sent, left, frames, handed>>
  BY DEF ReadTruncated
<1>2. /\ sent \in Seq(Frames) /\ stream \in Seq(Words) /\ frames \in 0..Len(sent)
      /\ Len(sent) \in Nat /\ Len(stream) \in Nat
      /\ arrays \in Seq(Seq(Words)) /\ arrays # <<>> /\ Len(arrays) \in Nat
  BY LenProperties DEF IInv, TypeOK
<1>3. PICK array : array = Filled(i, stream)
  OBVIOUS
<1>4. array \in Seq(Words) /\ Len(array) = Len(Last(arrays))
  <2>1. i \in Nat \ {0}
    OBVIOUS
  <2> QED
    BY <1>2, <1>3, <2>1, FilledFacts, Zenon
<1>5. PICK a : a = arrays'
  OBVIOUS
<1>6. /\ a \in Seq(Seq(Words)) /\ a # <<>> /\ Len(a) = Len(arrays)
      /\ Last(a) = array
      /\ \A k \in 1..Len(arrays) : Len(a[k]) = Len(arrays[k])
  BY <1>1, <1>2, <1>3, <1>4, <1>5, BehindFacts
<1>7. stream' \in Seq(Words) /\ Len(stream') = 0
  BY <1>1, EmptySeq
<1>8. TypeOK'
  <2>1. ASSUME NEW h \in Range(handed)
        PROVE  Kept(h)'
    <3>1. Kept(h)
      BY DEF IInv, TypeOK, Kept
    <3> QED
      BY <1>1, <1>2, <1>5, <1>6, <3>1, KeptKept
  <2> QED
    BY <1>1, <1>5, <1>6, <1>7, <2>1 DEF IInv, TypeOK, Kept
<1>9. Aligned'
  <2>1. PICK pos \in [frames..Len(sent) -> Int] : InStep(pos)
    BY DEF IInv, Aligned
  <2>2. PICK b \in {-2, 0} : b = Begin
    BY DEF Begin
  <2>3. Lay(pos, sent, frames, stream) /\ pos[frames] = b /\ Len(stream) <= pos[Len(sent)]
    BY <2>1, <2>2 DEF InStep, Lay
  <2>4. Len(stream') <= pos[Len(sent)] - b
    <3>1. Len(sent) \in frames..Len(sent)
      BY <1>2
    <3>2. pos[Len(sent)] \in Int
      BY <3>1
    <3> QED
      BY <1>2, <1>7, <2>3, <3>2
  <2>5. Ahead(stream', stream, b)
    BY <1>7 DEF Ahead
  <2>6. PICK pos2 \in [frames..Len(sent) -> Int] :
          Lay(pos2, sent, frames, stream') /\ \A k \in frames..Len(sent) : pos2[k] = pos[k] - b
    <3>1. TypeOK /\ frames \in frames..Len(sent) /\ b \in Int /\ stream' \in Seq(Words)
      BY <1>2, <1>7 DEF IInv
    <3> QED
      BY ZenonT(30), <2>3, <2>4, <2>5, <3>1, MovesOn
  <2>7. pos2[frames] = 0
    <3>1. frames \in frames..Len(sent)
      BY <1>2
    <3> QED
      BY <2>3, <2>6, <3>1
  <2> QED
    BY <1>1, <2>6, <2>7 DEF Aligned, InStep, Begin
<1>10. Buffered'
  BY <1>1, <1>4, <1>5, <1>6 DEF IInv, Buffered
<1>11. HandedAsSent'
  BY <1>1, HandedKept DEF IInv, TypeOK
<1> QED
  BY <1>1, <1>8, <1>9, <1>10, <1>11 DEF IInv

\* When the body has been read, the buffer holds the frame.
LEMMA BufferIsFrame ==
  ASSUME IInv, reader = "body", Len(stream) >= Last(arrays)[1] - HeaderSize
  PROVE  LET f     == sent[frames + 1]
             body  == SubSeq(stream, 1, Last(arrays)[1] - HeaderSize)
             array == Filled(HeaderSize + 1, body)
         IN  /\ frames < Len(sent) /\ f \in Frames /\ Len(f) = Last(arrays)[1]
             /\ Len(f) \in HeaderSize..Len(Last(arrays)) /\ Len(f) \in Nat /\ f[1] = Len(f)
             /\ body \in Seq(Words) /\ Len(body) = Len(f) - HeaderSize
             /\ array \in Seq(Words) /\ Len(array) = Len(Last(arrays))
             /\ SubSeq(array, 1, Last(arrays)[1]) = f
<1>0. PICK f, body, array :
        /\ f = sent[frames + 1]
        /\ body = SubSeq(stream, 1, Last(arrays)[1] - HeaderSize)
        /\ array = Filled(HeaderSize + 1, body)
  OBVIOUS
<1>1. /\ sent \in Seq(Frames) /\ stream \in Seq(Words) /\ frames \in 0..Len(sent)
      /\ Len(sent) \in Nat /\ Len(stream) \in Nat
      /\ arrays \in Seq(Seq(Words)) /\ arrays # <<>> /\ Len(arrays) \in Nat
  BY LenProperties DEF IInv, TypeOK
<1>2. /\ frames < Len(sent) /\ Last(arrays)[1] = f[1] /\ Last(arrays)[2] = f[2]
      /\ Last(arrays)[1] \in HeaderSize..Len(Last(arrays))
  BY <1>0 DEF IInv, Buffered, TypeOK
<1>3. PICK pos \in [frames..Len(sent) -> Int] : InStep(pos)
  BY DEF IInv, Aligned
<1>4. /\ f \in Frames /\ Len(f) \in Nat /\ Len(f) = Last(arrays)[1]
      /\ \A j \in 1..Len(f) : -2 + j \in 1..Len(stream) => stream[-2 + j] = f[j]
  <2>1. Begin = -2
    BY DEF Begin
  <2> QED
    BY <1>0, <1>2, <1>3, <2>1, NextFrame
<1>5. PICK size \in Nat : size = Last(arrays)[1]
  BY <1>4
<1>6. size >= 2 /\ Len(f) = size /\ size - 2 \in 0..Len(stream) /\ size <= Len(Last(arrays))
  <2>1. size >= 2 /\ size <= Len(Last(arrays))
    BY <1>2, <1>5
  <2>2. Len(stream) >= size - 2
    BY <1>5
  <2>3. Len(f) = size
    BY <1>4, <1>5
  <2>4. PICK e \in Nat : e = Len(stream)
    BY <1>1
  <2>5. size - 2 \in 0..e
    BY <2>1, <2>2, <2>4
  <2> QED
    BY <2>1, <2>3, <2>4, <2>5
<1>7. /\ body \in Seq(Words) /\ Len(body) = size - 2
      /\ \A j \in 1..(size - 2) : body[j] = stream[j]
  <2>1. PICK k \in 0..Len(stream) : k = size - 2
    BY <1>6
  <2>2. /\ SubSeq(stream, 1, k) \in Seq(Words) /\ Len(SubSeq(stream, 1, k)) = k
        /\ \A j \in 1..k : SubSeq(stream, 1, k)[j] = stream[j]
    BY <1>1, FrontOfSeq
  <2>3. body = SubSeq(stream, 1, k)
    BY <1>0, <1>5, <2>1
  <2> QED
    BY <2>1, <2>2, <2>3, Zenon
<1>8. \A j \in 3..size : body[j - 2] = f[j]
  <2>1. TAKE j \in 3..size
  <2>2. j - 2 \in 1..(size - 2) /\ j - 2 \in 1..Len(stream) /\ -2 + j = j - 2 /\ j \in 1..Len(f)
    BY <1>1, <1>6
  <2> QED
    BY <1>4, <1>7, <2>2
<1>9. /\ array \in Seq(Words) /\ Len(array) = Len(Last(arrays))
      /\ \A j \in 1..Len(Last(arrays)) :
           array[j] = IF j \in 3..(3 + Len(body) - 1) THEN body[j - 3 + 1] ELSE Last(arrays)[j]
  <2>1. PICK i \in Nat \ {0} : i = HeaderSize + 1 /\ i = 3
    OBVIOUS
  <2>2. PICK w \in Seq(Words) : w = body
    BY <1>7
  <2>3. /\ Filled(i, w) \in Seq(Words) /\ Len(Filled(i, w)) = Len(Last(arrays))
        /\ \A j \in 1..Len(Last(arrays)) :
             Filled(i, w)[j] = IF j \in i..(i + Len(w) - 1) THEN w[j - i + 1] ELSE Last(arrays)[j]
    <3>1. arrays \in Seq(Seq(Words)) /\ arrays # <<>>
      BY <1>1
    <3> QED
      BY <3>1, FilledFacts, Zenon
  <2>4. array = Filled(i, w)
    BY <1>0, <2>1, <2>2
  <2> QED
    BY <2>1, <2>2, <2>3, <2>4
<1>10. \A j \in 1..size : array[j] = f[j]
  <2>1. TAKE j \in 1..size
  <2>2. j \in 1..Len(Last(arrays)) /\ Len(Last(arrays)) \in Nat
    BY <1>2, <1>6
  <2>3. CASE j \in {1, 2}
    <3>1. ~(j \in 3..(3 + Len(body) - 1))
      BY <2>3
    <3> QED
      BY <1>2, <1>9, <2>2, <2>3, <3>1
  <2>4. CASE j \in 3..size
    <3>1. j \in 3..(3 + Len(body) - 1) /\ j - 3 + 1 = j - 2
      BY <1>6, <1>7, <2>4
    <3> QED
      BY <1>8, <1>9, <2>2, <2>4, <3>1
  <2> QED
    BY <2>3, <2>4
<1>11. SubSeq(array, 1, size) = f
  <2>1. size \in 0..Len(array)
    BY <1>2, <1>6, <1>9
  <2>2. /\ SubSeq(array, 1, size) \in Seq(Words) /\ Len(SubSeq(array, 1, size)) = size
        /\ \A j \in 1..size : SubSeq(array, 1, size)[j] = array[j]
    BY <1>9, <2>1, FrontOfSeq
  <2>3. f \in Seq(Words)
    BY <1>4, FrameFacts
  <2> QED
    BY <1>6, <1>10, <2>2, <2>3, SeqEqual
<1> QED
  <2>1. /\ frames < Len(sent) /\ f \in Frames /\ Len(f) = Last(arrays)[1]
        /\ Len(f) \in HeaderSize..Len(Last(arrays)) /\ Len(f) \in Nat /\ f[1] = Len(f)
        /\ body \in Seq(Words) /\ Len(body) = Len(f) - HeaderSize
        /\ array \in Seq(Words) /\ Len(array) = Len(Last(arrays))
        /\ SubSeq(array, 1, Last(arrays)[1]) = f
    BY <1>2, <1>4, <1>5, <1>6, <1>7, <1>9, <1>11
  <2> QED
    BY <1>0, <2>1, Zenon

LEMMA ReadBodyStep ==
  ASSUME IInv, ReadBody
  PROVE  IInv'
<1> DEFINE size == Last(arrays)[1]
           body == SubSeq(stream, 1, size - HeaderSize)
           array == Filled(HeaderSize + 1, body)
           buf == SubSeq(array, 1, size)
           message(b) == [type |-> b[2], msg |-> Unmarshal(b), payload |-> Payload(b),
                          array |-> Len(arrays), size |-> size, frame |-> frames + 1]
<1>1. /\ reader = "body" /\ Len(stream) >= size - HeaderSize
      /\ arrays' = Behind(array)
      /\ stream' = SubSeq(stream, Len(body) + 1, Len(stream))
      /\ reader' = "header" /\ frames' = frames + 1
      /\ handed' = IF Accepted(buf) THEN Append(handed, message(buf)) ELSE handed
      /\ UNCHANGED <<sent, left>>
  BY DEF ReadBody
<1>2. /\ sent \in Seq(Frames) /\ stream \in Seq(Words) /\ frames \in 0..Len(sent)
      /\ Len(sent) \in Nat /\ Len(stream) \in Nat
      /\ arrays \in Seq(Seq(Words)) /\ arrays # <<>> /\ Len(arrays) \in Nat
  BY LenProperties DEF IInv, TypeOK
<1>3. PICK f : f = sent[frames + 1]
  OBVIOUS
<1>4. /\ frames < Len(sent) /\ f \in Frames /\ Len(f) = size
      /\ Len(f) \in HeaderSize..Len(Last(arrays)) /\ Len(f) \in Nat /\ f[1] = Len(f)
      /\ body \in Seq(Words) /\ Len(body) = Len(f) - HeaderSize
      /\ array \in Seq(Words) /\ Len(array) = Len(Last(arrays))
      /\ buf = f
  <2>1. LET g == sent[frames + 1]
        IN  /\ frames < Len(sent) /\ g \in Frames /\ Len(g) = size
            /\ Len(g) \in HeaderSize..Len(Last(arrays)) /\ Len(g) \in Nat /\ g[1] = Len(g)
            /\ body \in Seq(Words) /\ Len(body) = Len(g) - HeaderSize
            /\ array \in Seq(Words) /\ Len(array) = Len(Last(arrays))
            /\ buf = g
    BY <1>1, BufferIsFrame, Zenon
  <2> HIDE DEF size, body, array, buf
  <2> QED
    BY <1>3, <2>1
<1>5. PICK m : m = message(f)
  OBVIOUS
<1>6. /\ m.type = f[2] /\ m.msg = Unmarshal(f) /\ m.payload = Payload(f)
      /\ m.array = Len(arrays) /\ m.size = Len(f) /\ m.frame = frames + 1
  BY <1>4, <1>5
<1>7. handed' = IF Accepted(f) THEN Append(handed, m) ELSE handed
  BY <1>1, <1>4, <1>5
<1>8. /\ arrays' \in Seq(Seq(Words)) /\ arrays' # <<>> /\ Len(arrays') = Len(arrays)
      /\ Len(Last(arrays')) = Len(Last(arrays))
      /\ \A k \in 1..Len(arrays) : Len(arrays'[k]) = Len(arrays[k])
  <2>1. PICK w \in Seq(Words) : w = array
    BY <1>4
  <2>2. PICK a : a = Behind(w)
    OBVIOUS
  <2>3. /\ a \in Seq(Seq(Words)) /\ a # <<>> /\ Len(a) = Len(arrays) /\ Last(a) = w
        /\ \A k \in 1..Len(arrays) : Len(a[k]) = Len(arrays[k])
    BY <1>2, <1>4, <2>1, <2>2, BehindFacts
  <2>4. arrays' = a /\ Len(w) = Len(Last(arrays))
    BY <1>1, <1>4, <2>1, <2>2
  <2> QED
    BY <2>3, <2>4
<1> HIDE DEF size, body, array, buf, message
<1>9. PICK n \in Nat : n = Len(f) - HeaderSize
  BY <1>4
<1>10. n \in 0..Len(stream) /\ stream' = SubSeq(stream, n + 1, Len(stream))
  <2>1. Len(stream) >= n /\ Len(body) = n
    BY <1>1, <1>4, <1>9
  <2> QED
    BY <1>1, <1>2, <2>1
<1>11. stream' \in Seq(Words) /\ Len(stream') = Len(stream) - n /\ Ahead(stream', stream, n)
  BY <1>2, <1>10, RestIsAhead
<1>12. /\ handed' \in Seq(Range(handed'))
       /\ Range(handed') = IF Accepted(f) THEN Range(handed) \cup {m} ELSE Range(handed)
  <2>1. handed \in Seq(Range(handed))
    BY DEF IInv
  <2>2. CASE Accepted(f)
    BY <1>7, <2>1, <2>2, RangeOfAppend
  <2>3. CASE ~Accepted(f)
    BY <1>7, <2>1, <2>3
  <2> QED
    BY <2>2, <2>3
<1>13. \A h \in Range(handed) : Kept(h)
  BY DEF IInv, TypeOK, Kept
<1>14. frames \in Nat /\ frames' = frames + 1 /\ frames' \in 0..Len(sent)
  BY <1>1, <1>2, <1>4
<1>15. TypeOK'
  <2>1. ASSUME NEW h \in Range(handed')
        PROVE  Kept(h)'
    <3>1. CASE h \in Range(handed)
      BY <1>2, <1>8, <1>13, <1>14, <3>1, KeptKept
    <3>2. CASE h = m /\ Accepted(f)
      <4>1. Len(f) >= 4
        BY <3>2 DEF Accepted
      <4>2. Len(arrays) \in 1..Len(arrays)
        BY <1>2, EmptySeq
      <4>3. Len(arrays'[Len(arrays)]) = Len(Last(arrays))
        BY <1>8, <4>2 DEF Last
      <4>4. h.array \in 1..Len(arrays') /\ h.frame \in 1..frames'
        BY SMTT(30), <1>6, <1>8, <1>14, <3>2, <4>2
      <4>5. h.size \in 4..Len(arrays'[h.array])
        BY <1>4, <1>6, <3>2, <4>1, <4>3
      <4> QED
        BY <4>4, <4>5 DEF Kept
    <3> QED
      BY <1>12, <3>1, <3>2
  <2> QED
    BY <1>1, <1>8, <1>11, <1>14, <2>1 DEF IInv, TypeOK, Kept
<1>16. Aligned'
  <2>1. PICK pos \in [frames..Len(sent) -> Int] : InStep(pos)
    BY DEF IInv, Aligned
  <2>2. /\ Lay(pos, sent, frames, stream) /\ Begin = -2
        /\ Len(stream) <= pos[Len(sent)] /\ pos[Len(sent)] \in Int
        /\ ~left => Len(stream) = pos[Len(sent)]
    <3>1. Len(sent) \in frames..Len(sent)
      BY <1>2
    <3> QED
      BY <1>1, <2>1, <3>1 DEF InStep, Lay, Begin
  <2>3. pos[frames + 1] = -2 + Len(f)
    BY <1>3, <1>4, <2>1, <2>2, NextFrame
  <2>4. Len(stream') <= pos[Len(sent)] - n /\ (~left => Len(stream') = pos[Len(sent)] - n)
    <3>1. PICK l \in Nat, e \in Int : l = Len(stream) /\ e = pos[Len(sent)]
      BY <1>2, <2>2
    <3>2. l <= e /\ (~left => l = e) /\ Len(stream') = l - n
      BY <1>11, <2>2, <3>1
    <3>3. l - n <= e - n
      BY <3>2
    <3> QED
      BY <3>1, <3>2, <3>3
  <2>5. PICK j \in frames..Len(sent) : j = frames + 1
    BY <1>2, <1>4
  <2>6. PICK pos2 \in [j..Len(sent) -> Int] :
          Lay(pos2, sent, j, stream') /\ \A k \in j..Len(sent) : pos2[k] = pos[k] - n
    <3>1. TypeOK /\ n \in Int /\ stream' \in Seq(Words)
      BY <1>11 DEF IInv
    <3> QED
      BY <1>11, <2>2, <2>4, <3>1, MovesOn, Zenon
  <2>7. pos2[j] = 0 /\ pos2[Len(sent)] = pos[Len(sent)] - n
    <3>1. j \in j..Len(sent) /\ Len(sent) \in j..Len(sent)
      BY <1>2, <2>5
    <3> QED
      BY <1>4, <1>9, <2>3, <2>5, <2>6, <3>1
  <2> QED
    BY <1>1, <2>4, <2>5, <2>6, <2>7 DEF Aligned, InStep, Begin
<1>17. Buffered'
  BY <1>1, <1>8 DEF IInv, Buffered
<1>18. HandedAsSent'
  <2>1. /\ \A i, j \in 1..Len(handed) : i < j => handed[i].frame < handed[j].frame
        /\ {h.frame : h \in Range(handed)} = {i \in 1..frames : Accepted(sent[i])}
        /\ \A h \in Range(handed) :
             LET g == sent[h.frame]
             IN  h.type = g[2] /\ h.msg = Unmarshal(g) /\ h.payload = Payload(g)
    BY DEF IInv, HandedAsSent
  <2>2. {h.frame : h \in Range(handed')} = {i \in 1..(frames + 1) : Accepted(sent[i])}
    <3>1. \A i : i \in 1..(frames + 1) <=> i \in 1..frames \/ i = frames + 1
      BY <1>14
    <3>2. CASE Accepted(f)
      <4>1. Range(handed') = Range(handed) \cup {m}
        BY <1>12, <3>2
      <4>2. {h.frame : h \in Range(handed')} = {h.frame : h \in Range(handed)} \cup {frames + 1}
        BY <1>6, <4>1
      <4> QED
        BY <1>3, <2>1, <3>1, <3>2, <4>2
    <3>3. CASE ~Accepted(f)
      BY <1>3, <1>12, <2>1, <3>1, <3>3
    <3> QED
      BY <3>2, <3>3
  <2>3. \A h \in Range(handed') :
          LET g == sent[h.frame]
          IN  h.type = g[2] /\ h.msg = Unmarshal(g) /\ h.payload = Payload(g)
    BY <1>3, <1>6, <1>12, <2>1
  <2>4. \A i, j \in 1..Len(handed') : i < j => handed'[i].frame < handed'[j].frame
    <3>1. CASE Accepted(f)
      <4>1. handed \in Seq(Range(handed) \cup {m}) /\ Len(handed) \in Nat
        <5>1. handed \in Seq(Range(handed))
          BY DEF IInv
        <5> QED
          BY <5>1, SeqMonotonic, LenProperties
      <4>2. /\ Len(handed') = Len(handed) + 1 /\ handed'[Len(handed) + 1] = m
            /\ \A i \in 1..Len(handed) : handed'[i] = handed[i]
        <5>1. handed' = Append(handed, m) /\ m \in Range(handed) \cup {m}
          BY <1>7, <3>1
        <5> QED
          BY <4>1, <5>1, AppendProperties
      <4>3. \A i \in 1..Len(handed) : handed[i].frame \in 1..frames
        <5>1. TAKE i \in 1..Len(handed)
        <5>2. handed[i] \in Range(handed)
          BY ElementOfSeq DEF IInv
        <5> QED
          BY <1>13, <5>2 DEF Kept
      <4>4. TAKE i \in 1..Len(handed')
      <4>5. TAKE j \in 1..Len(handed')
      <4>6. HAVE i < j
      <4>7. i \in 1..Len(handed) /\ (j \in 1..Len(handed) \/ j = Len(handed) + 1)
        BY <4>1, <4>2, <4>6
      <4>8. CASE j \in 1..Len(handed)
        BY <2>1, <4>2, <4>6, <4>7, <4>8
      <4>9. CASE j = Len(handed) + 1
        <5>1. handed'[i].frame \in 1..frames /\ handed'[j].frame = frames + 1
          BY <1>6, <4>2, <4>3, <4>7, <4>9
        <5> QED
          BY <1>14, <5>1
      <4> QED
        BY <4>7, <4>8, <4>9
    <3>2. CASE ~Accepted(f)
      BY <1>7, <2>1, <3>2
    <3> QED
      BY <3>1, <3>2
  <2> QED
    BY <1>1, <2>2, <2>3, <2>4 DEF HandedAsSent
<1> QED
  BY <1>12, <1>15, <1>16, <1>17, <1>18 DEF IInv

-----------------------------------------------------------------------------
(* Theorems. *)

LEMMA InvStep ==
  ASSUME IInv, [Next]_vars
  PROVE  IInv'
<1>1. ASSUME NEW f \in Frames, Send(f)
      PROVE  IInv'
  BY <1>1, SendStep
<1>2. ASSUME NEW n \in 0..Len(stream), Leave(n)
      PROVE  IInv'
  BY <1>2, LeaveStep
<1>3. CASE Read
  BY <1>3, ReadHeaderStep, EndStep, ReadBodyStep, ReadTruncatedStep DEF Read
<1>4. CASE UNCHANGED vars
  <2>1. UNCHANGED <<sent, left, stream, reader, arrays, frames, handed>>
    BY <1>4 DEF vars
  <2>2. TypeOK'
    BY <2>1 DEF IInv, TypeOK
  <2>3. Aligned'
    BY <2>1 DEF IInv, Aligned, InStep, Begin
  <2>4. Buffered'
    BY <2>1 DEF IInv, Buffered
  <2>5. HandedAsSent'
    BY <2>1, HandedKept DEF IInv, TypeOK
  <2> QED
    BY <2>1, <2>2, <2>3, <2>4, <2>5 DEF IInv
<1> QED
  BY <1>1, <1>2, <1>3, <1>4 DEF Next

\* The reader is in step with the frames that the module has sent, wherever the
\* stream ends and whatever frames it skips (verticalApi.go:165-198).
THEOREM ReaderInvariant == Spec => []IInv
BY InvInit, InvStep, PTL DEF Spec

\* The reader stays within its buffer, and reads no more frames than there are
\* (VerticalReader.TypeOK).
THEOREM ReaderTypeCorrect == Spec => []TypeOK
<1>1. IInv => TypeOK
  BY DEF IInv
<1> QED
  BY <1>1, ReaderInvariant, PTL

\* Main gets every message that is read and long enough for its type, once, in order
\* and with its fields (verticalApi.go:212-252).
THEOREM MessagesHandedAsSent == Spec => []HandedAsSent
<1>1. IInv => HandedAsSent
  BY DEF IInv
<1> QED
  BY <1>1, ReaderInvariant, PTL

\* A message that was handed on is a frame with all the words it says it has.
LEMMA HandedFrame ==
  ASSUME IInv, NEW h \in Range(handed)
  PROVE  LET f == sent[h.frame]
         IN  /\ f \in Seq(Words) /\ Len(f) \in Nat /\ Len(f) >= EmptySize
             /\ f[1] = Len(f) /\ f[1] \in Words /\ h.payload = Payload(f)
<1>1. PICK f : f = sent[h.frame]
  OBVIOUS
<1>2. h.frame \in 1..frames /\ sent \in Seq(Frames) /\ frames \in 0..Len(sent) /\ Len(sent) \in Nat
  BY LenProperties DEF IInv, TypeOK
<1>3. f \in Frames /\ h.frame \in 1..frames
  <2>1. h.frame \in 1..Len(sent)
    BY <1>2
  <2> QED
    BY <1>1, <1>2, <2>1, ElementOfSeq
<1>4. Accepted(f) /\ h.payload = Payload(f)
  <2>1. h.frame \in {i \in 1..frames : Accepted(sent[i])}
    BY DEF IInv, HandedAsSent
  <2> QED
    BY <1>1, <2>1 DEF IInv, HandedAsSent
<1>5. Len(f) \in Nat /\ Len(f) >= 4
  BY <1>3, <1>4, FrameFacts, LenProperties DEF Accepted
<1>6. f[1] = Len(f)
  BY <1>3, <1>5, FrameFacts
<1> QED
  BY <1>1, <1>3, <1>4, <1>5, <1>6, FrameFacts

LEMMA RemainderBelow ==
  ASSUME NEW d \in Nat \ {0}, NEW r \in 0..(d - 1)
  PROVE  r % d = r
OBVIOUS

\* A notification holds the payload it was made of, and its size fits.
LEMMA NotificationFacts ==
  ASSUME NEW id, NEW dt, NEW data \in Seq(Words), Len(data) + EmptySize \in Words
  PROVE  LET buf == GossipNotification(id, dt, data)
         IN  /\ Len(buf) = Len(data) + EmptySize /\ buf[1] = Len(buf) /\ buf[4] = dt
             /\ Payload(buf) = data
<1> DEFINE S == Words \cup {id, dt, GossipNotificationType, (HeaderSize + Len(<<id, dt>> \o data)) % Modulus}
<1>1. PICK two : two = <<id, dt>>
  OBVIOUS
<1>2. two \in Seq(S) /\ Len(two) = 2 /\ two[2] = dt
  BY <1>1
<1>3. data \in Seq(S) /\ Len(data) \in Nat
  BY SeqMonotonic, LenProperties
<1>4. PICK hdr : hdr = <<(HeaderSize + Len(two \o data)) % Modulus, GossipNotificationType>>
  OBVIOUS
<1>5. hdr \in Seq(S) /\ Len(hdr) = 2 /\ hdr[1] = (HeaderSize + Len(two \o data)) % Modulus
  BY <1>1, <1>4
<1>6. PICK body : body = two \o data
  OBVIOUS
<1>7. PICK buf : buf = hdr \o body
  OBVIOUS
<1>8. buf = GossipNotification(id, dt, data)
  BY <1>1, <1>4, <1>6, <1>7 DEF GossipNotification, Marshal
<1> HIDE DEF S
<1>9. /\ body \in Seq(S) /\ Len(body) = 2 + Len(data)
      /\ \A i \in 1..(2 + Len(data)) : body[i] = IF i <= 2 THEN two[i] ELSE data[i - 2]
  <2>1. /\ two \o data \in Seq(S) /\ Len(two \o data) = Len(two) + Len(data)
        /\ \A i \in 1..(Len(two) + Len(data)) :
             (two \o data)[i] = IF i <= Len(two) THEN two[i] ELSE data[i - Len(two)]
    BY <1>2, <1>3, ConcatProperties, Zenon
  <2> QED
    BY <1>2, <1>6, <2>1
<1>10. /\ buf \in Seq(S) /\ Len(buf) = 4 + Len(data)
       /\ \A i \in 1..(4 + Len(data)) : buf[i] = IF i <= 2 THEN hdr[i] ELSE body[i - 2]
  <2>1. /\ hdr \o body \in Seq(S) /\ Len(hdr \o body) = Len(hdr) + Len(body)
        /\ \A i \in 1..(Len(hdr) + Len(body)) :
             (hdr \o body)[i] = IF i <= Len(hdr) THEN hdr[i] ELSE body[i - Len(hdr)]
    <3>1. hdr \in Seq(S) /\ body \in Seq(S)
      BY <1>5, <1>9
    <3> QED
      BY <3>1, ConcatProperties, Zenon
  <2>2. Len(hdr) + Len(body) = 4 + Len(data)
    BY <1>3, <1>5, <1>9
  <2> QED
    BY <1>5, <1>7, <2>1, <2>2
<1>11. buf[1] = Len(buf)
  <2>1. buf[1] = (2 + Len(body)) % Modulus
    BY <1>3, <1>5, <1>6, <1>10
  <2>2. PICK r \in 0..(Modulus - 1) : r = 4 + Len(data) /\ r = 2 + Len(body)
    BY <1>3, <1>9 DEF Words
  <2>3. r % Modulus = r
    BY RemainderBelow, VerticalReaderAssumption DEF VerticalReaderAssumption
  <2> QED
    BY <1>10, <2>1, <2>2, <2>3
<1>12. buf[4] = dt
  <2>1. 4 \in 1..(4 + Len(data)) /\ 2 \in 1..(2 + Len(data))
    BY <1>3
  <2> QED
    BY <1>2, <1>9, <1>10, <2>1
<1>13. \A i \in 1..Len(data) : buf[i + 4] = data[i]
  <2>1. TAKE i \in 1..Len(data)
  <2>2. i + 4 \in 1..(4 + Len(data)) /\ ~(i + 4 <= 2) /\ (i + 4) - 2 = i + 2
    BY <1>3
  <2>3. i + 2 \in 1..(2 + Len(data)) /\ ~(i + 2 <= 2) /\ (i + 2) - 2 = i
    BY <1>3
  <2>4. buf[i + 4] = body[i + 2]
    BY <1>10, <2>2
  <2>5. body[i + 2] = data[i]
    BY <1>9, <2>3
  <2> QED
    BY <2>4, <2>5
<1>14. Payload(buf) = data
  <2>1. 4 \in 0..Len(buf) /\ Payload(buf) = SubSeq(buf, 4 + 1, Len(buf))
    BY <1>3, <1>10, <1>11 DEF Payload
  <2>2. /\ Payload(buf) \in Seq(S) /\ Len(Payload(buf)) = Len(data)
        /\ \A i \in 1..Len(data) : Payload(buf)[i] = buf[4 + i]
    BY <1>3, <1>10, <2>1, RestOfSeq
  <2>3. \A i \in 1..Len(data) : Payload(buf)[i] = data[i]
    BY <1>3, <1>13, <2>2
  <2> QED
    BY <1>3, <2>2, <2>3, SeqEqual
<1> QED
  BY <1>3, <1>8, <1>10, <1>11, <1>12, <1>14

\* Whatever is announced fits into the notification that it becomes at another peer,
\* which says what was announced (dummy.go:421-429, gossip_notification.go:37-97).
THEOREM AnnouncementsNotified == Spec => []NotifiedAsAnnounced
<1>1. IInv => NotifiedAsAnnounced
  <2> SUFFICES ASSUME IInv, NEW h \in Range(handed), NEW id \in Words, h.type = GossipAnnounceType
               PROVE  LET buf == ConvertPushToNotification(ConvertAnnounceToPush(id, h.msg, h.payload))
                          n   == UnmarshalNotification(buf)
                      IN  Len(buf) = buf[1] /\ n.dataType = h.msg.dataType /\ n.data = h.payload
    BY DEF NotifiedAsAnnounced
  <2>1. PICK f : f = sent[h.frame]
    OBVIOUS
  <2>2. /\ f \in Seq(Words) /\ Len(f) \in Nat /\ Len(f) >= 4
        /\ f[1] = Len(f) /\ f[1] \in Words /\ h.payload = Payload(f)
    BY <2>1, HandedFrame
  <2>3. Payload(f) \in Seq(Words) /\ Len(Payload(f)) = Len(f) - 4
    <3>1. 4 \in 0..Len(f) /\ Payload(f) = SubSeq(f, 4 + 1, Len(f))
      BY <2>2 DEF Payload
    <3> QED
      BY ZenonT(30), <2>2, <3>1, RestOfSeq
  <2>4. PICK data \in Seq(Words) : data = h.payload
    BY <2>2, <2>3
  <2>5. Len(data) + 4 \in Words
    BY <2>2, <2>3, <2>4
  <2>6. PICK dt : dt = h.msg.dataType
    OBVIOUS
  <2>7. PICK buf : buf = GossipNotification(id, dt, data)
    OBVIOUS
  <2>8. buf[1] = Len(buf) /\ buf[4] = dt /\ Payload(buf) = data
    BY <2>5, <2>7, NotificationFacts
  <2>9. buf = ConvertPushToNotification(ConvertAnnounceToPush(id, h.msg, h.payload))
    BY <2>4, <2>6, <2>7 DEF ConvertPushToNotification, ConvertAnnounceToPush
  <2> HIDE DEF EmptySize
  <2> QED
    BY <2>4, <2>6, <2>8, <2>9 DEF UnmarshalNotification
<1> QED
  BY <1>1, ReaderInvariant, PTL
=============================================================================
