----------------------------- MODULE EchoProofs -----------------------------
(***************************************************************************)
(* From key to screen: proofs about what task_tty makes of the bytes that  *)
(* the keyboard has sent and it has not taken yet.                         *)
(***************************************************************************)
EXTENDS TerminalProofs

(* What keyboard_read will make of them: its state between two bytes is    *)
(* the bytes it has of a code, the flags and what has been typed so far.   *)
Readings == [part : Seq(Bytes), mods : SUBSET Int, locks : SUBSET Int, typed : Seq(Int)]

ScanOf(t) == IF t[1] = E0 THEN t[2] ELSE t[1]
MadeOf(t) == ScanOf(t) < \h80
RowOf(t) == keymap(ScanOf(t) % \h80)
ShiftOf(d) == d.mods \cap {SHIFT_L, SHIFT_R} # {}
CapsOf(d, row) == ShiftOf(d) # (CAPS_LOCK \in d.locks /\ row[1] \in 97 .. 122)
KeyOf(d, t) == IF t[1] = E0 THEN RowOf(t)[3]
               ELSE IF CapsOf(d, RowOf(t)) THEN RowOf(t)[2] ELSE RowOf(t)[1]
UnpaddedOf(d, key) ==
  CASE key = PAD_ENTER -> ENTER
    [] key \in PAD_0 .. PAD_0 + 9 /\ NUM_LOCK \in d.locks -> key - PAD_0 + 48
    [] key \in PAD_0 .. PAD_0 + 9 /\ NUM_LOCK \notin d.locks -> UP
    [] OTHER -> key

\* A code is complete.
ModsAfter(d, t, key) ==
  IF t \in Special \/ key \notin SHIFT_L .. ALT_R THEN d.mods
  ELSE IF MadeOf(t) THEN d.mods \cup {Flag(key)} ELSE d.mods \ {Flag(key)}
LocksAfter(d, t, key) ==
  IF t \in Special \/ key \notin CAPS_LOCK .. SCROLL_LOCK \/ ~MadeOf(t) THEN d.locks
  ELSE IF key \in d.locks THEN d.locks \ {key} ELSE d.locks \cup {key}
NewlyTyped(d, t, key) ==
  IF t \in Special \/ key \in SHIFT_L .. SCROLL_LOCK \/ ~MadeOf(t) THEN <<>>
  ELSE InProcess(UnpaddedOf(d, key))
Decoded(d, t) ==
  [part |-> <<>>, mods |-> ModsAfter(d, t, KeyOf(d, t)), locks |-> LocksAfter(d, t, KeyOf(d, t)),
   typed |-> d.typed \o NewlyTyped(d, t, KeyOf(d, t))]

\* One byte more.
StepOf(d, b) == IF WantsMore(Append(d.part, b)) THEN [d EXCEPT !.part = Append(d.part, b)]
                ELSE Decoded(d, Append(d.part, b))

\* The bytes s lead from a to c; an acknowledge never falls into a code.
Steps(D, s) == \A i \in 1 .. Len(s) :
  D[i] = StepOf(D[i - 1], s[i]) /\ (s[i] = ACK => D[i - 1].part = <<>>)
Grows(D, s) == \A i, j \in 0 .. Len(s) : i <= j => IsPrefix(D[i].typed, D[j].typed)
Run(D, s, a, c) == /\ D \in [0 .. Len(s) -> Readings]
                   /\ D[0] = a /\ D[Len(s)] = c
                   /\ Steps(D, s) /\ Grows(D, s)
Reaches(s, a, c) == \E D : Run(D, s, a, c)
-----------------------------------------------------------------------------
(* Lemmas: prefixes.                                                       *)

LEMMA PrefixMeans ==
  ASSUME NEW S, NEW s \in Seq(S), NEW t \in Seq(S)
  PROVE  IsPrefix(s, t) <=> Len(s) <= Len(t) /\ \A i \in 1 .. Len(s) : s[i] = t[i]
<1>1. Len(s) \in Nat /\ Len(t) \in Nat
  BY LenProperties
<1>2. CASE Len(s) <= Len(t)
  <2>1. \A i \in 1 .. Len(s) : s[i] \in S /\ t[i] \in S
    BY <1>1, <1>2, ElementOfSeq
  <2>2. /\ SubSeq(s, 1, Len(s)) \in Seq(S) /\ Len(SubSeq(s, 1, Len(s))) = Len(s)
        /\ \A i \in 1 .. Len(s) : SubSeq(s, 1, Len(s))[i] = s[i]
    <3>1. 1 \in Int /\ Len(s) \in Int
      BY <1>1
    <3>2. /\ SubSeq(s, 1, Len(s)) \in Seq(S)
          /\ Len(SubSeq(s, 1, Len(s))) = IF 1 <= Len(s) THEN Len(s) - 1 + 1 ELSE 0
          /\ \A i \in 1 .. Len(s) - 1 + 1 : SubSeq(s, 1, Len(s))[i] = s[1 + i - 1]
      BY <2>1, <3>1, SubSeqProperties
    <3> QED
      BY <1>1, <3>2
  <2>3. /\ SubSeq(t, 1, Len(s)) \in Seq(S) /\ Len(SubSeq(t, 1, Len(s))) = Len(s)
        /\ \A i \in 1 .. Len(s) : SubSeq(t, 1, Len(s))[i] = t[i]
    <3>1. 1 \in Int /\ Len(s) \in Int
      BY <1>1
    <3>2. /\ SubSeq(t, 1, Len(s)) \in Seq(S)
          /\ Len(SubSeq(t, 1, Len(s))) = IF 1 <= Len(s) THEN Len(s) - 1 + 1 ELSE 0
          /\ \A i \in 1 .. Len(s) - 1 + 1 : SubSeq(t, 1, Len(s))[i] = t[1 + i - 1]
      BY <2>1, <3>1, SubSeqProperties
    <3> QED
      BY <1>1, <3>2
  <2>4. SubSeq(s, 1, Len(s)) = SubSeq(t, 1, Len(s)) <=> \A i \in 1 .. Len(s) : s[i] = t[i]
    <3>1. ASSUME \A i \in 1 .. Len(s) : s[i] = t[i]
          PROVE  SubSeq(s, 1, Len(s)) = SubSeq(t, 1, Len(s))
      BY <2>2, <2>3, <3>1, SeqEqual
    <3>2. ASSUME SubSeq(s, 1, Len(s)) = SubSeq(t, 1, Len(s)), NEW i \in 1 .. Len(s)
          PROVE  s[i] = t[i]
      <4>1. SubSeq(s, 1, Len(s))[i] = s[i] /\ SubSeq(t, 1, Len(s))[i] = t[i]
        BY <2>2, <2>3
      <4> QED
        BY <3>2, <4>1
    <3> QED
      BY <3>1, <3>2
  <2> QED
    BY <1>2, <2>4 DEF IsPrefix
<1>3. CASE ~(Len(s) <= Len(t))
  BY <1>3 DEF IsPrefix
<1> QED
  BY <1>2, <1>3

LEMMA PrefixSelf ==
  ASSUME NEW S, NEW s \in Seq(S)
  PROVE  IsPrefix(s, s)
BY PrefixMeans, LenProperties

LEMMA PrefixTransitive ==
  ASSUME NEW S, NEW s \in Seq(S), NEW t \in Seq(S), NEW u \in Seq(S), IsPrefix(s, t), IsPrefix(t, u)
  PROVE  IsPrefix(s, u)
<1>1. Len(s) \in Nat /\ Len(t) \in Nat /\ Len(u) \in Nat
  BY LenProperties
<1>2. Len(s) <= Len(t) /\ \A i \in 1 .. Len(s) : s[i] = t[i]
  BY PrefixMeans
<1>3. Len(t) <= Len(u) /\ \A i \in 1 .. Len(t) : t[i] = u[i]
  BY PrefixMeans
<1>4. Len(s) <= Len(u) /\ \A i \in 1 .. Len(s) : s[i] = u[i]
  BY <1>1, <1>2, <1>3
<1> QED
  BY <1>4, PrefixMeans

LEMMA PrefixOfConcat ==
  ASSUME NEW S, NEW s \in Seq(S), NEW t \in Seq(S)
  PROVE  IsPrefix(s, s \o t)
<1>1. /\ s \o t \in Seq(S) /\ Len(s \o t) = Len(s) + Len(t)
      /\ \A i \in 1 .. Len(s) + Len(t) : (s \o t)[i] = IF i <= Len(s) THEN s[i] ELSE t[i - Len(s)]
  BY ConcatProperties
<1>2. Len(s) \in Nat /\ Len(t) \in Nat
  BY LenProperties
<1>3. Len(s) <= Len(s \o t) /\ \A i \in 1 .. Len(s) : s[i] = (s \o t)[i]
  BY <1>1, <1>2
<1> QED
  BY <1>1, <1>3, PrefixMeans
-----------------------------------------------------------------------------
(* Lemmas: runs of the reader.                                             *)

LEMMA RunNothing ==
  /\ \A a \in Readings : Reaches(<<>>, a, a)
  /\ \A a, c : Reaches(<<>>, a, c) => a = c /\ a \in Readings
<1>1. Len(<<>>) = 0
  BY EmptySeq
<1>2. ASSUME NEW a \in Readings PROVE Reaches(<<>>, a, a)
  <2> DEFINE D == [i \in 0 .. 0 |-> a]
  <2>1. D \in [0 .. 0 -> Readings] /\ D[0] = a
    OBVIOUS
  <2>2. IsPrefix(a.typed, a.typed)
    BY PrefixSelf DEF Readings
  <2> HIDE DEF D
  <2>3. Steps(D, <<>>)
    BY <1>1 DEF Steps
  <2>4. Grows(D, <<>>)
    <3>1. \A i \in 0 .. 0 : i = 0
      OBVIOUS
    <3> QED
      BY <1>1, <2>1, <2>2, <3>1 DEF Grows
  <2>5. Run(D, <<>>, a, a)
    BY <1>1, <2>1, <2>3, <2>4 DEF Run
  <2> QED
    BY <2>5 DEF Reaches
<1>3. ASSUME NEW a, NEW c, Reaches(<<>>, a, c) PROVE a = c /\ a \in Readings
  <2>1. PICK D : Run(D, <<>>, a, c)
    BY <1>3 DEF Reaches
  <2>2. D \in [0 .. 0 -> Readings] /\ D[0] = a /\ D[0] = c
    BY <1>1, <2>1 DEF Run
  <2> QED
    BY <2>2
<1> QED
  BY <1>2, <1>3

\* Where a run starts and ends.
LEMMA RunEnds ==
  ASSUME NEW S, NEW s \in Seq(S), NEW a, NEW c, Reaches(s, a, c)
  PROVE  a \in Readings /\ c \in Readings /\ IsPrefix(a.typed, c.typed)
<1>1. PICK D : Run(D, s, a, c)
  BY DEF Reaches
<1>2. Len(s) \in Nat
  BY LenProperties
<1>3. 0 \in 0 .. Len(s) /\ Len(s) \in 0 .. Len(s) /\ 0 <= Len(s)
  BY <1>2
<1>4. D \in [0 .. Len(s) -> Readings] /\ D[0] = a /\ D[Len(s)] = c /\ Grows(D, s)
  BY <1>1 DEF Run
<1>5. IsPrefix(D[0].typed, D[Len(s)].typed)
  BY <1>3, <1>4 DEF Grows
<1> QED
  BY <1>3, <1>4, <1>5

\* Two runs in a row are one.
LEMMA RunConcat ==
  ASSUME NEW S, NEW s \in Seq(S), NEW t \in Seq(S), NEW a, NEW b, NEW c,
         Reaches(s, a, b), Reaches(t, b, c)
  PROVE  Reaches(s \o t, a, c)
<1>1. PICK D : Run(D, s, a, b)
  BY DEF Reaches
<1>2. PICK E : Run(E, t, b, c)
  BY DEF Reaches
<1> DEFINE m == Len(s)   n == Len(t)
           F == [i \in 0 .. m + n |-> IF i <= m THEN D[i] ELSE E[i - m]]
<1>3. m \in Nat /\ n \in Nat
  BY LenProperties
<1>4. /\ Len(s \o t) = m + n
      /\ \A i \in 1 .. m + n : (s \o t)[i] = IF i <= m THEN s[i] ELSE t[i - m]
  BY ConcatProperties
<1>5. D \in [0 .. m -> Readings] /\ D[0] = a /\ D[m] = b /\ Steps(D, s) /\ Grows(D, s)
  BY <1>1 DEF Run
<1>6. E \in [0 .. n -> Readings] /\ E[0] = b /\ E[n] = c /\ Steps(E, t) /\ Grows(E, t)
  BY <1>2 DEF Run
<1> HIDE DEF m, n
<1>7. /\ \A i \in 0 .. m : F[i] = D[i]
      /\ \A i \in m .. m + n : F[i] = E[i - m]
  <2>1. \A i \in 0 .. m : i \in 0 .. m + n /\ i <= m
    BY <1>3
  <2>2. ASSUME NEW i \in m .. m + n PROVE F[i] = E[i - m]
    <3>1. CASE i = m
      <4>1. m \in 0 .. m + n /\ m <= m /\ m - m = 0
        BY <1>3
      <4>2. F[m] = D[m]
        BY <4>1
      <4> QED
        BY <1>5, <1>6, <3>1, <4>1, <4>2
    <3>2. CASE i # m
      <4>1. i \in 0 .. m + n /\ ~(i <= m)
        BY <1>3, <3>2
      <4> QED
        BY <4>1
    <3> QED
      BY <3>1, <3>2
  <2> QED
    BY <2>1, <2>2
<1>8. F \in [0 .. m + n -> Readings]
  <2>1. ASSUME NEW i \in 0 .. m + n PROVE F[i] \in Readings
    <3>1. CASE i <= m
      BY <1>3, <1>5, <1>7, <3>1
    <3>2. CASE ~(i <= m)
      <4>1. i \in m .. m + n /\ i - m \in 0 .. n
        BY <1>3, <3>2
      <4> QED
        BY <1>6, <1>7, <4>1
    <3> QED
      BY <3>1, <3>2
  <2> QED
    BY <2>1
<1>9. F[0] = a /\ F[m + n] = c
  BY <1>3, <1>5, <1>6, <1>7
<1> HIDE DEF F
<1>10. Steps(F, s \o t)
  <2>1. ASSUME NEW i \in 1 .. m + n
        PROVE  F[i] = StepOf(F[i - 1], (s \o t)[i]) /\ ((s \o t)[i] = ACK => F[i - 1].part = <<>>)
    <3>1. CASE i <= m
      <4>1. i \in 0 .. m /\ i - 1 \in 0 .. m /\ i \in 1 .. m
        BY <1>3, <3>1
      <4>2. F[i] = D[i] /\ F[i - 1] = D[i - 1] /\ (s \o t)[i] = s[i]
        BY <1>4, <1>7, <3>1, <4>1
      <4>3. D[i] = StepOf(D[i - 1], s[i]) /\ (s[i] = ACK => D[i - 1].part = <<>>)
        BY <1>5, <4>1 DEF Steps, m
      <4> QED
        BY <4>2, <4>3
    <3>2. CASE ~(i <= m)
      <4>1. i \in m .. m + n /\ i - 1 \in m .. m + n /\ i - m \in 1 .. n /\ (i - 1) - m = (i - m) - 1
        BY <1>3, <3>2
      <4>2. F[i] = E[i - m] /\ F[i - 1] = E[(i - m) - 1] /\ (s \o t)[i] = t[i - m]
        BY <1>4, <1>7, <3>2, <4>1
      <4>3. /\ E[i - m] = StepOf(E[(i - m) - 1], t[i - m])
            /\ (t[i - m] = ACK => E[(i - m) - 1].part = <<>>)
        BY <1>6, <4>1 DEF Steps, n
      <4> QED
        BY <4>2, <4>3
    <3> QED
      BY <3>1, <3>2
  <2> QED
    BY <1>4, <2>1 DEF Steps
<1>11. Grows(F, s \o t)
  <2>1. ASSUME NEW i \in 0 .. m + n, NEW j \in 0 .. m + n, i <= j
        PROVE  IsPrefix(F[i].typed, F[j].typed)
    <3>1. CASE j <= m
      <4>1. i \in 0 .. m /\ j \in 0 .. m
        BY <1>3, <2>1, <3>1
      <4> QED
        BY <1>5, <1>7, <2>1, <4>1 DEF Grows, m
    <3>2. CASE i > m
      <4>1. i \in m .. m + n /\ j \in m .. m + n /\ i - m \in 0 .. n /\ j - m \in 0 .. n /\ i - m <= j - m
        BY <1>3, <2>1, <3>2
      <4>2. F[i] = E[i - m] /\ F[j] = E[j - m]
        BY <1>7, <4>1
      <4> QED
        BY <1>6, <4>1, <4>2 DEF Grows, n
    <3>3. CASE i <= m /\ j > m
      <4>1. i \in 0 .. m /\ m \in 0 .. m /\ j \in m .. m + n /\ j - m \in 0 .. n /\ 0 \in 0 .. n /\ 0 <= j - m
        BY <1>3, <2>1, <3>3
      <4>2. IsPrefix(D[i].typed, b.typed)
        BY <1>5, <3>3, <4>1 DEF Grows, m
      <4>3. IsPrefix(b.typed, E[j - m].typed)
        BY <1>6, <4>1 DEF Grows, n
      <4>4. D[i] \in Readings /\ b \in Readings /\ E[j - m] \in Readings
        BY <1>5, <1>6, <4>1
      <4>5. D[i].typed \in Seq(Int) /\ b.typed \in Seq(Int) /\ E[j - m].typed \in Seq(Int)
        BY <4>4 DEF Readings
      <4>6. IsPrefix(D[i].typed, E[j - m].typed)
        BY <4>2, <4>3, <4>5, PrefixTransitive
      <4> QED
        BY <1>7, <4>1, <4>6
    <3> QED
      BY <1>3, <3>1, <3>2, <3>3
  <2> QED
    BY <1>4, <2>1 DEF Grows
<1>12. Run(F, s \o t, a, c)
  BY <1>4, <1>8, <1>9, <1>10, <1>11 DEF Run
<1> QED
  BY <1>12 DEF Reaches

\* And one is two.
LEMMA RunSplit ==
  ASSUME NEW S, NEW s \in Seq(S), NEW t \in Seq(S), NEW a, NEW c, Reaches(s \o t, a, c)
  PROVE  \E b \in Readings : Reaches(s, a, b) /\ Reaches(t, b, c)
<1>1. PICK F : Run(F, s \o t, a, c)
  BY DEF Reaches
<1> DEFINE m == Len(s)   n == Len(t)
           D == [i \in 0 .. m |-> F[i]]
           E == [i \in 0 .. n |-> F[m + i]]
<1>2. m \in Nat /\ n \in Nat
  BY LenProperties
<1>3. /\ Len(s \o t) = m + n
      /\ \A i \in 1 .. m + n : (s \o t)[i] = IF i <= m THEN s[i] ELSE t[i - m]
  BY ConcatProperties
<1>4. F \in [0 .. m + n -> Readings] /\ F[0] = a /\ F[m + n] = c /\ Steps(F, s \o t) /\ Grows(F, s \o t)
  BY <1>1, <1>3 DEF Run
<1>5. \A i \in 1 .. m : (s \o t)[i] = s[i]
  BY <1>2, <1>3
<1>6. \A i \in 1 .. n : (s \o t)[m + i] = t[i]
  <2>1. ASSUME NEW i \in 1 .. n PROVE (s \o t)[m + i] = t[i]
    <3>1. m + i \in 1 .. m + n /\ ~(m + i <= m) /\ (m + i) - m = i
      BY <1>2
    <3> QED
      BY <1>3, <3>1
  <2> QED
    BY <2>1
<1> HIDE DEF m, n
<1>7. D \in [0 .. m -> Readings] /\ E \in [0 .. n -> Readings]
  BY <1>2, <1>4
<1>8. D[0] = a /\ D[m] = F[m] /\ E[0] = F[m] /\ E[n] = c /\ F[m] \in Readings
  BY <1>2, <1>4
<1>9. Steps(D, s)
  <2>1. ASSUME NEW i \in 1 .. m
        PROVE  D[i] = StepOf(D[i - 1], s[i]) /\ (s[i] = ACK => D[i - 1].part = <<>>)
    <3>1. i \in 0 .. m /\ i - 1 \in 0 .. m /\ i \in 1 .. m + n
      BY <1>2
    <3>2. F[i] = StepOf(F[i - 1], (s \o t)[i]) /\ ((s \o t)[i] = ACK => F[i - 1].part = <<>>)
      BY <1>3, <1>4, <3>1 DEF Steps
    <3> QED
      BY <1>5, <3>1, <3>2
  <2> QED
    BY <2>1 DEF Steps, m
<1>10. Steps(E, t)
  <2>1. ASSUME NEW i \in 1 .. n
        PROVE  E[i] = StepOf(E[i - 1], t[i]) /\ (t[i] = ACK => E[i - 1].part = <<>>)
    <3>1. i \in 0 .. n /\ i - 1 \in 0 .. n /\ m + i \in 1 .. m + n /\ m + (i - 1) = (m + i) - 1
      BY <1>2
    <3>2. F[m + i] = StepOf(F[(m + i) - 1], (s \o t)[m + i])
          /\ ((s \o t)[m + i] = ACK => F[(m + i) - 1].part = <<>>)
      BY <1>3, <1>4, <3>1 DEF Steps
    <3> QED
      BY <1>6, <3>1, <3>2
  <2> QED
    BY <2>1 DEF Steps, n
<1>11. Grows(D, s)
  <2>1. ASSUME NEW i \in 0 .. m, NEW j \in 0 .. m, i <= j
        PROVE  IsPrefix(D[i].typed, D[j].typed)
    <3>1. i \in 0 .. m + n /\ j \in 0 .. m + n
      BY <1>2
    <3> QED
      BY <1>3, <1>4, <2>1, <3>1 DEF Grows
  <2> QED
    BY <2>1 DEF Grows, m
<1>12. Grows(E, t)
  <2>1. ASSUME NEW i \in 0 .. n, NEW j \in 0 .. n, i <= j
        PROVE  IsPrefix(E[i].typed, E[j].typed)
    <3>1. m + i \in 0 .. m + n /\ m + j \in 0 .. m + n /\ m + i <= m + j
      BY <1>2, <2>1
    <3> QED
      BY <1>3, <1>4, <3>1 DEF Grows
  <2> QED
    BY <2>1 DEF Grows, n
<1> HIDE DEF D, E
<1>13. Run(D, s, a, F[m]) /\ Run(E, t, F[m], c)
  BY <1>7, <1>8, <1>9, <1>10, <1>11, <1>12 DEF Run, m, n
<1> QED
  BY <1>8, <1>13 DEF Reaches

\* What one byte does.
LEMMA RunByte ==
  ASSUME NEW b, NEW a, NEW c, Reaches(<<b>>, a, c)
  PROVE  c = StepOf(a, b) /\ (b = ACK => a.part = <<>>)
<1>1. PICK D : Run(D, <<b>>, a, c)
  BY DEF Reaches
<1>2. Len(<<b>>) = 1 /\ <<b>>[1] = b
  OBVIOUS
<1>3. D[0] = a /\ D[1] = c /\ Steps(D, <<b>>)
  BY <1>1, <1>2 DEF Run
<1>4. 1 \in 1 .. 1 /\ 1 - 1 = 0
  OBVIOUS
<1> QED
  BY <1>2, <1>3, <1>4 DEF Steps

\* A key's code is a number, and so is what is typed.
LEMMA DecodedReading ==
  ASSUME NEW d \in Readings, NEW t
  PROVE  /\ Decoded(d, t) \in Readings
         /\ IsPrefix(d.typed, Decoded(d, t).typed)
<1> DEFINE key == KeyOf(d, t)
<1>1. \A row : keymap(row)[1] \in Int /\ keymap(row)[2] \in Int /\ keymap(row)[3] \in Int
  BY DEF keymap, ENTER, BACKSPACE, SHIFT_L, SHIFT_R, CTRL_L, CTRL_R, ALT_L, ALT_R, CAPS_LOCK,
         NUM_LOCK, UP, PAD_ENTER, PAD_0, PAD_8, FLAG_EXT
<1>2. key \in Int
  BY <1>1 DEF KeyOf, RowOf
<1>3. d.mods \subseteq Int /\ d.locks \subseteq Int /\ d.typed \in Seq(Int)
  BY DEF Readings
<1> HIDE DEF key
<1>4. ModsAfter(d, t, key) \subseteq Int
  <2>1. Flag(key) \in Int
    BY <1>2 DEF Flag, ALT_R, ALT_L, FLAG_EXT
  <2> QED
    BY <1>3, <2>1 DEF ModsAfter
<1>5. LocksAfter(d, t, key) \subseteq Int
  BY <1>2, <1>3 DEF LocksAfter
<1>6. NewlyTyped(d, t, key) \in Seq(Int)
  <2>1. UnpaddedOf(d, key) \in Int
    BY <1>2 DEF UnpaddedOf, ENTER, UP, PAD_0, FLAG_EXT
  <2>2. \A n \in Int : <<n>> \in Seq(Int)
    OBVIOUS
  <2>3. <<>> \in Seq(Int) /\ 10 \in Int /\ 8 \in Int
    BY EmptySeq
  <2>4. \A n \in Int : InProcess(n) \in {<<n>>, <<10>>, <<8>>, <<>>}
    BY DEF InProcess
  <2>5. \A n \in Int : InProcess(n) \in Seq(Int)
    BY <2>2, <2>3, <2>4, Zenon
  <2> QED
    BY <2>1, <2>3, <2>5 DEF NewlyTyped
<1>7. /\ d.typed \o NewlyTyped(d, t, key) \in Seq(Int)
      /\ IsPrefix(d.typed, d.typed \o NewlyTyped(d, t, key))
  BY <1>3, <1>6, ConcatProperties, PrefixOfConcat
<1>8. Decoded(d, t) = [part |-> <<>>, mods |-> ModsAfter(d, t, key), locks |-> LocksAfter(d, t, key),
                       typed |-> d.typed \o NewlyTyped(d, t, key)]
  BY DEF Decoded, key
<1>9. <<>> \in Seq(Bytes)
  BY EmptySeq
<1> QED
  BY <1>4, <1>5, <1>7, <1>8, <1>9 DEF Readings

\* What was read of a code before does not matter once it is complete.
LEMMA DecodedSame ==
  ASSUME NEW d, NEW e, NEW t, e.mods = d.mods, e.locks = d.locks, e.typed = d.typed
  PROVE  Decoded(e, t) = Decoded(d, t)
<1> DEFINE key == KeyOf(d, t)
<1>1. KeyOf(e, t) = key
  BY DEF KeyOf, CapsOf, ShiftOf
<1>2. /\ Decoded(e, t) = [part |-> <<>>, mods |-> ModsAfter(e, t, key),
                          locks |-> LocksAfter(e, t, key), typed |-> e.typed \o NewlyTyped(e, t, key)]
      /\ Decoded(d, t) = [part |-> <<>>, mods |-> ModsAfter(d, t, key),
                          locks |-> LocksAfter(d, t, key), typed |-> d.typed \o NewlyTyped(d, t, key)]
  BY <1>1, Zenon DEF Decoded, key
<1> HIDE DEF key
<1>3. ModsAfter(e, t, key) = ModsAfter(d, t, key)
  BY Zenon DEF ModsAfter
<1>4. LocksAfter(e, t, key) = LocksAfter(d, t, key)
  BY Zenon DEF LocksAfter
<1>5. NewlyTyped(e, t, key) = NewlyTyped(d, t, key)
  <2>1. UnpaddedOf(e, key) = UnpaddedOf(d, key)
    BY DEF UnpaddedOf
  <2> QED
    BY <2>1, Zenon DEF NewlyTyped
<1> QED
  BY <1>2, <1>3, <1>4, <1>5, Zenon

\* A whole code.
LEMMA RunCode ==
  ASSUME NEW d \in Readings, d.part = <<>>, NEW s \in Seq(Bytes), s # <<>>, ~WantsMore(s),
         \A i \in 1 .. Len(s) - 1 : WantsMore(SubSeq(s, 1, i)),
         \A i \in 2 .. Len(s) : s[i] # ACK
  PROVE  Reaches(s, d, Decoded(d, s))
<1> DEFINE n == Len(s)
           D == [i \in 0 .. n |-> IF i < n THEN [d EXCEPT !.part = SubSeq(s, 1, i)] ELSE Decoded(d, s)]
<1>1. n \in Nat \ {0}
  BY EmptySeq, LenProperties
<1>2. d = [part |-> d.part, mods |-> d.mods, locks |-> d.locks, typed |-> d.typed]
      /\ d.mods \subseteq Int /\ d.locks \subseteq Int /\ d.typed \in Seq(Int)
  BY DEF Readings
<1>3. /\ \A i \in 0 .. n : SubSeq(s, 1, i) \in Seq(Bytes)
      /\ SubSeq(s, 1, 0) = <<>> /\ SubSeq(s, 1, n) = s
      /\ \A i \in 1 .. n : Append(SubSeq(s, 1, i - 1), s[i]) = SubSeq(s, 1, i)
  <2>1. ASSUME NEW i \in 0 .. n PROVE SubSeq(s, 1, i) \in Seq(Bytes)
    <3>1. \A j \in 1 .. i : s[j] \in Bytes
      BY <1>1, ElementOfSeq
    <3>2. 1 \in Int /\ i \in Int
      BY <1>1
    <3> QED
      BY <3>1, <3>2, SubSeqProperties
  <2>2. SubSeq(s, 1, 0) = <<>>
    BY SubSeqEmpty
  <2>3. SubSeq(s, 1, n) = s
    BY SubSeqFull
  <2>4. ASSUME NEW i \in 1 .. n PROVE Append(SubSeq(s, 1, i - 1), s[i]) = SubSeq(s, 1, i)
    <3>1. 1 \in 1 .. n /\ i \in 1 .. n /\ i - 1 \in 0 .. n
      BY <1>1
    <3>2. SubSeq(s, 1, i) = SubSeq(s, 1, i - 1) \o <<s[i]>>
      BY <3>1, SubSeqRecursiveSecond
    <3>3. SubSeq(s, 1, i - 1) \in Seq(Bytes) /\ s[i] \in Bytes
      BY <2>1, <3>1, ElementOfSeq
    <3> QED
      BY <3>2, <3>3, AppendIsConcat
  <2> QED
    BY <2>1, <2>2, <2>3, <2>4
<1> HIDE DEF n
<1>4. /\ \A i \in 0 .. n - 1 : D[i] = [d EXCEPT !.part = SubSeq(s, 1, i)]
      /\ D[n] = Decoded(d, s)
  BY <1>1
<1>5. \A i \in 0 .. n - 1 : D[i] \in Readings /\ D[i].part = SubSeq(s, 1, i)
                            /\ D[i].typed = d.typed
  <2>1. ASSUME NEW q \in Seq(Bytes)
        PROVE  /\ [d EXCEPT !.part = q] \in Readings
               /\ [d EXCEPT !.part = q].part = q /\ [d EXCEPT !.part = q].typed = d.typed
    BY DEF Readings
  <2>2. ASSUME NEW i \in 0 .. n - 1
        PROVE  D[i] \in Readings /\ D[i].part = SubSeq(s, 1, i) /\ D[i].typed = d.typed
    <3>1. SubSeq(s, 1, i) \in Seq(Bytes) /\ D[i] = [d EXCEPT !.part = SubSeq(s, 1, i)]
      BY <1>1, <1>3, <1>4
    <3> HIDE DEF D
    <3> QED
      BY <2>1, <3>1
  <2> QED
    BY <2>2, Zenon
<1>6. Decoded(d, s) \in Readings /\ IsPrefix(d.typed, Decoded(d, s).typed)
  BY DecodedReading
<1>7. D \in [0 .. n -> Readings]
  <2>1. \A i \in 0 .. n : i \in 0 .. n - 1 \/ i = n
    BY <1>1
  <2>2. \A i \in 0 .. n : D[i] \in Readings
    BY <1>4, <1>5, <1>6, <2>1
  <2> QED
    BY <2>2
<1>8. D[0] = d
  BY <1>1, <1>2, <1>3, <1>4
<1> HIDE DEF D
<1>9. Steps(D, s)
  <2>1. ASSUME NEW i \in 1 .. n
        PROVE  D[i] = StepOf(D[i - 1], s[i]) /\ (s[i] = ACK => D[i - 1].part = <<>>)
    <3>1. i - 1 \in 0 .. n - 1
      BY <1>1
    <3>2. D[i - 1].part = SubSeq(s, 1, i - 1) /\ D[i - 1] = [d EXCEPT !.part = SubSeq(s, 1, i - 1)]
      BY <1>4, <1>5, <3>1
    <3>3. Append(D[i - 1].part, s[i]) = SubSeq(s, 1, i)
      BY <1>3, <3>2
    <3>4. s[i] = ACK => D[i - 1].part = <<>>
      <4>1. CASE i = 1
        BY <1>3, <3>2, <4>1
      <4>2. CASE i # 1
        <5>1. i \in 2 .. n
          BY <1>1, <4>2
        <5> QED
          BY <5>1 DEF n
      <4> QED
        BY <4>1, <4>2
    <3>5. CASE i < n
      <4>1. i \in 1 .. n - 1 /\ i \in 0 .. n - 1
        BY <1>1, <3>5
      <4>2. WantsMore(SubSeq(s, 1, i))
        BY <4>1 DEF n
      <4>3. StepOf(D[i - 1], s[i]) = [D[i - 1] EXCEPT !.part = SubSeq(s, 1, i)]
        BY <3>3, <4>2 DEF StepOf
      <4>4. [[d EXCEPT !.part = SubSeq(s, 1, i - 1)] EXCEPT !.part = SubSeq(s, 1, i)]
              = [d EXCEPT !.part = SubSeq(s, 1, i)]
        BY <1>2
      <4> QED
        BY <1>4, <3>2, <3>4, <4>1, <4>3, <4>4
    <3>6. CASE i = n
      <4>1. StepOf(D[i - 1], s[i]) = Decoded(D[i - 1], s)
        BY <1>3, <3>3, <3>6 DEF StepOf
      <4>2. D[i - 1].mods = d.mods /\ D[i - 1].locks = d.locks /\ D[i - 1].typed = d.typed
        BY <1>2, <3>2
      <4>3. Decoded(D[i - 1], s) = Decoded(d, s)
        BY <4>2, DecodedSame
      <4> QED
        BY <1>4, <3>4, <3>6, <4>1, <4>3
    <3> QED
      BY <1>1, <3>5, <3>6
  <2> QED
    BY <2>1 DEF Steps, n
<1>10. Grows(D, s)
  <2>1. IsPrefix(d.typed, d.typed)
    BY <1>2, PrefixSelf
  <2>2. IsPrefix(Decoded(d, s).typed, Decoded(d, s).typed)
    BY <1>6, PrefixSelf DEF Readings
  <2>3. ASSUME NEW i \in 0 .. n, NEW j \in 0 .. n, i <= j
        PROVE  IsPrefix(D[i].typed, D[j].typed)
    <3>1. CASE j < n
      <4>1. i \in 0 .. n - 1 /\ j \in 0 .. n - 1
        BY <1>1, <2>3, <3>1
      <4> QED
        BY <1>5, <2>1, <4>1
    <3>2. CASE j = n /\ i < n
      <4>1. i \in 0 .. n - 1
        BY <1>1, <3>2
      <4> QED
        BY <1>4, <1>5, <1>6, <3>2, <4>1
    <3>3. CASE i = n /\ j = n
      BY <1>4, <2>2, <3>3
    <3> QED
      BY <1>1, <2>3, <3>1, <3>2, <3>3
  <2> QED
    BY <2>3 DEF Grows, n
<1>11. Run(D, s, d, Decoded(d, s))
  BY <1>4, <1>7, <1>8, <1>9, <1>10 DEF Run, n
<1> QED
  BY <1>11 DEF Reaches
-----------------------------------------------------------------------------
(* Lemmas: what the codes of the keys do.                                  *)

LEMMA CodeBytes ==
  /\ E0 \in Bytes
  /\ \A k \in DOMAIN Codes : Codes[k].make \in Seq(Bytes) /\ Codes[k].break \in Seq(Bytes)
  /\ Special \subseteq Seq(Bytes)
<1>1. \A k \in DOMAIN Codes : Codes[k].make \in Seq(Bytes) /\ Codes[k].break \in Seq(Bytes)
  BY BytesAssumption
<1>2. "KPEN" \in DOMAIN Codes /\ "PRTSCR" \in DOMAIN Codes /\ "PAUSE" \in DOMAIN Codes
  BY DEF Codes
<1>3. Codes["KPEN"].make = <<E0, \h1C>> /\ Codes["PRTSCR"].make = PrintScreen
      /\ Codes["PAUSE"].make = PauseBreak
  BY DEF Codes, Extended
<1>4. E0 \in Bytes
  <2>1. <<E0, \h1C>> \in Seq(Bytes) /\ Len(<<E0, \h1C>>) = 2 /\ <<E0, \h1C>>[1] = E0 /\ 1 \in 1 .. 2
    <3>1. <<E0, \h1C>> \in Seq(Bytes)
      BY <1>1, <1>2, <1>3
    <3> QED
      BY <3>1
  <2> QED
    BY <2>1, ElementOfSeq
<1>5. Special \subseteq Seq(Bytes)
  BY <1>1, <1>2, <1>3 DEF Special
<1> QED
  BY <1>1, <1>4, <1>5

LEMMA MoreMeans ==
  ASSUME NEW s \in Seq(Bytes)
  PROVE  WantsMore(s) <=> \E p \in Special : Len(s) < Len(p) /\ \A i \in 1 .. Len(s) : s[i] = p[i]
<1>1. ASSUME NEW p \in Special
      PROVE  IsStrictPrefix(s, p) <=> Len(s) < Len(p) /\ \A i \in 1 .. Len(s) : s[i] = p[i]
  <2>1. p \in Seq(Bytes)
    BY CodeBytes
  <2>2. Len(s) \in Nat /\ Len(p) \in Nat
    BY <2>1, LenProperties
  <2>3. IsPrefix(s, p) <=> Len(s) <= Len(p) /\ \A i \in 1 .. Len(s) : s[i] = p[i]
    BY <2>1, PrefixMeans
  <2>4. ASSUME Len(s) = Len(p), \A i \in 1 .. Len(s) : s[i] = p[i] PROVE s = p
    BY <2>1, <2>4, SeqEqual
  <2> QED
    BY <2>2, <2>3, <2>4 DEF IsStrictPrefix
<1> QED
  BY <1>1 DEF WantsMore

\* The codes that keyboard_read takes for several bytes.
LEMMA SpecialBytes ==
  /\ Special = {PrintScreen, <<E0, \hB7, E0, \hAA>>, PauseBreak}
  /\ Len(PrintScreen) = 4 /\ PrintScreen[1] = E0 /\ PrintScreen[2] = \h2A
  /\ PrintScreen[3] = E0 /\ PrintScreen[4] = \h37
  /\ Len(<<E0, \hB7, E0, \hAA>>) = 4 /\ <<E0, \hB7, E0, \hAA>>[1] = E0
  /\ <<E0, \hB7, E0, \hAA>>[2] = \hB7 /\ <<E0, \hB7, E0, \hAA>>[3] = E0
  /\ <<E0, \hB7, E0, \hAA>>[4] = \hAA
  /\ Len(PauseBreak) = 6 /\ PauseBreak[1] = \hE1
<1>1. Codes["PRTSCR"].break = <<E0, \hB7, E0, \hAA>>
  BY DEF Codes
<1>2. Special = {PrintScreen, <<E0, \hB7, E0, \hAA>>, PauseBreak}
  BY <1>1 DEF Special
<1> QED
  BY <1>2 DEF PrintScreen, PauseBreak

LEMMA SingleRuns ==
  ASSUME NEW d \in Readings, d.part = <<>>, NEW b \in Bytes, b \notin {E0, \hE1}
  PROVE  <<b>> \notin Special /\ Reaches(<<b>>, d, Decoded(d, <<b>>))
<1> DEFINE s == <<b>>
<1>1. s \in Seq(Bytes) /\ s # <<>> /\ Len(s) = 1 /\ s[1] = b
  OBVIOUS
<1> HIDE DEF s
<1>2. s \notin Special
  BY <1>1, SpecialBytes
<1>3. ~WantsMore(s)
  <2>1. \A p \in Special : p[1] \in {E0, \hE1}
    BY SpecialBytes
  <2>2. 1 \in 1 .. Len(s)
    BY <1>1
  <2>3. \A p \in Special : s[1] # p[1]
    BY <1>1, <2>1
  <2>4. \A p \in Special : ~\A i \in 1 .. Len(s) : s[i] = p[i]
    BY <2>2, <2>3, Zenon
  <2>5. s \in Seq(Bytes)
    BY <1>1
  <2>6. WantsMore(s) <=> \E p \in Special : Len(s) < Len(p) /\ \A i \in 1 .. Len(s) : s[i] = p[i]
    BY <2>5, MoreMeans
  <2> QED
    BY <2>4, <2>6, Zenon
<1>4. \A i \in 1 .. Len(s) - 1 : WantsMore(SubSeq(s, 1, i))
  BY <1>1
<1>5. \A i \in 2 .. Len(s) : s[i] # ACK
  BY <1>1
<1>6. Reaches(s, d, Decoded(d, s))
  BY <1>1, <1>3, <1>4, <1>5, RunCode
<1> QED
  BY <1>2, <1>6 DEF s

\* E0 alone is not a code.
LEMMA E0Wants == WantsMore(<<E0>>)
<1>1. <<E0>> \in Seq(Bytes) /\ Len(<<E0>>) = 1 /\ <<E0>>[1] = E0
  BY CodeBytes
<1>2. PrintScreen \in Special /\ Len(PrintScreen) = 4 /\ PrintScreen[1] = E0
  BY SpecialBytes
<1>3. Len(<<E0>>) < Len(PrintScreen) /\ \A i \in 1 .. Len(<<E0>>) : <<E0>>[i] = PrintScreen[i]
  BY <1>1, <1>2
<1> QED
  BY <1>1, <1>2, <1>3, MoreMeans

LEMMA ExtendedRuns ==
  ASSUME NEW d \in Readings, d.part = <<>>, NEW b \in Bytes, b \notin {\h2A, \hB7, ACK}
  PROVE  <<E0, b>> \notin Special /\ Reaches(<<E0, b>>, d, Decoded(d, <<E0, b>>))
<1> DEFINE s == <<E0, b>>
<1>1. s \in Seq(Bytes) /\ s # <<>> /\ Len(s) = 2 /\ s[1] = E0 /\ s[2] = b /\ SubSeq(s, 1, 1) = <<E0>>
  <2>1. s \in Seq(Bytes) /\ s # <<>> /\ Len(s) = 2 /\ s[1] = E0 /\ s[2] = b
    BY CodeBytes
  <2>2. 1 \in 1 .. Len(s) /\ 1 \in 1 .. 1
    BY <2>1
  <2>3. SubSeq(s, 1, 1) = <<s[1]>> \o SubSeq(s, 2, 1)
    BY <2>1, <2>2, SubSeqRecursiveFirst
  <2>4. SubSeq(s, 2, 1) = <<>>
    BY SubSeqEmpty
  <2>5. <<E0>> \in Seq(Bytes)
    BY CodeBytes
  <2>6. <<E0>> \o <<>> = <<E0>>
    BY <2>5, ConcatEmptySeq
  <2>7. SubSeq(s, 1, 1) = <<E0>>
    BY <2>1, <2>3, <2>4, <2>6, Zenon
  <2> QED
    BY <2>1, <2>7, Zenon
<1> HIDE DEF s
<1>2. s \notin Special
  <2>0. \A p \in Special : Len(p) \in {4, 6}
    BY SpecialBytes
  <2>1. \A p \in Special : Len(p) # 2
    <3>1. \A n \in {4, 6} : n # 2
      OBVIOUS
    <3> QED
      BY <2>0, <3>1, Zenon
  <2>2. Len(s) = 2
    BY <1>1
  <2> QED
    BY <2>1, <2>2, Zenon
<1>3. ~WantsMore(s)
  <2>1. \A p \in Special : p[1] = \hE1 \/ p[2] \in {\h2A, \hB7}
    BY SpecialBytes
  <2>2. 1 \in 1 .. Len(s) /\ 2 \in 1 .. Len(s) /\ E0 # \hE1
    BY <1>1 DEF E0
  <2>3. \A p \in Special : s[1] # p[1] \/ s[2] # p[2]
    BY <1>1, <2>1, <2>2
  <2>4. \A p \in Special : ~\A i \in 1 .. Len(s) : s[i] = p[i]
    BY <2>2, <2>3, Zenon
  <2>5. s \in Seq(Bytes)
    BY <1>1
  <2>6. WantsMore(s) <=> \E p \in Special : Len(s) < Len(p) /\ \A i \in 1 .. Len(s) : s[i] = p[i]
    BY <2>5, MoreMeans
  <2> QED
    BY <2>4, <2>6, Zenon
<1>4. \A i \in 1 .. Len(s) - 1 : WantsMore(SubSeq(s, 1, i))
  <2>1. \A i \in 1 .. Len(s) - 1 : i = 1
    <3>1. Len(s) = 2
      BY <1>1
    <3> QED
      BY <3>1
  <2>2. WantsMore(SubSeq(s, 1, 1))
    BY <1>1, E0Wants, Zenon
  <2> QED
    BY <2>1, <2>2, Zenon
<1>5. \A i \in 2 .. Len(s) : s[i] # ACK
  BY <1>1
<1>6. Reaches(s, d, Decoded(d, s))
  BY <1>1, <1>3, <1>4, <1>5, RunCode
<1> QED
  BY <1>2, <1>6 DEF s

LEMMA PartsWant ==
  ASSUME NEW s \in Seq(Bytes), NEW p \in Special, Len(s) <= Len(p),
         \A i \in 1 .. Len(s) - 1 : s[i] = p[i]
  PROVE  \A i \in 1 .. Len(s) - 1 : WantsMore(SubSeq(s, 1, i))
<1> SUFFICES ASSUME NEW i \in 1 .. Len(s) - 1 PROVE WantsMore(SubSeq(s, 1, i))
  OBVIOUS
<1>1. Len(s) \in Nat /\ Len(p) \in Nat /\ 1 \in Int /\ i \in Int
  BY CodeBytes, LenProperties
<1>2. \A j \in 1 .. i : s[j] \in Bytes /\ s[j] = p[j]
  <2>1. \A j \in 1 .. i : j \in 1 .. Len(s) /\ j \in 1 .. Len(s) - 1
    BY <1>1
  <2> QED
    BY <2>1, ElementOfSeq
<1>3. /\ SubSeq(s, 1, i) \in Seq(Bytes)
      /\ Len(SubSeq(s, 1, i)) = IF 1 <= i THEN i - 1 + 1 ELSE 0
      /\ \A j \in 1 .. i - 1 + 1 : SubSeq(s, 1, i)[j] = s[1 + j - 1]
  BY <1>1, <1>2, SubSeqProperties
<1> DEFINE q == SubSeq(s, 1, i)
<1>4. q \in Seq(Bytes) /\ Len(q) = i /\ \A j \in 1 .. i : q[j] = s[j]
  BY <1>1, <1>3
<1> HIDE DEF q
<1>5. Len(q) < Len(p) /\ \A j \in 1 .. Len(q) : q[j] = p[j]
  BY <1>1, <1>2, <1>4
<1>6. WantsMore(q)
  BY <1>4, <1>5, MoreMeans
<1> QED
  BY <1>6 DEF q

LEMMA SpecialRuns ==
  ASSUME NEW d \in Readings, d.part = <<>>, NEW p \in Special
  PROVE  Reaches(p, d, d)
<1>1. p \in Seq(Bytes) /\ (Len(p) = 4 \/ Len(p) = 6) /\ Len(p) \in Nat
  <2>1. Len(p) = 4 \/ Len(p) = 6
    BY SpecialBytes
  <2> QED
    BY <2>1, CodeBytes
<1>2. p # <<>>
  <2>1. p = <<>> => Len(p) = 0
    BY EmptySeq
  <2>2. 4 # 0 /\ 6 # 0
    OBVIOUS
  <2> QED
    BY <1>1, <2>1, <2>2, Zenon
<1>3. \A i \in 1 .. Len(p) - 1 : WantsMore(SubSeq(p, 1, i))
  BY <1>1, PartsWant
<1>4. ~WantsMore(p)
  <2>1. ASSUME NEW q \in Special, Len(p) < Len(q), \A i \in 1 .. Len(p) : p[i] = q[i]
        PROVE  FALSE
    <3>1. q = PauseBreak /\ p # PauseBreak
      <4>1. q # PauseBreak => Len(q) = 4
        BY SpecialBytes
      <4>2. ~(4 < 4) /\ ~(6 < 4) /\ ~(6 < 6)
        OBVIOUS
      <4>3. Len(PauseBreak) = 6
        BY SpecialBytes
      <4> QED
        BY <1>1, <2>1, <4>1, <4>2, <4>3, Zenon
    <3>2. q[1] = \hE1 /\ p[1] = E0
      BY <3>1, SpecialBytes
    <3>3. 1 \in 1 .. Len(p)
      <4>1. 1 \in 1 .. 4 /\ 1 \in 1 .. 6
        OBVIOUS
      <4> QED
        BY <1>1, <4>1, Zenon
    <3>4. E0 # \hE1
      BY DEF E0
    <3> QED
      BY <2>1, <3>2, <3>3, <3>4
  <2> QED
    BY <1>1, <2>1, MoreMeans
<1>5. \A i \in 2 .. Len(p) : p[i] # ACK
  <2>1. CASE p = PrintScreen
    <3>1. \A i \in 2 .. 4 : i \in {2, 3, 4}
      OBVIOUS
    <3> QED
      BY <2>1, <3>1, SpecialBytes DEF ACK, E0
  <2>2. CASE p = <<E0, \hB7, E0, \hAA>>
    <3>1. \A i \in 2 .. 4 : i \in {2, 3, 4}
      OBVIOUS
    <3> QED
      BY <2>2, <3>1, SpecialBytes DEF ACK, E0
  <2>3. CASE p = PauseBreak
    <3>1. /\ PauseBreak[2] = \h1D /\ PauseBreak[3] = \h45 /\ PauseBreak[4] = \hE1
          /\ PauseBreak[5] = \h9D /\ PauseBreak[6] = \hC5 /\ Len(PauseBreak) = 6
      BY DEF PauseBreak
    <3>2. \A i \in 2 .. 6 : i \in {2, 3, 4, 5, 6}
      OBVIOUS
    <3> QED
      BY <2>3, <3>1, <3>2 DEF ACK
  <2> QED
    BY <2>1, <2>2, <2>3, SpecialBytes
<1>6. Reaches(p, d, Decoded(d, p))
  BY <1>1, <1>2, <1>3, <1>4, <1>5, RunCode
<1>7. Decoded(d, p) = d
  <2>1. d = [part |-> d.part, mods |-> d.mods, locks |-> d.locks, typed |-> d.typed]
        /\ d.typed \in Seq(Int)
    BY DEF Readings
  <2>2. d.typed \o <<>> = d.typed
    BY <2>1, ConcatEmptySeq
  <2> QED
    BY <2>1, <2>2 DEF Decoded, ModsAfter, LocksAfter, NewlyTyped
<1> QED
  BY <1>6, <1>7

\* The code that a shift code is put around for the arrow key is not that of
\* PrintScreen.
Faked == <<E0, \h2A, E0, \h48>>

LEMMA FakedRuns ==
  ASSUME NEW d \in Readings, d.part = <<>>
  PROVE  Faked \notin Special /\ Reaches(Faked, d, Decoded(d, Faked))
<1>1. Codes["UPFAKE"].make = Faked /\ "UPFAKE" \in DOMAIN Codes
  BY DEF Codes, Faked
<1>2. /\ Len(Faked) = 4 /\ Faked[1] = E0 /\ Faked[2] = \h2A /\ Faked[3] = E0 /\ Faked[4] = \h48
      /\ Faked # <<>>
  BY DEF Faked
<1>3. Faked \in Seq(Bytes)
  BY <1>1, CodeBytes
<1>4. \A q \in Special : q[1] = E0 => q[4] # \h48 /\ Len(q) = 4
  BY SpecialBytes DEF E0
<1>5. Faked \notin Special
  BY <1>2, <1>4
<1>6. PrintScreen \in Special /\ Len(PrintScreen) = 4 /\ PrintScreen[1] = E0
      /\ PrintScreen[2] = \h2A /\ PrintScreen[3] = E0
  BY SpecialBytes
<1>7. \A i \in 1 .. Len(Faked) - 1 : WantsMore(SubSeq(Faked, 1, i))
  <2>1. \A i \in 1 .. 4 - 1 : i \in {1, 2, 3}
    OBVIOUS
  <2>2. Len(Faked) <= Len(PrintScreen) /\ \A i \in 1 .. Len(Faked) - 1 : Faked[i] = PrintScreen[i]
    BY <1>2, <1>6, <2>1
  <2> QED
    BY <1>3, <1>6, <2>2, PartsWant
<1>8. ~WantsMore(Faked)
  <2>1. ASSUME NEW q \in Special, Len(Faked) < Len(q), \A i \in 1 .. Len(Faked) : Faked[i] = q[i]
        PROVE  FALSE
    <3>1. 1 \in 1 .. Len(Faked)
      BY <1>2
    <3>2. Len(q) = 4
      BY <1>2, <1>4, <2>1, <3>1
    <3> QED
      BY <1>2, <2>1, <3>2
  <2> QED
    BY <1>3, <2>1, MoreMeans
<1>9. \A i \in 2 .. Len(Faked) : Faked[i] # ACK
  <2>1. \A i \in 2 .. 4 : i \in {2, 3, 4}
    OBVIOUS
  <2> QED
    BY <1>2, <2>1 DEF ACK, E0
<1>10. Reaches(Faked, d, Decoded(d, Faked))
  BY <1>2, <1>3, <1>7, <1>8, <1>9, RunCode
<1> QED
  BY <1>5, <1>10

\* A code, its break code, and both behind E0, are in one row of keymap.
LEMMA CodeRows ==
  ASSUME NEW b \in 0 .. \h7F
  PROVE  /\ MadeOf(<<b>>) /\ RowOf(<<b>>) = keymap(b) /\ <<b>>[1] # E0
         /\ b # \h60 => /\ ~MadeOf(<<b + \h80>>) /\ RowOf(<<b + \h80>>) = keymap(b)
                        /\ <<b + \h80>>[1] # E0
         /\ MadeOf(<<E0, b>>) /\ RowOf(<<E0, b>>) = keymap(b)
         /\ ~MadeOf(<<E0, b + \h80>>) /\ RowOf(<<E0, b + \h80>>) = keymap(b)
<1>1. b % \h80 = b /\ (b + \h80) % \h80 = b
  OBVIOUS
<1>2. b < \h80 /\ ~(b + \h80 < \h80) /\ b # E0 /\ (b # \h60 => b + \h80 # E0)
  BY DEF E0
<1>3. \A c : <<c>>[1] = c /\ <<E0, c>>[1] = E0 /\ <<E0, c>>[2] = c
  OBVIOUS
<1>4. \A c : c # E0 => ScanOf(<<c>>) = c
  BY <1>3 DEF ScanOf
<1>5. \A c : ScanOf(<<E0, c>>) = c
  BY <1>3 DEF ScanOf
<1>6. \A c : c # E0 => (MadeOf(<<c>>) <=> c < \h80) /\ RowOf(<<c>>) = keymap(c % \h80)
  <2>1. ASSUME NEW c, c # E0
        PROVE  (MadeOf(<<c>>) <=> c < \h80) /\ RowOf(<<c>>) = keymap(c % \h80)
    <3>1. ScanOf(<<c>>) = c
      BY <1>4, <2>1
    <3> QED
      BY <3>1 DEF MadeOf, RowOf
  <2> QED
    BY <2>1
<1>7. \A c : (MadeOf(<<E0, c>>) <=> c < \h80) /\ RowOf(<<E0, c>>) = keymap(c % \h80)
  BY <1>5, Zenon DEF MadeOf, RowOf
<1>8. MadeOf(<<b>>) /\ RowOf(<<b>>) = keymap(b) /\ <<b>>[1] # E0
  BY <1>1, <1>2, <1>3, <1>6
<1>9. b # \h60 => /\ ~MadeOf(<<b + \h80>>) /\ RowOf(<<b + \h80>>) = keymap(b)
                  /\ <<b + \h80>>[1] # E0
  BY <1>1, <1>2, <1>3, <1>6
<1>10. /\ MadeOf(<<E0, b>>) /\ RowOf(<<E0, b>>) = keymap(b)
       /\ ~MadeOf(<<E0, b + \h80>>) /\ RowOf(<<E0, b + \h80>>) = keymap(b)
  BY <1>1, <1>2, <1>7
<1> QED
  BY <1>8, <1>9, <1>10

\* The rows of the keys.
LEMMA Rows ==
  /\ keymap(\h1E) = <<97, 65, 0>> /\ keymap(\h1C) = <<ENTER, ENTER, PAD_ENTER>>
  /\ keymap(\h0E) = <<BACKSPACE, BACKSPACE, 0>> /\ keymap(\h2A) = <<SHIFT_L, SHIFT_L, 0>>
  /\ keymap(\h36) = <<SHIFT_R, SHIFT_R, 0>> /\ keymap(\h1D) = <<CTRL_L, CTRL_L, CTRL_R>>
  /\ keymap(\h38) = <<ALT_L, ALT_L, ALT_R>> /\ keymap(\h3A) = <<CAPS_LOCK, CAPS_LOCK, 0>>
  /\ keymap(\h45) = <<NUM_LOCK, NUM_LOCK, 0>> /\ keymap(\h48) = <<PAD_8, 56, UP>>
  /\ keymap(\h7A) = <<0, 0, 0>>
BY DEF keymap

\* The modifier keys come first, then the lock keys.
LEMMA KeyNumbers ==
  /\ \A key \in Int : /\ key \in SHIFT_L .. ALT_R <=> 264 <= key /\ key <= 269
                      /\ key \in CAPS_LOCK .. SCROLL_LOCK <=> 270 <= key /\ key <= 272
                      /\ key \in SHIFT_L .. SCROLL_LOCK <=> 264 <= key /\ key <= 272
                      /\ key \in PAD_0 .. PAD_0 + 9 <=> 306 <= key /\ key <= 315
  /\ SHIFT_L = 264 /\ SHIFT_R = 265 /\ CTRL_L = 266 /\ CTRL_R = 267 /\ ALT_L = 268 /\ ALT_R = 269
  /\ CAPS_LOCK = 270 /\ NUM_LOCK = 271 /\ ENTER = 259 /\ BACKSPACE = 260 /\ UP = 293
  /\ PAD_ENTER = 304 /\ PAD_0 = 306 /\ PAD_8 = 314 /\ FLAG_EXT = 256
BY DEF SHIFT_L, SHIFT_R, CTRL_L, CTRL_R, ALT_L, ALT_R, CAPS_LOCK, NUM_LOCK, SCROLL_LOCK, ENTER,
       BACKSPACE, UP, PAD_ENTER, PAD_0, PAD_8, FLAG_EXT

LEMMA ReadingFields ==
  ASSUME NEW d \in Readings
  PROVE  /\ d = [part |-> d.part, mods |-> d.mods, locks |-> d.locks, typed |-> d.typed]
         /\ d.part \in Seq(Bytes) /\ d.mods \subseteq Int /\ d.locks \subseteq Int
         /\ d.typed \in Seq(Int) /\ d.typed \o <<>> = d.typed
<1>1. d.typed \in Seq(Int)
  BY DEF Readings
<1>2. d.typed \o <<>> = d.typed
  BY <1>1, ConcatEmptySeq
<1> QED
  BY <1>2 DEF Readings

\* What keys of each kind do.
LEMMA TypesKey ==
  ASSUME NEW d \in Readings, NEW t, t \notin Special, NEW key \in Int, key = KeyOf(d, t),
         ~(264 <= key /\ key <= 272)
  PROVE  /\ d.part = <<>> /\ ~MadeOf(t) => Decoded(d, t) = d
         /\ MadeOf(t) => Decoded(d, t) = [part |-> <<>>, mods |-> d.mods, locks |-> d.locks,
                                          typed |-> d.typed \o InProcess(UnpaddedOf(d, key))]
<1>1. key \notin SHIFT_L .. ALT_R /\ key \notin CAPS_LOCK .. SCROLL_LOCK
      /\ key \notin SHIFT_L .. SCROLL_LOCK
  BY KeyNumbers
<1>2. ModsAfter(d, t, key) = d.mods /\ LocksAfter(d, t, key) = d.locks
  BY <1>1, Zenon DEF ModsAfter, LocksAfter
<1>3. NewlyTyped(d, t, key) = IF MadeOf(t) THEN InProcess(UnpaddedOf(d, key)) ELSE <<>>
  BY <1>1, Zenon DEF NewlyTyped
<1>4. Decoded(d, t) = [part |-> <<>>, mods |-> d.mods, locks |-> d.locks,
                       typed |-> d.typed \o NewlyTyped(d, t, key)]
  BY <1>2, Zenon DEF Decoded
<1> QED
  BY <1>3, <1>4, ReadingFields, Zenon

LEMMA LocksKey ==
  ASSUME NEW d \in Readings, NEW t, t \notin Special, NEW key \in Int, key = KeyOf(d, t),
         270 <= key /\ key <= 272
  PROVE  /\ d.part = <<>> /\ ~MadeOf(t) => Decoded(d, t) = d
         /\ MadeOf(t) => Decoded(d, t) =
              [part |-> <<>>, mods |-> d.mods, typed |-> d.typed,
               locks |-> IF key \in d.locks THEN d.locks \ {key} ELSE d.locks \cup {key}]
<1>1. key \notin SHIFT_L .. ALT_R /\ key \in CAPS_LOCK .. SCROLL_LOCK /\ key \in SHIFT_L .. SCROLL_LOCK
  BY KeyNumbers
<1>2. ModsAfter(d, t, key) = d.mods /\ NewlyTyped(d, t, key) = <<>>
  BY <1>1, Zenon DEF ModsAfter, NewlyTyped
<1>3. LocksAfter(d, t, key) = IF ~MadeOf(t) THEN d.locks
        ELSE IF key \in d.locks THEN d.locks \ {key} ELSE d.locks \cup {key}
  BY <1>1, Zenon DEF LocksAfter
<1>4. Decoded(d, t) = [part |-> <<>>, mods |-> d.mods, locks |-> LocksAfter(d, t, key),
                       typed |-> d.typed]
  BY <1>2, ReadingFields, Zenon DEF Decoded
<1> QED
  BY <1>3, <1>4, ReadingFields

LEMMA ModifiesKey ==
  ASSUME NEW d \in Readings, NEW t, t \notin Special, NEW key \in Int, key = KeyOf(d, t),
         264 <= key /\ key <= 269
  PROVE  Decoded(d, t) =
           [part |-> <<>>, locks |-> d.locks, typed |-> d.typed,
            mods |-> IF MadeOf(t) THEN d.mods \cup {Flag(key)} ELSE d.mods \ {Flag(key)}]
<1>1. key \in SHIFT_L .. ALT_R /\ key \notin CAPS_LOCK .. SCROLL_LOCK /\ key \in SHIFT_L .. SCROLL_LOCK
  BY KeyNumbers
<1>2. LocksAfter(d, t, key) = d.locks /\ NewlyTyped(d, t, key) = <<>>
  BY <1>1, Zenon DEF LocksAfter, NewlyTyped
<1>3. ModsAfter(d, t, key) = IF MadeOf(t) THEN d.mods \cup {Flag(key)} ELSE d.mods \ {Flag(key)}
  BY <1>1, Zenon DEF ModsAfter
<1>4. Decoded(d, t) = [part |-> <<>>, mods |-> ModsAfter(d, t, key), locks |-> d.locks,
                       typed |-> d.typed]
  BY <1>2, ReadingFields, Zenon DEF Decoded
<1> QED
  BY <1>3, <1>4

LEMMA KeyOfTwo ==
  ASSUME NEW d, NEW b, b \in 0 .. \h7F
  PROVE  KeyOf(d, <<E0, b>>) = keymap(b)[3] /\ KeyOf(d, <<E0, b + \h80>>) = keymap(b)[3]
<1>1. RowOf(<<E0, b>>) = keymap(b) /\ RowOf(<<E0, b + \h80>>) = keymap(b)
  BY CodeRows
<1>2. \A c : <<E0, c>>[1] = E0
  OBVIOUS
<1> QED
  BY <1>1, <1>2, Zenon DEF KeyOf

(* The reader's flags are those of the user: no code is half read, and the *)
(* modifier and lock flags tell which keys are down and which locks on.    *)
Agree(d, h, s) ==
  /\ d.part = <<>>
  /\ SHIFT_L \in d.mods <=> "LSHIFT" \in h
  /\ SHIFT_R \in d.mods <=> "RSHIFT" \in h
  /\ CTRL_R \in d.mods <=> "RCTRL" \in h
  /\ CAPS_LOCK \in d.locks <=> "CAPS" \in s
  /\ NUM_LOCK \in d.locks <=> "NUM" \in s

\* The bytes s lead from d to flags for h and locked, with w typed.
Ends(s, d, h, locked, w) == \E e \in Readings : Reaches(s, d, e) /\ Agree(e, h, locked) /\ e.typed = w

\* Keys without a flag.
FlagKeys == {"LSHIFT", "RSHIFT", "RCTRL"}

LEMMA AgreeOther ==
  ASSUME NEW d, NEW e, NEW k, NEW h, NEW s, Agree(d, h, s), k \notin FlagKeys,
         e.part = <<>>, e.mods = d.mods, e.locks = d.locks
  PROVE  Agree(e, h, s) /\ Agree(e, h \cup {k}, s) /\ Agree(e, h \ {k}, s)
BY DEF Agree, FlagKeys

\* The make and the break code of a key.
Makes(d, m, key) == /\ m \notin Special /\ Reaches(m, d, Decoded(d, m))
                    /\ MadeOf(m) /\ key = KeyOf(d, m)
Breaks(d, n, key) == /\ n \notin Special /\ Reaches(n, d, Decoded(d, n))
                     /\ ~MadeOf(n) /\ key = KeyOf(d, n)
HasCodes(d, k, key) == Makes(d, Codes[k].make, key) /\ Breaks(d, Codes[k].break, key)

\* A key has a code of its own, or one behind E0.
OfOne(d, k, b, key) ==
  /\ Codes[k] = Single(b) /\ b \in 0 .. \h7F /\ b \notin {\h60, \h61}
  /\ CapsOf(d, keymap(b)) => key = keymap(b)[2]
  /\ ~CapsOf(d, keymap(b)) => key = keymap(b)[1]
OfTwo(k, b, key) ==
  /\ Codes[k] = Extended(b) /\ b \in 0 .. \h7F /\ b \notin {\h2A, \h37, \h7A}
  /\ key = keymap(b)[3]

LEMMA SingleCodes ==
  ASSUME NEW d \in Readings, d.part = <<>>, NEW k \in DOMAIN Codes, NEW b, NEW key, OfOne(d, k, b, key)
  PROVE  HasCodes(d, k, key)
<1>1. /\ Codes[k] = Single(b) /\ b \in 0 .. \h7F /\ b \notin {\h60, \h61}
      /\ CapsOf(d, keymap(b)) => key = keymap(b)[2]
      /\ ~CapsOf(d, keymap(b)) => key = keymap(b)[1]
  BY DEF OfOne
<1>2. Codes[k].make = <<b>> /\ Codes[k].break = <<b + \h80>>
  BY <1>1 DEF Single
<1>3. b \in Bytes /\ b + \h80 \in Bytes
  <2>1. <<b>> \in Seq(Bytes) /\ <<b + \h80>> \in Seq(Bytes)
    BY <1>2, CodeBytes
  <2> QED
    BY <2>1
<1>4. b \notin {E0, \hE1} /\ b + \h80 \notin {E0, \hE1} /\ b # \h60
  BY <1>1 DEF E0
<1>5. <<b>> \notin Special /\ Reaches(<<b>>, d, Decoded(d, <<b>>))
  BY <1>3, <1>4, SingleRuns
<1>6. <<b + \h80>> \notin Special /\ Reaches(<<b + \h80>>, d, Decoded(d, <<b + \h80>>))
  <2> DEFINE c == b + \h80
  <2>1. c \in Bytes /\ c \notin {E0, \hE1}
    BY <1>3, <1>4
  <2> HIDE DEF c
  <2>2. <<c>> \notin Special /\ Reaches(<<c>>, d, Decoded(d, <<c>>))
    BY <2>1, SingleRuns
  <2> QED
    BY <2>2 DEF c
<1>7. key = KeyOf(d, <<b>>) /\ key = KeyOf(d, <<b + \h80>>)
  <2>0. b \in 0 .. \h7F /\ b # \h60
    BY <1>1, <1>4
  <2>1. /\ RowOf(<<b>>) = keymap(b) /\ <<b>>[1] # E0
        /\ RowOf(<<b + \h80>>) = keymap(b) /\ <<b + \h80>>[1] # E0
    BY <2>0, CodeRows
  <2>2. CASE CapsOf(d, keymap(b))
    <3>1. KeyOf(d, <<b>>) = keymap(b)[2] /\ KeyOf(d, <<b + \h80>>) = keymap(b)[2]
      BY <2>1, <2>2, Zenon DEF KeyOf
    <3> QED
      BY <1>1, <2>2, <3>1
  <2>3. CASE ~CapsOf(d, keymap(b))
    <3>1. KeyOf(d, <<b>>) = keymap(b)[1] /\ KeyOf(d, <<b + \h80>>) = keymap(b)[1]
      BY <2>1, <2>3, Zenon DEF KeyOf
    <3> QED
      BY <1>1, <2>3, <3>1
  <2> QED
    BY <2>2, <2>3
<1>8. MadeOf(<<b>>) /\ ~MadeOf(<<b + \h80>>)
  BY <1>1, <1>4, CodeRows, Zenon
<1> QED
  BY <1>2, <1>5, <1>6, <1>7, <1>8, Zenon DEF HasCodes, Makes, Breaks

LEMMA ExtendedCodes ==
  ASSUME NEW d \in Readings, d.part = <<>>, NEW k \in DOMAIN Codes, NEW b, NEW key, OfTwo(k, b, key)
  PROVE  HasCodes(d, k, key)
<1>1. /\ Codes[k] = Extended(b) /\ b \in 0 .. \h7F /\ b \notin {\h2A, \h37, \h7A}
      /\ key = keymap(b)[3]
  BY DEF OfTwo
<1>2. Codes[k].make = <<E0, b>> /\ Codes[k].break = <<E0, b + \h80>>
  BY <1>1 DEF Extended
<1>3. b \in Bytes /\ b + \h80 \in Bytes
  <2>1. <<E0, b>> \in Seq(Bytes) /\ <<E0, b + \h80>> \in Seq(Bytes)
    BY <1>2, CodeBytes
  <2> QED
    BY <2>1
<1>4. b \notin {\h2A, \hB7, ACK} /\ b + \h80 \notin {\h2A, \hB7, ACK}
  BY <1>1 DEF ACK
<1>5. \A c \in {b, b + \h80} : <<E0, c>> \notin Special /\ Reaches(<<E0, c>>, d, Decoded(d, <<E0, c>>))
  BY <1>3, <1>4, ExtendedRuns
<1>6. key = KeyOf(d, <<E0, b>>) /\ key = KeyOf(d, <<E0, b + \h80>>)
  <2>1. b \in 0 .. \h7F
    BY <1>1
  <2>2. KeyOf(d, <<E0, b>>) = keymap(b)[3] /\ KeyOf(d, <<E0, b + \h80>>) = keymap(b)[3]
    BY <2>1, KeyOfTwo, Zenon
  <2> QED
    BY <1>1, <2>2
<1>7. MadeOf(<<E0, b>>) /\ ~MadeOf(<<E0, b + \h80>>)
  BY <1>1, CodeRows, Zenon
<1> QED
  BY <1>2, <1>5, <1>6, <1>7, Zenon DEF HasCodes, Makes, Breaks

\* A key that types w.
Puts(d, key, w) == key \in Int /\ ~(264 <= key /\ key <= 272) /\ InProcess(UnpaddedOf(d, key)) = w

LEMMA TypingEnds ==
  ASSUME NEW d \in Readings, NEW h, NEW locked, Agree(d, h, locked),
         NEW k, k \notin FlagKeys, NEW key, HasCodes(d, k, key),
         NEW w, Puts(d, key, w)
  PROVE  /\ Ends(Codes[k].make, d, h \cup {k}, locked, d.typed \o w)
         /\ Ends(Codes[k].break, d, h \ {k}, locked, d.typed)
<1> USE DEF Puts
<1> DEFINE m == Codes[k].make   n == Codes[k].break   e == Decoded(d, m)
<1>1. d.part = <<>> /\ Makes(d, m, key) /\ Breaks(d, n, key)
  BY DEF Agree, HasCodes
<1> HIDE DEF m, n
<1>2. Decoded(d, m) = [part |-> <<>>, mods |-> d.mods, locks |-> d.locks, typed |-> d.typed \o w]
      /\ Decoded(d, n) = d
  BY <1>1, TypesKey DEF Makes, Breaks
<1>3. e.part = <<>> /\ e.mods = d.mods /\ e.locks = d.locks /\ e.typed = d.typed \o w
  BY <1>2
<1>4. e \in Readings
  BY DecodedReading
<1> HIDE DEF e
<1>5. Agree(e, h \cup {k}, locked) /\ Agree(d, h \ {k}, locked)
  BY <1>1, <1>3, AgreeOther
<1>6. Reaches(m, d, e)
  BY <1>1 DEF e, Makes
<1>7. Reaches(n, d, d)
  BY <1>1, <1>2 DEF Breaks
<1>8. Ends(m, d, h \cup {k}, locked, d.typed \o w) /\ Ends(n, d, h \ {k}, locked, d.typed)
  BY <1>3, <1>4, <1>5, <1>6, <1>7, Zenon DEF Ends
<1> QED
  BY <1>8 DEF m, n

\* A key that has a flag of keyboard_read set while it is down.
Modifies(k, key, flag) ==
  /\ key \in Int /\ 264 <= key /\ key <= 269 /\ flag = Flag(key)
  /\ <<k, flag>> \in {<<"LSHIFT", SHIFT_L>>, <<"RSHIFT", SHIFT_R>>, <<"RCTRL", CTRL_R>>,
                      <<"LALT", ALT_L>>, <<"RALT", ALT_L>>}

\* A modifier key.
LEMMA ModifierEnds ==
  ASSUME NEW d \in Readings, NEW h, NEW locked, Agree(d, h, locked),
         NEW k, NEW key, HasCodes(d, k, key), NEW flag, Modifies(k, key, flag)
  PROVE  /\ Ends(Codes[k].make, d, h \cup {k}, locked, d.typed)
         /\ Ends(Codes[k].break, d, h \ {k}, locked, d.typed)
<1>0. /\ key \in Int /\ 264 <= key /\ key <= 269 /\ flag = Flag(key)
      /\ <<k, flag>> \in {<<"LSHIFT", SHIFT_L>>, <<"RSHIFT", SHIFT_R>>, <<"RCTRL", CTRL_R>>,
                          <<"LALT", ALT_L>>, <<"RALT", ALT_L>>}
  BY DEF Modifies
<1> DEFINE m == Codes[k].make   n == Codes[k].break   e == Decoded(d, m)   f == Decoded(d, n)
<1>1. Makes(d, m, key) /\ Breaks(d, n, key)
  BY DEF HasCodes
<1> HIDE DEF m, n
<1>2. /\ e = [part |-> <<>>, locks |-> d.locks, typed |-> d.typed, mods |-> d.mods \cup {flag}]
      /\ f = [part |-> <<>>, locks |-> d.locks, typed |-> d.typed, mods |-> d.mods \ {flag}]
  BY <1>0, <1>1, ModifiesKey DEF Makes, Breaks
<1>3. /\ e.part = <<>> /\ e.locks = d.locks /\ e.typed = d.typed /\ e.mods = d.mods \cup {flag}
      /\ f.part = <<>> /\ f.locks = d.locks /\ f.typed = d.typed /\ f.mods = d.mods \ {flag}
  BY <1>2
<1>4. e \in Readings /\ f \in Readings
  BY DecodedReading
<1>5. Reaches(m, d, e) /\ Reaches(n, d, f)
  BY <1>1 DEF Makes, Breaks
<1> HIDE DEF e, f
<1>6. Agree(e, h \cup {k}, locked) /\ Agree(f, h \ {k}, locked)
  BY <1>0, <1>3, KeyNumbers DEF Agree
<1>7. Ends(m, d, h \cup {k}, locked, d.typed) /\ Ends(n, d, h \ {k}, locked, d.typed)
  BY <1>3, <1>4, <1>5, <1>6, Zenon DEF Ends
<1> QED
  BY <1>7 DEF m, n

\* A lock key.
LEMMA LockEnds ==
  ASSUME NEW d \in Readings, Agree(d, held, seen),
         NEW k, NEW key \in Int, HasCodes(d, k, key),
         <<k, key>> \in {<<"CAPS", CAPS_LOCK>>, <<"NUM", NUM_LOCK>>}
  PROVE  /\ Ends(Codes[k].make, d, held \cup {k}, Toggled(k), d.typed)
         /\ Ends(Codes[k].break, d, held \ {k}, seen, d.typed)
<1> DEFINE m == Codes[k].make   n == Codes[k].break   e == Decoded(d, m)
<1>1. d.part = <<>> /\ Makes(d, m, key) /\ Breaks(d, n, key) /\ 270 <= key /\ key <= 272
  BY KeyNumbers DEF HasCodes, Agree
<1> HIDE DEF m, n
<1>2. /\ e = [part |-> <<>>, mods |-> d.mods, typed |-> d.typed,
              locks |-> IF key \in d.locks THEN d.locks \ {key} ELSE d.locks \cup {key}]
      /\ Decoded(d, n) = d
  BY <1>1, LocksKey DEF Makes, Breaks
<1>3. /\ e.part = <<>> /\ e.mods = d.mods /\ e.typed = d.typed
      /\ e.locks = IF key \in d.locks THEN d.locks \ {key} ELSE d.locks \cup {key}
  BY <1>2
<1>4. e \in Readings
  BY DecodedReading
<1>5. Reaches(m, d, e) /\ Reaches(n, d, d)
  BY <1>1, <1>2 DEF Makes, Breaks
<1> HIDE DEF e
<1>6. Agree(e, held \cup {k}, Toggled(k)) /\ Agree(d, held \ {k}, seen)
  BY <1>3, KeyNumbers DEF Agree, Toggled
<1>7. Ends(m, d, held \cup {k}, Toggled(k), d.typed) /\ Ends(n, d, held \ {k}, seen, d.typed)
  BY <1>3, <1>4, <1>5, <1>6, Zenon DEF Ends
<1> QED
  BY <1>7 DEF m, n

\* The keys that type, and the arrow key.
LEMMA PlainKeys ==
  ASSUME NEW d \in Readings, Agree(d, held, seen),
         NEW k \in {"A", "ENTER", "BKSP", "KP8", "KPEN", "UP"}
  PROVE  /\ Ends(Codes[k].make, d, held \cup {k}, seen, d.typed \o Typing(k))
         /\ Ends(Codes[k].break, d, held \ {k}, seen, d.typed)
<1>1. k \in DOMAIN Codes /\ k \notin FlagKeys /\ d.part = <<>>
  BY DEF Codes, FlagKeys, Agree
<1>2. ShiftOf(d) <=> Shifted
  BY DEF Agree, ShiftOf, Shifted
<1>3. /\ InProcess(65) = <<65>> /\ InProcess(97) = <<97>> /\ InProcess(259) = <<10>>
      /\ InProcess(260) = <<8>> /\ InProcess(56) = <<56>> /\ InProcess(293) = <<>>
  BY KeyNumbers DEF InProcess
<1>4. /\ UnpaddedOf(d, 65) = 65 /\ UnpaddedOf(d, 97) = 97 /\ UnpaddedOf(d, 259) = 259
      /\ UnpaddedOf(d, 260) = 260 /\ UnpaddedOf(d, 56) = 56 /\ UnpaddedOf(d, 293) = 293
      /\ UnpaddedOf(d, 304) = 259
      /\ UnpaddedOf(d, 314) = IF NUM_LOCK \in d.locks THEN 56 ELSE 293
  BY KeyNumbers DEF UnpaddedOf
<1>5. \A key \in {65, 97, 259, 260, 56, 293, 304, 314} : key \in Int /\ ~(264 <= key /\ key <= 272)
  OBVIOUS
<1>6. CASE k = "A"
  <2>1. Codes[k] = Single(\h1E) /\ \h1E \in 0 .. \h7F /\ \h1E \notin {\h60, \h61}
    BY <1>6 DEF Codes
  <2>2. keymap(\h1E)[1] = 97 /\ keymap(\h1E)[2] = 65
    BY Rows
  <2>3. CapsOf(d, keymap(\h1E)) <=> (Shifted # ("CAPS" \in seen))
    <3>1. keymap(\h1E)[1] \in 97 .. 122
      BY <2>2
    <3>2. CAPS_LOCK \in d.locks <=> "CAPS" \in seen
      BY DEF Agree
    <3> QED
      BY <1>2, <3>1, <3>2 DEF CapsOf, ShiftOf, Shifted
  <2>4. Typing(k) = IF Shifted # ("CAPS" \in seen) THEN <<65>> ELSE <<97>>
    BY <1>6 DEF Typing
  <2>5. CASE CapsOf(d, keymap(\h1E))
    <3>1. Typing(k) = <<65>>
      BY <2>3, <2>4, <2>5, Zenon
    <3>2. Puts(d, 65, Typing(k))
      BY <1>3, <1>4, <3>1 DEF Puts
    <3>3. OfOne(d, k, \h1E, 65)
      BY <2>1, <2>2, <2>5, <3>2 DEF OfOne
    <3>4. HasCodes(d, k, 65)
      BY <1>1, <3>3, SingleCodes
    <3> QED
      BY <1>1, <3>2, <3>4, TypingEnds, Zenon
  <2>6. CASE ~CapsOf(d, keymap(\h1E))
    <3>1. Typing(k) = <<97>>
      BY <2>3, <2>4, <2>6, Zenon
    <3>2. Puts(d, 97, Typing(k))
      BY <1>3, <1>4, <3>1 DEF Puts
    <3>3. OfOne(d, k, \h1E, 97)
      BY <2>1, <2>2, <2>6, <3>2 DEF OfOne
    <3>4. HasCodes(d, k, 97)
      BY <1>1, <3>3, SingleCodes
    <3> QED
      BY <1>1, <3>2, <3>4, TypingEnds, Zenon
  <2> QED
    BY <2>5, <2>6
<1>7. CASE k = "ENTER"
  <2>1. Codes[k] = Single(\h1C) /\ \h1C \in 0 .. \h7F /\ \h1C \notin {\h60, \h61}
    BY <1>7 DEF Codes
  <2>2. keymap(\h1C)[1] = 259 /\ keymap(\h1C)[2] = 259
    BY Rows, KeyNumbers
  <2>3. Puts(d, 259, Typing(k))
    BY <1>3, <1>4, <1>7 DEF Typing, LF, Puts
  <2>4. OfOne(d, k, \h1C, 259)
    BY <2>1, <2>2, <2>3 DEF OfOne
  <2>5. HasCodes(d, k, 259)
    BY <1>1, <2>4, SingleCodes
  <2> QED
    BY <1>1, <2>3, <2>5, TypingEnds, Zenon
<1>8. CASE k = "BKSP"
  <2>1. Codes[k] = Single(\h0E) /\ \h0E \in 0 .. \h7F /\ \h0E \notin {\h60, \h61}
    BY <1>8 DEF Codes
  <2>2. keymap(\h0E)[1] = 260 /\ keymap(\h0E)[2] = 260
    BY Rows, KeyNumbers
  <2>3. Puts(d, 260, Typing(k))
    BY <1>3, <1>4, <1>8 DEF Typing, BS, Puts
  <2>4. OfOne(d, k, \h0E, 260)
    BY <2>1, <2>2, <2>3 DEF OfOne
  <2>5. HasCodes(d, k, 260)
    BY <1>1, <2>4, SingleCodes
  <2> QED
    BY <1>1, <2>3, <2>5, TypingEnds, Zenon
<1>9. CASE k = "KP8"
  <2>1. Codes[k] = Single(\h48) /\ \h48 \in 0 .. \h7F /\ \h48 \notin {\h60, \h61}
    BY <1>9 DEF Codes
  <2>2. keymap(\h48)[1] = 314 /\ keymap(\h48)[2] = 56
    BY Rows, KeyNumbers
  <2>3. CapsOf(d, keymap(\h48)) <=> Shifted
    <3>1. keymap(\h48)[1] \notin 97 .. 122
      BY <2>2
    <3> QED
      BY <1>2, <3>1 DEF CapsOf, ShiftOf, Shifted
  <2>4. Typing(k) = IF Shifted \/ "NUM" \in seen THEN <<56>> ELSE <<>>
    BY <1>9 DEF Typing
  <2>5. NUM_LOCK \in d.locks <=> "NUM" \in seen
    BY DEF Agree
  <2>6. CASE Shifted
    <3>1. Puts(d, 56, Typing(k))
      BY <1>3, <1>4, <2>4, <2>6 DEF Puts
    <3>2. OfOne(d, k, \h48, 56)
      BY <2>1, <2>2, <2>3, <2>6, <3>1 DEF OfOne
    <3>3. HasCodes(d, k, 56)
      BY <1>1, <3>2, SingleCodes
    <3> QED
      BY <1>1, <3>1, <3>3, TypingEnds, Zenon
  <2>7. CASE ~Shifted
    <3>1. Typing(k) = IF "NUM" \in seen THEN <<56>> ELSE <<>>
      BY <2>4, <2>7
    <3>2. InProcess(UnpaddedOf(d, 314)) = Typing(k)
      <4>1. CASE "NUM" \in seen
        <5>1. UnpaddedOf(d, 314) = 56
          BY <1>4, <2>5, <4>1, Zenon
        <5>2. InProcess(56) = <<56>>
          BY <1>3, Zenon
        <5> QED
          BY <3>1, <4>1, <5>1, <5>2, Zenon
      <4>2. CASE "NUM" \notin seen
        <5>1. UnpaddedOf(d, 314) = 293
          BY <1>4, <2>5, <4>2, Zenon
        <5>2. InProcess(293) = <<>>
          BY <1>3, Zenon
        <5> QED
          BY <3>1, <4>2, <5>1, <5>2, Zenon
      <4> QED
        BY <4>1, <4>2
    <3>3. Puts(d, 314, Typing(k))
      BY <3>2 DEF Puts
    <3>4. OfOne(d, k, \h48, 314)
      BY <2>1, <2>2, <2>3, <2>7, <3>2, <3>3 DEF OfOne
    <3>5. HasCodes(d, k, 314)
      BY <1>1, <3>4, SingleCodes
    <3> QED
      BY <1>1, <3>3, <3>5, TypingEnds, Zenon
  <2> QED
    BY <2>6, <2>7
<1>10. CASE k = "KPEN"
  <2>1. Codes[k] = Extended(\h1C) /\ \h1C \in 0 .. \h7F /\ \h1C \notin {\h2A, \h37, \h7A}
    BY <1>10 DEF Codes
  <2>2. keymap(\h1C)[3] = 304
    BY Rows, KeyNumbers
  <2>3. Puts(d, 304, Typing(k))
    BY <1>3, <1>4, <1>10 DEF Typing, LF, Puts
  <2>4. OfTwo(k, \h1C, 304)
    BY <2>1, <2>2, <2>3 DEF OfTwo
  <2>5. HasCodes(d, k, 304)
    BY <1>1, <2>4, ExtendedCodes
  <2> QED
    BY <1>1, <2>3, <2>5, TypingEnds, Zenon
<1>11. CASE k = "UP"
  <2>1. Codes[k] = Extended(\h48) /\ \h48 \in 0 .. \h7F /\ \h48 \notin {\h2A, \h37, \h7A}
    BY <1>11 DEF Codes
  <2>2. keymap(\h48)[3] = 293
    BY Rows, KeyNumbers
  <2>3. Puts(d, 293, Typing(k))
    BY <1>3, <1>4, <1>11 DEF Typing, Puts
  <2>4. OfTwo(k, \h48, 293)
    BY <2>1, <2>2, <2>3 DEF OfTwo
  <2>5. HasCodes(d, k, 293)
    BY <1>1, <2>4, ExtendedCodes
  <2> QED
    BY <1>1, <2>3, <2>5, TypingEnds, Zenon
<1> QED
  BY <1>6, <1>7, <1>8, <1>9, <1>10, <1>11

\* The modifier and lock keys.
LEMMA FlaggedKeys ==
  ASSUME NEW d \in Readings, Agree(d, held, seen),
         NEW k \in {"LSHIFT", "RSHIFT", "LALT", "RCTRL", "RALT", "CAPS", "NUM"}
  PROVE  /\ Ends(Codes[k].make, d, held \cup {k}, Toggled(k), d.typed)
         /\ Ends(Codes[k].break, d, held \ {k}, seen, d.typed)
<1>1. k \in DOMAIN Codes /\ d.part = <<>>
  BY DEF Codes, Agree
<1>2. k \notin {"CAPS", "NUM"} => Toggled(k) = seen
  BY DEF Toggled
<1>3. CASE k = "LSHIFT"
  <2>1. OfOne(d, k, \h2A, 264)
    BY <1>3, Rows, KeyNumbers DEF Codes, OfOne
  <2>2. HasCodes(d, k, 264)
    BY <1>1, <2>1, SingleCodes
  <2>3. Modifies(k, 264, SHIFT_L)
    BY <1>3, KeyNumbers DEF Modifies, Flag
  <2>4. /\ Ends(Codes[k].make, d, held \cup {k}, seen, d.typed)
        /\ Ends(Codes[k].break, d, held \ {k}, seen, d.typed)
    BY <2>2, <2>3, ModifierEnds, Zenon
  <2>5. Toggled(k) = seen
    BY <1>2, <1>3
  <2> QED
    BY <2>4, <2>5
<1>4. CASE k = "RSHIFT"
  <2>1. OfOne(d, k, \h36, 265)
    BY <1>4, Rows, KeyNumbers DEF Codes, OfOne
  <2>2. HasCodes(d, k, 265)
    BY <1>1, <2>1, SingleCodes
  <2>3. Modifies(k, 265, SHIFT_R)
    BY <1>4, KeyNumbers DEF Modifies, Flag
  <2>4. /\ Ends(Codes[k].make, d, held \cup {k}, seen, d.typed)
        /\ Ends(Codes[k].break, d, held \ {k}, seen, d.typed)
    BY <2>2, <2>3, ModifierEnds, Zenon
  <2>5. Toggled(k) = seen
    BY <1>2, <1>4
  <2> QED
    BY <2>4, <2>5
<1>5. CASE k = "LALT"
  <2>1. OfOne(d, k, \h38, 268)
    BY <1>5, Rows, KeyNumbers DEF Codes, OfOne
  <2>2. HasCodes(d, k, 268)
    BY <1>1, <2>1, SingleCodes
  <2>3. Modifies(k, 268, ALT_L)
    BY <1>5, KeyNumbers DEF Modifies, Flag
  <2>4. /\ Ends(Codes[k].make, d, held \cup {k}, seen, d.typed)
        /\ Ends(Codes[k].break, d, held \ {k}, seen, d.typed)
    BY <2>2, <2>3, ModifierEnds, Zenon
  <2>5. Toggled(k) = seen
    BY <1>2, <1>5
  <2> QED
    BY <2>4, <2>5
<1>6. CASE k = "RCTRL"
  <2>1. OfTwo(k, \h1D, 267)
    BY <1>6, Rows, KeyNumbers DEF Codes, OfTwo
  <2>2. HasCodes(d, k, 267)
    BY <1>1, <2>1, ExtendedCodes
  <2>3. Modifies(k, 267, CTRL_R)
    BY <1>6, KeyNumbers DEF Modifies, Flag
  <2>4. /\ Ends(Codes[k].make, d, held \cup {k}, seen, d.typed)
        /\ Ends(Codes[k].break, d, held \ {k}, seen, d.typed)
    BY <2>2, <2>3, ModifierEnds, Zenon
  <2>5. Toggled(k) = seen
    BY <1>2, <1>6
  <2> QED
    BY <2>4, <2>5
<1>7. CASE k = "RALT"
  <2>1. OfTwo(k, \h38, 269)
    BY <1>7, Rows, KeyNumbers DEF Codes, OfTwo
  <2>2. HasCodes(d, k, 269)
    BY <1>1, <2>1, ExtendedCodes
  <2>3. Modifies(k, 269, ALT_L)
    BY <1>7, KeyNumbers DEF Modifies, Flag
  <2>4. /\ Ends(Codes[k].make, d, held \cup {k}, seen, d.typed)
        /\ Ends(Codes[k].break, d, held \ {k}, seen, d.typed)
    BY <2>2, <2>3, ModifierEnds, Zenon
  <2>5. Toggled(k) = seen
    BY <1>2, <1>7
  <2> QED
    BY <2>4, <2>5
<1>8. CASE k = "CAPS"
  <2>1. OfOne(d, k, \h3A, CAPS_LOCK)
    BY <1>8, Rows, KeyNumbers DEF Codes, OfOne
  <2>2. HasCodes(d, k, CAPS_LOCK) /\ CAPS_LOCK \in Int
    BY <1>1, <2>1, SingleCodes, KeyNumbers
  <2> QED
    BY <1>8, <2>2, LockEnds
<1>9. CASE k = "NUM"
  <2>1. OfOne(d, k, \h45, NUM_LOCK)
    BY <1>9, Rows, KeyNumbers DEF Codes, OfOne
  <2>2. HasCodes(d, k, NUM_LOCK) /\ NUM_LOCK \in Int
    BY <1>1, <2>1, SingleCodes, KeyNumbers
  <2> QED
    BY <1>9, <2>2, LockEnds
<1> QED
  BY <1>3, <1>4, <1>5, <1>6, <1>7, <1>8, <1>9

\* The keys with codes of several bytes.
LEMMA LongKeys ==
  ASSUME NEW d \in Readings, Agree(d, held, seen), NEW k \in {"PRTSCR", "PAUSE"}
  PROVE  Reaches(Codes[k].make, d, d) /\ Reaches(Codes[k].break, d, d)
<1>1. d.part = <<>>
  BY DEF Agree
<1>2. /\ Codes["PRTSCR"].make \in Special /\ Codes["PRTSCR"].break \in Special
      /\ Codes["PAUSE"].make \in Special /\ Codes["PAUSE"].break = <<>>
  BY DEF Codes, Special
<1>3. \A p \in Special : Reaches(p, d, d)
  BY <1>1, SpecialRuns
<1>4. Reaches(<<>>, d, d)
  BY RunNothing
<1> QED
  BY <1>2, <1>3, <1>4

\* Two pairs in a row.
LEMMA TwoPairs ==
  ASSUME NEW a, NEW b, NEW c, NEW d
  PROVE  <<a, b>> \o <<c, d>> = <<a, b, c, d>>
<1> DEFINE S == {a, b, c, d}   s == <<a, b>>   t == <<c, d>>   u == <<a, b, c, d>>
<1>1. /\ s \in Seq(S) /\ t \in Seq(S) /\ u \in Seq(S) /\ Len(s) = 2 /\ Len(t) = 2 /\ Len(u) = 4
      /\ s[1] = a /\ s[2] = b /\ t[1] = c /\ t[2] = d
      /\ u[1] = a /\ u[2] = b /\ u[3] = c /\ u[4] = d
  OBVIOUS
<1> HIDE DEF S, s, t, u
<1>2. /\ s \o t \in Seq(S) /\ Len(s \o t) = 4
      /\ \A i \in 1 .. 4 : (s \o t)[i] = IF i <= 2 THEN s[i] ELSE t[i - 2]
  <2>1. /\ s \o t \in Seq(S) /\ Len(s \o t) = Len(s) + Len(t)
        /\ \A i \in 1 .. Len(s) + Len(t) : (s \o t)[i] = IF i <= Len(s) THEN s[i] ELSE t[i - Len(s)]
    BY <1>1, ConcatProperties
  <2> QED
    BY <1>1, <2>1
<1>3. \A i \in 1 .. 4 : (s \o t)[i] = u[i]
  BY <1>1, <1>2
<1>4. s \o t = u
  BY <1>1, <1>2, <1>3, SeqEqual
<1> QED
  BY <1>4 DEF s, t, u

\* The arrow key within shift codes: keyboard_read takes the first byte of
\* its make code for a key, and neither part of its break code.
LEMMA FakedKey ==
  ASSUME NEW d \in Readings, Agree(d, held, seen)
  PROVE  /\ Ends(Codes["UPFAKE"].make, d, held \cup {"UPFAKE"}, seen, d.typed \o <<NUL>>)
         /\ Reaches(Codes["UPFAKE"].break, d, d)
<1>1. d.part = <<>>
  BY DEF Agree
<1>2. Codes["UPFAKE"].make = Faked /\ Codes["UPFAKE"].break = <<E0, \hC8, E0, \hAA>>
  BY DEF Codes, Faked
<1>3. Ends(Codes["UPFAKE"].make, d, held \cup {"UPFAKE"}, seen, d.typed \o <<NUL>>)
  <2> DEFINE e == Decoded(d, Faked)
  <2>1. Faked \notin Special /\ Reaches(Faked, d, e)
    BY <1>1, FakedRuns
  <2>2. Faked[1] = E0 /\ Faked[2] = \h2A
    BY DEF Faked
  <2>3. ScanOf(Faked) = \h2A
    BY <2>2 DEF ScanOf
  <2>4. MadeOf(Faked) /\ RowOf(Faked) = keymap(\h2A)
    BY <2>3 DEF MadeOf, RowOf
  <2>5. 0 = KeyOf(d, Faked)
    BY <2>2, <2>4, Rows DEF KeyOf
  <2>6. UnpaddedOf(d, 0) = 0 /\ InProcess(0) = <<NUL>>
    BY KeyNumbers DEF UnpaddedOf, InProcess, NUL
  <2>7. e = [part |-> <<>>, mods |-> d.mods, locks |-> d.locks, typed |-> d.typed \o <<NUL>>]
    <3>1. 0 \in Int /\ ~(264 <= 0 /\ 0 <= 272)
      OBVIOUS
    <3>2. e = [part |-> <<>>, mods |-> d.mods, locks |-> d.locks,
               typed |-> d.typed \o InProcess(UnpaddedOf(d, 0))]
      BY <2>1, <2>4, <2>5, <3>1, TypesKey, Zenon
    <3> QED
      BY <2>6, <3>2
  <2>8. e \in Readings
    BY DecodedReading
  <2>9. e.part = <<>> /\ e.mods = d.mods /\ e.locks = d.locks /\ e.typed = d.typed \o <<NUL>>
    BY <2>7
  <2> HIDE DEF e
  <2>10. Agree(e, held \cup {"UPFAKE"}, seen)
    <3>1. "UPFAKE" \notin FlagKeys
      BY DEF FlagKeys
    <3> QED
      BY <2>9, <3>1, AgreeOther
  <2> QED
    BY <1>2, <2>1, <2>8, <2>9, <2>10 DEF Ends
<1>4. Reaches(Codes["UPFAKE"].break, d, d)
  <2>1. \hC8 \in Bytes /\ \hAA \in Bytes
    <3>1. "UPFAKE" \in DOMAIN Codes
      BY DEF Codes
    <3>2. <<E0, \hC8, E0, \hAA>> \in Seq(Bytes)
      BY <1>2, <3>1, CodeBytes
    <3> QED
      BY <3>2
  <2>2. \A c \in {\hC8, \hAA} : <<E0, c>> \notin Special /\ Reaches(<<E0, c>>, d, Decoded(d, <<E0, c>>))
    BY <1>1, <2>1, ExtendedRuns DEF ACK
  <2>3. /\ ~MadeOf(<<E0, \hC8>>) /\ ~MadeOf(<<E0, \hAA>>)
        /\ KeyOf(d, <<E0, \hC8>>) = 293 /\ KeyOf(d, <<E0, \hAA>>) = 0
    <3>1. \h48 + \h80 = \hC8 /\ \h2A + \h80 = \hAA /\ \h48 \in 0 .. \h7F /\ \h2A \in 0 .. \h7F
      OBVIOUS
    <3>2. /\ <<E0, \hC8>>[1] = E0 /\ <<E0, \hC8>>[2] = \hC8
          /\ <<E0, \hAA>>[1] = E0 /\ <<E0, \hAA>>[2] = \hAA
      OBVIOUS
    <3>3. ScanOf(<<E0, \hC8>>) = \hC8 /\ ScanOf(<<E0, \hAA>>) = \hAA
      BY <3>2, Zenon DEF ScanOf
    <3>4. ~(\hC8 < \h80) /\ ~(\hAA < \h80) /\ \hC8 % \h80 = \h48 /\ \hAA % \h80 = \h2A
      OBVIOUS
    <3>5. ~MadeOf(<<E0, \hC8>>) /\ ~MadeOf(<<E0, \hAA>>)
      BY <3>3, <3>4 DEF MadeOf
    <3>6. RowOf(<<E0, \hC8>>) = keymap(\h48) /\ RowOf(<<E0, \hAA>>) = keymap(\h2A)
      BY <3>3, <3>4 DEF RowOf
    <3>7. KeyOf(d, <<E0, \hC8>>) = keymap(\h48)[3] /\ KeyOf(d, <<E0, \hAA>>) = keymap(\h2A)[3]
      BY <3>2, <3>6, Zenon DEF KeyOf
    <3>8. keymap(\h48)[3] = 293 /\ keymap(\h2A)[3] = 0
      BY Rows, KeyNumbers
    <3> QED
      BY <3>5, <3>7, <3>8
  <2>4. Decoded(d, <<E0, \hC8>>) = d /\ Decoded(d, <<E0, \hAA>>) = d
    <3>1. ~(264 <= 293 /\ 293 <= 272) /\ ~(264 <= 0 /\ 0 <= 272) /\ 293 \in Int /\ 0 \in Int
      OBVIOUS
    <3> QED
      BY <1>1, <2>2, <2>3, <3>1, TypesKey
  <2>5. <<E0, \hC8>> \in Seq(Bytes) /\ <<E0, \hAA>> \in Seq(Bytes)
    BY <2>1, CodeBytes
  <2>6. Reaches(<<E0, \hC8>> \o <<E0, \hAA>>, d, d)
    <3> DEFINE s == <<E0, \hC8>>   u == <<E0, \hAA>>
    <3>1. Reaches(s, d, d) /\ Reaches(u, d, d)
      BY <2>2, <2>4
    <3>2. s \in Seq(Bytes) /\ u \in Seq(Bytes)
      BY <2>5
    <3> HIDE DEF s, u
    <3>3. Reaches(s \o u, d, d)
      BY <3>1, <3>2, RunConcat
    <3> QED
      BY <3>3 DEF s, u
  <2>7. <<E0, \hC8>> \o <<E0, \hAA>> = <<E0, \hC8, E0, \hAA>>
    BY TwoPairs
  <2> QED
    BY <1>2, <2>6, <2>7
<1> QED
  BY <1>3, <1>4

\* Each key does to the reader what the user takes it to do.
HeldAfter(k) == IF k = "PAUSE" THEN held ELSE held \cup {k}

LEMMA KeysEnd ==
  ASSUME NEW d \in Readings, Agree(d, held, seen), NEW k \in DOMAIN Codes
  PROVE  /\ Ends(Codes[k].make, d, HeldAfter(k), Toggled(k), d.typed \o Typing(k))
         /\ Ends(Codes[k].break, d, held \ {k}, seen, d.typed)
<1>1. d.typed \o <<>> = d.typed
  BY ReadingFields
<1>2. DOMAIN Codes = {"A", "ENTER", "BKSP", "LSHIFT", "RSHIFT", "LALT", "CAPS", "NUM", "KP8", "KPEN",
                      "RCTRL", "UP", "RALT", "UPFAKE", "PRTSCR", "PAUSE"}
  BY DEF Codes
<1>3. CASE k \in {"A", "ENTER", "BKSP", "KP8", "KPEN", "UP"}
  <2>1. HeldAfter(k) = held \cup {k} /\ Toggled(k) = seen
    BY <1>3 DEF HeldAfter, Toggled
  <2> QED
    BY <1>3, <2>1, PlainKeys
<1>4. CASE k \in {"LSHIFT", "RSHIFT", "LALT", "RCTRL", "RALT", "CAPS", "NUM"}
  <2>1. HeldAfter(k) = held \cup {k} /\ Typing(k) = <<>>
    BY <1>4 DEF HeldAfter, Typing
  <2> QED
    BY <1>1, <1>4, <2>1, FlaggedKeys
<1>5. CASE k \in {"PRTSCR", "PAUSE"}
  <2>1. Typing(k) = <<>> /\ Toggled(k) = seen /\ HeldAfter(k) \in {held, held \cup {k}}
    BY <1>5 DEF HeldAfter, Typing, Toggled
  <2>2. Agree(d, HeldAfter(k), seen) /\ Agree(d, held \ {k}, seen)
    <3>1. k \notin FlagKeys /\ d.part = <<>>
      BY <1>5 DEF FlagKeys, Agree
    <3>2. Agree(d, held \cup {k}, seen) /\ Agree(d, held \ {k}, seen)
      BY <3>1, AgreeOther
    <3>3. CASE HeldAfter(k) = held
      BY <3>2, <3>3
    <3>4. CASE HeldAfter(k) = held \cup {k}
      BY <3>2, <3>4
    <3> QED
      BY <2>1, <3>3, <3>4
  <2> QED
    BY <1>1, <1>5, <2>1, <2>2, LongKeys DEF Ends
<1>6. CASE k = "UPFAKE"
  <2>1. Typing(k) = <<NUL>> /\ Toggled(k) = seen /\ HeldAfter(k) = held \cup {k}
    BY <1>6 DEF HeldAfter, Typing, Toggled
  <2>2. Agree(d, held \ {k}, seen)
    <3>1. k \notin FlagKeys /\ d.part = <<>>
      BY <1>6 DEF FlagKeys, Agree
    <3> QED
      BY <3>1, AgreeOther
  <2> QED
    BY <1>6, <2>1, <2>2, FakedKey DEF Ends
<1> QED
  BY <1>2, <1>3, <1>4, <1>5, <1>6
-----------------------------------------------------------------------------
(* Lemmas: bytes that come and go.                                         *)

\* An acknowledge that the reader takes for a key does nothing.
LEMMA AckRuns ==
  ASSUME NEW d \in Readings, d.part = <<>>
  PROVE  Reaches(<<ACK>>, d, d)
<1>1. ACK \in Bytes /\ ACK \notin {E0, \hE1}
  BY BytesAssumption DEF ACK, E0
<1>2. <<ACK>> \notin Special /\ Reaches(<<ACK>>, d, Decoded(d, <<ACK>>))
  BY <1>1, SingleRuns
<1>3. <<ACK>>[1] = ACK
  OBVIOUS
<1>4. ScanOf(<<ACK>>) = ACK
  BY <1>1, <1>3 DEF ScanOf
<1>5. ~(ACK < \h80) /\ ACK % \h80 = \h7A
  BY DEF ACK
<1>6. ~MadeOf(<<ACK>>)
  BY <1>4, <1>5 DEF MadeOf
<1>7. RowOf(<<ACK>>) = <<0, 0, 0>>
  <2>1. keymap(\h7A) = <<0, 0, 0>>
    BY DEF keymap
  <2> QED
    BY <1>4, <1>5, <2>1 DEF RowOf
<1>8. 0 = KeyOf(d, <<ACK>>)
  <2>1. <<0, 0, 0>>[1] = 0 /\ <<0, 0, 0>>[2] = 0 /\ <<0, 0, 0>>[3] = 0
    OBVIOUS
  <2> QED
    BY <1>7, <2>1 DEF KeyOf
<1>9. 0 \in Int /\ ~(264 <= 0 /\ 0 <= 272)
  OBVIOUS
<1>10. Decoded(d, <<ACK>>) = d
  BY <1>2, <1>6, <1>8, <1>9, TypesKey, Zenon
<1> QED
  BY <1>2, <1>10

LEMMA AckAfter ==
  ASSUME NEW s \in Seq(Bytes), NEW d, NEW h, NEW locked, NEW w, Ends(s, d, h, locked, w)
  PROVE  Ends(s \o <<ACK>>, d, h, locked, w)
<1>1. PICK e \in Readings : Reaches(s, d, e) /\ Agree(e, h, locked) /\ e.typed = w
  BY DEF Ends
<1>2. Reaches(<<ACK>>, e, e)
  BY <1>1, AckRuns DEF Agree
<1>3. <<ACK>> \in Seq(Bytes)
  BY BytesAssumption
<1>4. Reaches(s \o <<ACK>>, d, e)
  BY <1>1, <1>2, <1>3, RunConcat, Zenon
<1> QED
  BY <1>1, <1>4, Zenon DEF Ends

\* kb_ack reads an acknowledge from the port.
LEMMA AckWithout ==
  ASSUME NEW s \in Seq(Bytes), NEW t \in Seq(Bytes), NEW d, NEW h, NEW locked, NEW w,
         Ends((s \o <<ACK>>) \o t, d, h, locked, w)
  PROVE  Ends(s \o t, d, h, locked, w)
<1> DEFINE a == <<ACK>>
<1>1. a \in Seq(Bytes) /\ s \o a \in Seq(Bytes)
  BY BytesAssumption, ConcatProperties
<1>2. PICK e \in Readings : Reaches((s \o a) \o t, d, e) /\ Agree(e, h, locked) /\ e.typed = w
  BY DEF Ends
<1>3. PICK b \in Readings : Reaches(s \o a, d, b) /\ Reaches(t, b, e)
  BY <1>1, <1>2, RunSplit, Zenon
<1>4. PICK c \in Readings : Reaches(s, d, c) /\ Reaches(a, c, b)
  BY <1>1, <1>3, RunSplit, Zenon
<1>5. b = StepOf(c, ACK) /\ c.part = <<>>
  BY <1>4, RunByte
<1>6. Reaches(a, c, c)
  BY <1>4, <1>5, AckRuns
<1>7. c = StepOf(c, ACK)
  BY <1>6, RunByte
<1> HIDE DEF a
<1>8. Reaches(t, c, e)
  BY <1>3, <1>5, <1>7
<1>9. Reaches(s \o t, d, e)
  BY <1>4, <1>8, RunConcat, Zenon
<1> QED
  BY <1>2, <1>9, Zenon DEF Ends

\* A key is pressed, or let go.
LEMMA KeyAfter ==
  ASSUME NEW s \in Seq(Bytes), NEW d, NEW w, Ends(s, d, held, seen, w), NEW k \in DOMAIN Codes
  PROVE  /\ Ends(s \o Codes[k].make, d, HeldAfter(k), Toggled(k), w \o Typing(k))
         /\ Ends(s \o Codes[k].break, d, held \ {k}, seen, w)
<1>1. PICK e \in Readings : Reaches(s, d, e) /\ Agree(e, held, seen) /\ e.typed = w
  BY DEF Ends
<1> DEFINE m == Codes[k].make   n == Codes[k].break
<1>2. m \in Seq(Bytes) /\ n \in Seq(Bytes)
  BY CodeBytes
<1>3. Ends(m, e, HeldAfter(k), Toggled(k), w \o Typing(k)) /\ Ends(n, e, held \ {k}, seen, w)
  BY <1>1, KeysEnd
<1> HIDE DEF m, n
<1>4. ASSUME NEW u \in Seq(Bytes), NEW h, NEW locked, NEW x, Ends(u, e, h, locked, x)
      PROVE  Ends(s \o u, d, h, locked, x)
  <2>1. PICK f \in Readings : Reaches(u, e, f) /\ Agree(f, h, locked) /\ f.typed = x
    BY <1>4 DEF Ends
  <2>2. Reaches(s \o u, d, f)
    BY <1>1, <2>1, RunConcat, Zenon
  <2> QED
    BY <2>1, <2>2, Zenon DEF Ends
<1>5. Ends(s \o m, d, HeldAfter(k), Toggled(k), w \o Typing(k)) /\ Ends(s \o n, d, held \ {k}, seen, w)
  BY <1>2, <1>3, <1>4, Zenon
<1> QED
  BY <1>5 DEF m, n

\* The reader takes a byte.
LEMMA ByteTaken ==
  ASSUME NEW b \in Bytes, NEW s \in Seq(Bytes), NEW d, NEW h, NEW locked, NEW w,
         Ends(<<b>> \o s, d, h, locked, w)
  PROVE  Ends(s, StepOf(d, b), h, locked, w)
<1>1. <<b>> \in Seq(Bytes)
  OBVIOUS
<1>2. PICK e \in Readings : Reaches(<<b>> \o s, d, e) /\ Agree(e, h, locked) /\ e.typed = w
  BY DEF Ends
<1>3. PICK c \in Readings : Reaches(<<b>>, d, c) /\ Reaches(s, c, e)
  BY <1>1, <1>2, RunSplit, Zenon
<1>4. c = StepOf(d, b)
  BY <1>3, RunByte
<1> QED
  BY <1>2, <1>3, <1>4, Zenon DEF Ends
-----------------------------------------------------------------------------
(* The invariant.  The reader as it stands, with what it has passed on to  *)
(* the console; between the last byte of a code and keyboard_read's        *)
(* decision about it the code counts as decided.                           *)
Passed == printed[Tty] \o text[Tty]
Read == [part |-> taken, mods |-> mods, locks |-> locks, typed |-> Passed \o inbuf]
Now == IF pc = "decode" THEN Decoded(Read, taken) ELSE Read

\* The bytes under way, the next one first.
Port == IF full THEN <<latch>> ELSE <<>>
Stream == (Contents \o Port) \o wire

\* keyboard_read keeps bytes only while it reads, and in_buf never holds more
\* than the character to be written next.
ReaderInv ==
  /\ taken \in Seq(Bytes)
  /\ pc \notin {"more", "hung", "decode"} => taken = <<>>
  /\ inbuf # <<>> => pc = "write" /\ Len(inbuf) = 1

EchoerInv ==
  /\ printed \in [Printers -> Seq(Int)]
  /\ stage[Tty] \in {"idle", "cursor", "aimed"} => text[Tty] = <<>>

\* What is under way brings the reader to where the user takes it to be.
BytesInv == mishap = {} => Ends(Stream, Now, held, seen, want)

EchoInv == ReaderInv /\ EchoerInv /\ BytesInv

LEMMA ReadIsReading ==
  ASSUME TerminalInv, ReaderInv, EchoerInv
  PROVE  /\ Read \in Readings /\ Passed \in Seq(Int) /\ printed[Tty] \in Seq(Int)
         /\ text[Tty] \in Seq(Int) /\ inbuf \in Seq(Int)
<1>1. Tty \in Printers
  BY TerminalAssumption
<1>2. printed[Tty] \in Seq(Int) /\ text[Tty] \in Seq(Int) /\ inbuf \in Seq(Int)
  BY <1>1 DEF TerminalInv, ReaderTyped, ScreenInv, ConsoleTyped, EchoerInv
<1>3. Passed \in Seq(Int) /\ Passed \o inbuf \in Seq(Int)
  BY <1>2, ConcatProperties DEF Passed
<1>4. mods \subseteq Int /\ locks \subseteq Int
  BY KeyNumbers DEF TerminalInv, ReaderTyped
<1>5. taken \in Seq(Bytes)
  BY DEF ReaderInv
<1> QED
  BY <1>2, <1>3, <1>4, <1>5 DEF Read, Readings

LEMMA StreamTyped ==
  ASSUME TerminalInv, RingInv
  PROVE  /\ Stream \in Seq(Bytes) /\ Contents \in Seq(Bytes) /\ Port \in Seq(Bytes)
         /\ wire \in Seq(Bytes) /\ Contents \o Port \in Seq(Bytes) /\ <<latch>> \in Seq(Bytes)
<1>1. wire \in Seq(Bytes) /\ latch \in Bytes
  BY DEF TerminalInv, PortTyped
<1>2. <<latch>> \in Seq(Bytes) /\ <<>> \in Seq(Bytes)
  BY <1>1, EmptySeq
<1>3. Port \in Seq(Bytes)
  BY <1>2 DEF Port
<1>4. Contents \in Seq(Bytes)
  BY ContentsIsSeq
<1>5. Contents \o Port \in Seq(Bytes)
  BY <1>3, <1>4, ConcatProperties
<1>6. (Contents \o Port) \o wire \in Seq(Bytes)
  BY <1>1, <1>5, ConcatProperties
<1> QED
  BY <1>1, <1>2, <1>3, <1>4, <1>5, <1>6 DEF Stream

\* A sequence is its first element and the rest.
LEMMA FirstAndRest ==
  ASSUME NEW S, NEW s \in Seq(S), s # <<>>
  PROVE  /\ Head(s) \in S /\ Tail(s) \in Seq(S) /\ <<Head(s)>> \in Seq(S)
         /\ s = <<Head(s)>> \o Tail(s)
<1> DEFINE h == <<Head(s)>>   t == Tail(s)
<1>1. /\ Head(s) \in S /\ t \in Seq(S) /\ Len(t) = Len(s) - 1
      /\ \A i \in 1 .. Len(t) : t[i] = s[i + 1]
  BY HeadTailProperties
<1>2. h \in Seq(S) /\ Len(h) = 1 /\ h[1] = s[1]
  BY <1>1
<1>3. Len(s) \in Nat \ {0}
  BY EmptySeq, LenProperties
<1> HIDE DEF h, t
<1>4. /\ h \o t \in Seq(S) /\ Len(h \o t) = Len(h) + Len(t)
      /\ \A i \in 1 .. Len(h) + Len(t) : (h \o t)[i] = IF i <= Len(h) THEN h[i] ELSE t[i - Len(h)]
  <2>1. h \in Seq(S) /\ t \in Seq(S)
    BY <1>1, <1>2
  <2> QED
    BY <2>1, ConcatProperties
<1>5. Len(h \o t) = Len(s)
  BY <1>1, <1>2, <1>3, <1>4
<1>6. ASSUME NEW i \in 1 .. Len(s) PROVE (h \o t)[i] = s[i]
  <2>1. CASE i = 1
    BY <1>1, <1>2, <1>3, <1>4, <2>1
  <2>2. CASE i # 1
    <3>1. i \in 1 .. Len(h) + Len(t) /\ ~(i <= Len(h)) /\ i - Len(h) \in 1 .. Len(t)
          /\ (i - Len(h)) + 1 = i
      BY <1>1, <1>2, <1>3, <2>2
    <3> QED
      BY <1>1, <1>4, <3>1
  <2> QED
    BY <2>1, <2>2
<1>7. h \o t = s
  BY <1>4, <1>5, <1>6, SeqEqual
<1> QED
  BY <1>1, <1>2, <1>7 DEF h, t

\* Bytes in a row can be grouped either way.
LEMMA BytesAssociate ==
  ASSUME NEW s \in Seq(Bytes), NEW t \in Seq(Bytes), NEW u \in Seq(Bytes)
  PROVE  (s \o t) \o u = s \o (t \o u)
BY ConcatAssociative

\* What neither the keyboard nor the reader does changes nothing of them.
LEMMA StreamSame == UNCHANGED <<kbVars, latch, full, wire>> => Stream' = Stream
BY DEF Stream, Port, Contents, Slot, kbVars

LEMMA NowSame ==
  ASSUME UNCHANGED <<pc, taken, mods, locks>>, Passed' \o inbuf' = Passed \o inbuf
  PROVE  Now' = Now
<1>1. Read' = Read
  BY Zenon DEF Read
<1> QED
  BY <1>1, Zenon DEF Now

LEMMA PassedSame == UNCHANGED <<printed, text, inbuf>> => Passed' \o inbuf' = Passed \o inbuf
BY DEF Passed

\* The user.
LEMMA UserEchoes ==
  ASSUME TerminalInv, RingInv, EchoInv, NEW k \in DOMAIN Codes, UserPresses(k) \/ UserReleases(k)
  PROVE  EchoInv'
<1>1. /\ UNCHANGED <<kbVars, latch, full, readVars, consoleVars>> /\ mishap = {} /\ mishap' = {}
      /\ wire' \in {wire \o Codes[k].make, wire \o Codes[k].break}
  BY DEF UserPresses, UserReleases, Press, Release
<1>2. Codes[k].make \in Seq(Bytes) /\ Codes[k].break \in Seq(Bytes)
  BY CodeBytes
<1>3. Ends(Stream, Now, held, seen, want)
  BY <1>1 DEF EchoInv, BytesInv
<1>4. /\ wire' = wire \o Codes[k].make => Stream' = Stream \o Codes[k].make
      /\ wire' = wire \o Codes[k].break => Stream' = Stream \o Codes[k].break
  <2>1. Contents' = Contents /\ Port' = Port
    BY <1>1 DEF Contents, Slot, kbVars, Port
  <2>2. ASSUME NEW s \in Seq(Bytes)
        PROVE  (Contents \o Port) \o (wire \o s) = ((Contents \o Port) \o wire) \o s
    <3>1. Contents \o Port \in Seq(Bytes) /\ wire \in Seq(Bytes)
      BY StreamTyped
    <3> QED
      BY <3>1, BytesAssociate, Zenon
  <2> QED
    BY <1>2, <2>1, <2>2 DEF Stream
<1>5. Now' = Now
  BY <1>1, NowSame, PassedSame DEF readVars, consoleVars
<1>6. Ends(Stream', Now', held', seen', want')
  <2>1. CASE UserPresses(k)
    <3>1. /\ wire' = wire \o Codes[k].make /\ held' = HeldAfter(k)
          /\ seen' = Toggled(k) /\ want' = want \o Typing(k)
      BY <2>1 DEF UserPresses, Press, HeldAfter
    <3>2. Ends(Stream \o Codes[k].make, Now, HeldAfter(k), Toggled(k), want \o Typing(k))
      BY <1>3, StreamTyped, KeyAfter, Zenon
    <3> QED
      BY <1>4, <1>5, <3>1, <3>2, Zenon
  <2>2. CASE UserReleases(k)
    <3>1. /\ wire' = wire \o Codes[k].break /\ held' = held \ {k} /\ seen' = seen /\ want' = want
      BY <2>2 DEF UserReleases, Release, ghosts
    <3>2. Ends(Stream \o Codes[k].break, Now, held \ {k}, seen, want)
      BY <1>3, StreamTyped, KeyAfter, Zenon
    <3> QED
      BY <1>4, <1>5, <3>1, <3>2, Zenon
  <2> QED
    BY <2>1, <2>2
<1>7. ReaderInv' /\ EchoerInv'
  BY <1>1 DEF EchoInv, ReaderInv, EchoerInv, readVars, consoleVars
<1> QED
  BY <1>6, <1>7 DEF EchoInv, BytesInv

\* The keyboard's next byte, and its interrupt.
LEMMA DeliverKeeps ==
  ASSUME TerminalInv, RingInv, Deliver
  PROVE  Stream' = Stream
<1>1. /\ wire # <<>> /\ latch' = Head(wire) /\ wire' = Tail(wire)
      /\ Port = <<>> /\ Port' = <<latch'>> /\ UNCHANGED kbVars
  BY DEF Deliver, Port
<1>2. Contents' = Contents
  BY <1>1 DEF Contents, Slot, kbVars
<1>3. wire \in Seq(Bytes) /\ Contents \in Seq(Bytes)
  BY StreamTyped
<1>4. /\ <<Head(wire)>> \in Seq(Bytes) /\ Tail(wire) \in Seq(Bytes)
      /\ wire = <<Head(wire)>> \o Tail(wire)
  BY <1>1, <1>3, FirstAndRest, Zenon
<1>5. (Contents \o <<Head(wire)>>) \o Tail(wire) = Contents \o (<<Head(wire)>> \o Tail(wire))
  BY <1>3, <1>4, BytesAssociate, Zenon
<1>6. Contents \o <<>> = Contents
  BY <1>3, ConcatEmptySeq, Zenon
<1>7. Stream = Contents \o wire
  BY <1>1, <1>6 DEF Stream
<1>8. Stream' = (Contents \o <<Head(wire)>>) \o Tail(wire)
  BY <1>1, <1>2, Zenon DEF Stream
<1> QED
  BY <1>4, <1>5, <1>7, <1>8

LEMMA InterruptKeeps ==
  ASSUME TerminalInv, RingInv, RingInv', Interrupt, mishap' = {}
  PROVE  Stream' = Stream /\ mishap = {}
<1>1. /\ full = TRUE /\ full' = FALSE /\ UNCHANGED <<wire, latch>> /\ mishap = {}
      /\ Handler(latch) /\ Accept
  BY DEF Interrupt, TerminalInv, PortTyped
<1>2. Port = <<latch>> /\ Port' = <<>>
  BY <1>1 DEF Port
<1>3. latch \in Bytes /\ Contents \in Seq(Bytes) /\ Len(Contents) = count
  BY ContentsIsSeq DEF TerminalInv, PortTyped
<1>4. Contents' = Append(Contents, latch)
  <2>1. Q!Put(latch)
    BY <1>1, <1>3, HandlerPuts
  <2> QED
    BY <1>1, <1>3, <2>1 DEF Q!Put, Accept
<1>5. Append(Contents, latch) = Contents \o <<latch>>
  BY <1>3, AppendIsConcat
<1>6. Contents' \in Seq(Bytes)
  BY ContentsIsSeqNext
<1>7. Contents' \o <<>> = Contents'
  BY <1>6, ConcatEmptySeq, Zenon
<1>8. Stream' = Contents' \o wire
  BY <1>1, <1>2, <1>7 DEF Stream
<1> QED
  BY <1>1, <1>2, <1>4, <1>5, <1>8 DEF Stream

LEMMA HardwareEchoes ==
  ASSUME TerminalInv, RingInv, RingInv', EchoInv, Hardware \/ TakeInterrupt
  PROVE  EchoInv'
<1>1. UNCHANGED <<pc, taken, mods, locks, inbuf, printed, text, stage, held, seen, want>>
  BY DEF Hardware, TakeInterrupt, Deliver, Interrupt, readVars, consoleVars, ghosts
<1>2. ReaderInv' /\ EchoerInv'
  BY <1>1 DEF EchoInv, ReaderInv, EchoerInv
<1>3. Now' = Now
  BY <1>1, NowSame, PassedSame
<1>4. ASSUME mishap' = {} PROVE Stream' = Stream /\ mishap = {}
  <2>1. CASE Hardware
    BY <1>4, <2>1, DeliverKeeps DEF Hardware, Deliver
  <2>2. CASE TakeInterrupt
    BY <1>4, <2>2, InterruptKeeps DEF TakeInterrupt
  <2> QED
    BY <2>1, <2>2
<1>5. BytesInv'
  BY <1>1, <1>3, <1>4 DEF EchoInv, BytesInv
<1> QED
  BY <1>2, <1>5 DEF EchoInv

\* The reader takes a byte.
LEMMA TakeByteEchoes ==
  ASSUME TerminalInv, RingInv, RingInv', EchoInv, TakeByte,
         UNCHANGED <<printed, text, stage, seen, want>>
  PROVE  EchoInv'
<1>1. /\ pc \in {"read", "more"} /\ GetByte /\ taken' = Append(taken, buf[p_tail])
      /\ pc' = IF WantsMore(taken') THEN "more" ELSE "decode"
      /\ UNCHANGED <<wire, latch, full, held, mods, locks, inbuf, mishap>>
  BY DEF TakeByte, wireVars
<1> DEFINE b == buf[p_tail]
<1>2. b = Head(Contents) /\ Contents # <<>> /\ Contents' = Tail(Contents)
  <2>1. Q!Get
    BY <1>1, GetIsHead
  <2>2. count > 0 /\ 1 \in 1 .. count /\ Slot(1) = p_tail
    BY <1>1, KbAssumption DEF GetByte, Slot, RingInv, Index
  <2>3. Contents[1] = b
    BY <2>2 DEF Contents
  <2> QED
    BY <2>1, <2>3 DEF Q!Get
<1>3. /\ b \in Bytes /\ <<b>> \in Seq(Bytes) /\ Tail(Contents) \in Seq(Bytes)
      /\ Contents = <<b>> \o Tail(Contents)
  BY <1>2, StreamTyped, FirstAndRest
<1>4. taken \in Seq(Bytes) /\ inbuf = <<>>
  BY <1>1 DEF EchoInv, ReaderInv
<1>5. ReaderInv'
  <2>1. taken' \in Seq(Bytes)
    BY <1>1, <1>3, <1>4, AppendProperties
  <2> QED
    BY <1>1, <1>4, <2>1 DEF ReaderInv
<1>6. EchoerInv'
  BY DEF EchoInv, EchoerInv
<1> HIDE DEF b
<1>7. Stream = <<b>> \o Stream'
  <2> DEFINE t == Tail(Contents)   u == <<b>>
  <2>1. u \in Seq(Bytes) /\ t \in Seq(Bytes) /\ Port \in Seq(Bytes) /\ wire \in Seq(Bytes)
        /\ Contents = u \o t
    BY <1>3, StreamTyped
  <2>2. Stream' = (t \o Port) \o wire
    BY <1>1, <1>2 DEF Stream, Port
  <2> HIDE DEF t, u
  <2>3. (u \o t) \o Port = u \o (t \o Port)
    BY <2>1, BytesAssociate, Zenon
  <2>4. t \o Port \in Seq(Bytes)
    BY <2>1, ConcatProperties, Zenon
  <2>5. (u \o (t \o Port)) \o wire = u \o ((t \o Port) \o wire)
    <3> DEFINE v == t \o Port
    <3>1. u \in Seq(Bytes) /\ v \in Seq(Bytes) /\ wire \in Seq(Bytes)
      BY <2>1, <2>4
    <3> HIDE DEF v
    <3>2. (u \o v) \o wire = u \o (v \o wire)
      BY <3>1, BytesAssociate
    <3> QED
      BY <3>2 DEF v
  <2>6. Stream = u \o Stream'
    BY <2>1, <2>2, <2>3, <2>5 DEF Stream
  <2> QED
    BY <2>6 DEF u
<1>8. Now = Read
  BY <1>1 DEF Now
<1>9. Now' = StepOf(Read, b)
  <2>1. Read' = [Read EXCEPT !.part = Append(Read.part, b)] /\ Append(Read.part, b) = taken'
        /\ Read'.mods = Read.mods /\ Read'.locks = Read.locks /\ Read'.typed = Read.typed
    <3>1. Passed' \o inbuf' = Passed \o inbuf
      BY <1>1, PassedSame
    <3> DEFINE w == Passed \o inbuf
    <3>2. /\ Read' = [part |-> taken', mods |-> mods, locks |-> locks, typed |-> w]
          /\ Read = [part |-> taken, mods |-> mods, locks |-> locks, typed |-> w]
          /\ taken' = Append(taken, b)
      BY <1>1, <3>1, Zenon DEF Read, b
    <3>3. Append(Read.part, b) = taken'
      BY <3>2
    <3> DEFINE n == taken'
    <3>4. Read' = [part |-> n, mods |-> mods, locks |-> locks, typed |-> w]
      BY <3>2
    <3> HIDE DEF w, n
    <3>5. /\ [Read EXCEPT !.part = n] = [part |-> n, mods |-> mods, locks |-> locks, typed |-> w]
          /\ Read'.mods = Read.mods /\ Read'.locks = Read.locks /\ Read'.typed = Read.typed
      BY <3>2, <3>4
    <3>6. Append(Read.part, b) = n
      BY <3>3 DEF n
    <3> QED
      BY <3>4, <3>5, <3>6 DEF n
  <2>2. CASE WantsMore(taken')
    <3>1. pc' # "decode"
      BY <1>1, <2>2
    <3>2. StepOf(Read, b) = [Read EXCEPT !.part = Append(Read.part, b)]
      BY <2>1, <2>2 DEF StepOf
    <3> QED
      BY <2>1, <3>1, <3>2 DEF Now
  <2>3. CASE ~WantsMore(taken')
    <3>1. pc' = "decode"
      BY <1>1, <2>3
    <3>2. StepOf(Read, b) = Decoded(Read, taken')
      BY <2>1, <2>3 DEF StepOf
    <3>3. Decoded(Read', taken') = Decoded(Read, taken')
      BY <2>1, DecodedSame
    <3>4. Now' = Decoded(Read', taken')
      BY <3>1 DEF Now
    <3> QED
      BY <3>2, <3>3, <3>4
  <2> QED
    BY <2>2, <2>3
<1>10. ASSUME mishap' = {} PROVE Ends(Stream', Now', held', seen', want')
  <2>1. Ends(<<b>> \o Stream', Read, held, seen, want)
    BY <1>1, <1>7, <1>8, <1>10 DEF EchoInv, BytesInv
  <2>2. Stream' \in Seq(Bytes)
    <3>1. Contents' \in Seq(Bytes) /\ Port' = Port /\ wire' = wire
      BY <1>1, ContentsIsSeqNext DEF Port
    <3>2. Contents' \o Port \in Seq(Bytes) /\ wire \in Seq(Bytes)
      BY <3>1, StreamTyped, ConcatProperties
    <3>3. (Contents' \o Port) \o wire \in Seq(Bytes)
      BY <3>2, ConcatProperties
    <3> QED
      BY <3>1, <3>3 DEF Stream
  <2>3. Ends(Stream', StepOf(Read, b), held, seen, want)
    BY <1>3, <2>1, <2>2, ByteTaken, Zenon
  <2> QED
    BY <1>1, <1>9, <2>3
<1> QED
  BY <1>5, <1>6, <1>10 DEF EchoInv, BytesInv

\* The keyboard's answer to a command, at the end of the bytes under way.
LEMMA CommandAdds ==
  ASSUME TerminalInv, RingInv, UNCHANGED <<kbVars, latch, full>>, wire' = Append(wire, ACK)
  PROVE  Stream' = Stream \o <<ACK>>
<1>1. Contents' = Contents /\ Port' = Port
  BY DEF Contents, Slot, kbVars, Port
<1>2. Contents \o Port \in Seq(Bytes) /\ wire \in Seq(Bytes) /\ <<ACK>> \in Seq(Bytes)
  BY StreamTyped, BytesAssumption
<1>3. wire' = wire \o <<ACK>>
  BY <1>2, BytesAssumption, AppendIsConcat
<1>4. (Contents \o Port) \o (wire \o <<ACK>>) = ((Contents \o Port) \o wire) \o <<ACK>>
  BY <1>2, BytesAssociate, Zenon
<1> QED
  BY <1>1, <1>3, <1>4 DEF Stream

LEMMA InitEchoes ==
  ASSUME TerminalInv, RingInv, EchoInv, InitKeyboard, UNCHANGED <<printed, text, stage, seen, want>>
  PROVE  EchoInv'
<1>1. /\ pc = "start" /\ pc' = "ack1" /\ wire' = Append(wire, ACK)
      /\ UNCHANGED <<kbVars, latch, full, held, taken, mods, locks, inbuf, mishap>>
  BY DEF InitKeyboard, SendCommand
<1>2. Stream' = Stream \o <<ACK>> /\ Stream \in Seq(Bytes)
  BY <1>1, CommandAdds, StreamTyped
<1>3. Now = Read /\ Now' = Read' /\ Read' = Read
  <2>1. Passed' \o inbuf' = Passed \o inbuf
    BY <1>1, PassedSame
  <2>2. Read' = Read
    BY <1>1, <2>1, Zenon DEF Read
  <2> QED
    BY <1>1, <2>2 DEF Now
<1>4. BytesInv'
  <2>1. ASSUME mishap' = {} PROVE Ends(Stream', Now', held', seen', want')
    <3>1. Ends(Stream, Now, held, seen, want)
      BY <1>1, <2>1 DEF EchoInv, BytesInv
    <3>2. Ends(Stream \o <<ACK>>, Now, held, seen, want)
      BY <1>2, <3>1, AckAfter, Zenon
    <3> QED
      BY <1>1, <1>2, <1>3, <3>2
  <2> QED
    BY <2>1 DEF BytesInv
<1>5. ReaderInv' /\ EchoerInv'
  BY <1>1 DEF EchoInv, ReaderInv, EchoerInv
<1> QED
  BY <1>4, <1>5 DEF EchoInv

\* kb_ack empties the port; what it takes from there is an acknowledge, or
\* there is a mishap.
LEMMA AckTaken ==
  ASSUME TerminalInv, RingInv, EchoInv, KbAck, mishap' = {}
  PROVE  Ends(Contents \o wire, Read, held, seen, want)
<1>1. /\ pc \in {"ack1", "ack2"} /\ full' = FALSE /\ mishap = {} /\ (full => latch = ACK)
  BY DEF KbAck
<1>2. Now = Read
  BY <1>1 DEF Now
<1>3. Ends(Stream, Read, held, seen, want)
  BY <1>1, <1>2 DEF EchoInv, BytesInv
<1>4. Contents \in Seq(Bytes) /\ wire \in Seq(Bytes)
  BY StreamTyped
<1>5. CASE full
  <2>1. Port = <<ACK>>
    BY <1>1, <1>5 DEF Port
  <2>2. Ends((Contents \o <<ACK>>) \o wire, Read, held, seen, want)
    BY <1>3, <2>1 DEF Stream
  <2> QED
    BY <1>4, <2>2, AckWithout, Zenon
<1>6. CASE ~full
  <2>1. Port = <<>>
    BY <1>6 DEF Port
  <2>2. Contents \o <<>> = Contents
    BY <1>4, ConcatEmptySeq, Zenon
  <2> QED
    BY <1>3, <2>1, <2>2 DEF Stream
<1> QED
  BY <1>5, <1>6

LEMMA AckEchoes ==
  ASSUME TerminalInv, RingInv, EchoInv, KbAck, UNCHANGED <<printed, text, stage, seen, want>>
  PROVE  EchoInv'
<1>1. /\ pc \in {"ack1", "ack2"} /\ full' = FALSE
      /\ \/ UNCHANGED <<wire, pc>>
         \/ wire' = Append(wire, ACK) /\ pc' = "ack2"
         \/ pc' \in {"install", "write"} /\ UNCHANGED wire
      /\ UNCHANGED <<kbVars, latch, held, taken, mods, locks, inbuf>>
  BY DEF KbAck, SendCommand
<1>2. pc' \in {"ack1", "ack2", "install", "write"} /\ inbuf = <<>>
  BY <1>1 DEF EchoInv, ReaderInv
<1>3. Now' = Read
  <2>1. Passed' \o inbuf' = Passed \o inbuf
    BY <1>1, PassedSame
  <2>2. Read' = Read
    BY <1>1, <2>1, Zenon DEF Read
  <2> QED
    BY <1>2, <2>2 DEF Now
<1>4. Contents \in Seq(Bytes) /\ wire \in Seq(Bytes) /\ <<ACK>> \in Seq(Bytes)
  BY StreamTyped, BytesAssumption
<1>5. Stream' \in {Contents \o wire, (Contents \o wire) \o <<ACK>>} /\ Contents \o wire \in Seq(Bytes)
  <2>1. Contents' = Contents /\ Port' = <<>> /\ Contents \o <<>> = Contents
    <3>1. Contents \o <<>> = Contents
      BY <1>4, ConcatEmptySeq, Zenon
    <3> QED
      BY <1>1, <3>1 DEF Contents, Slot, kbVars, Port
  <2>2. Stream' = Contents \o wire'
    BY <2>1 DEF Stream
  <2>3. wire' \in {wire, wire \o <<ACK>>}
    BY <1>1, <1>4, BytesAssumption, AppendIsConcat
  <2>4. Contents \o (wire \o <<ACK>>) = (Contents \o wire) \o <<ACK>>
    BY <1>4, BytesAssociate, Zenon
  <2>5. Contents \o wire \in Seq(Bytes)
    BY <1>4, ConcatProperties
  <2> QED
    BY <2>2, <2>3, <2>4, <2>5
<1>6. BytesInv'
  <2>1. ASSUME mishap' = {} PROVE Ends(Stream', Now', held', seen', want')
    <3>1. Ends(Contents \o wire, Read, held, seen, want)
      BY <2>1, AckTaken
    <3>2. Ends((Contents \o wire) \o <<ACK>>, Read, held, seen, want)
      BY <1>5, <3>1, AckAfter, Zenon
    <3>3. Ends(Stream', Read, held, seen, want)
      BY <1>5, <3>1, <3>2
    <3> QED
      BY <1>1, <1>3, <3>3
  <2> QED
    BY <2>1 DEF BytesInv
<1>7. ReaderInv' /\ EchoerInv'
  BY <1>1, <1>2 DEF EchoInv, ReaderInv, EchoerInv
<1> QED
  BY <1>6, <1>7 DEF EchoInv

\* The handler is installed; or the reader does not come back.
LEMMA IdleEchoes ==
  ASSUME TerminalInv, RingInv, EchoInv, PutIrqHandler \/ Hang,
         UNCHANGED <<printed, text, stage, seen, want>>
  PROVE  EchoInv'
<1>1. /\ pc \in {"install", "more"} /\ pc' \in {"read", "hung"} /\ inbuf' = <<>> /\ inbuf = <<>>
      /\ pc' = "read" => pc = "install"
      /\ UNCHANGED <<kbVars, wire, latch, full, held, taken, mods, locks, mishap>>
  BY DEF PutIrqHandler, Hang, wireVars, EchoInv, ReaderInv
<1>2. Stream' = Stream
  BY <1>1, StreamSame
<1>3. Now' = Now
  <2>1. Passed' \o inbuf' = Passed \o inbuf
    BY <1>1 DEF Passed
  <2>2. Read' = Read
    BY <1>1, <2>1, Zenon DEF Read
  <2> QED
    BY <1>1, <2>2 DEF Now
<1>4. ReaderInv' /\ EchoerInv'
  BY <1>1 DEF EchoInv, ReaderInv, EchoerInv
<1> QED
  BY <1>1, <1>2, <1>3, <1>4 DEF EchoInv, BytesInv

\* keyboard_read's decisions are those that Decoded makes.
LEMMA ReadsKey ==
  /\ MadeOf(taken) <=> Made
  /\ KeyOf(Read, taken) = Key
  /\ \A key : UnpaddedOf(Read, key) = Unpadded(key)
<1>1. ScanOf(taken) = ScanCode
  BY DEF ScanOf, ScanCode
<1>2. MadeOf(taken) <=> Made
  BY <1>1 DEF MadeOf, Made
<1>3. Read.mods = mods /\ Read.locks = locks
  BY DEF Read
<1>4. RowOf(taken) = keymap(ScanCode % \h80)
  BY <1>1 DEF RowOf
<1>5. \A row : CapsOf(Read, row) <=> Caps(row)
  BY <1>3 DEF CapsOf, ShiftOf, Caps
<1>6. KeyOf(Read, taken) = Key
  BY <1>4, <1>5, Zenon DEF KeyOf, Key
<1>7. \A key : UnpaddedOf(Read, key) = Unpadded(key)
  BY <1>3 DEF UnpaddedOf, Unpadded
<1> QED
  BY <1>2, <1>6, <1>7

LEMMA DecodesSame ==
  ASSUME TerminalInv, RingInv, EchoInv, DecodeSpecial \/ DecodeModifier \/ DecodeLock \/ DecodeOther,
         UNCHANGED <<printed, text>>
  PROVE  /\ Now' = Now
         /\ pc' \in {"read", "ack1", "write"} /\ taken' = <<>>
         /\ inbuf' # <<>> => pc' = "write" /\ Len(inbuf') = 1
<1> DEFINE key == KeyOf(Read, taken)
<1>1. /\ pc = "decode" /\ pc' \in {"read", "ack1", "write"} /\ taken' = <<>> /\ inbuf = <<>>
  BY DEF DecodeSpecial, DecodeModifier, DecodeLock, DecodeOther, SendCommand, EchoInv, ReaderInv
<1>2. Now = Decoded(Read, taken) /\ Now' = Read'
  BY <1>1 DEF Now
<1>3. Passed' = Passed /\ Passed \in Seq(Int) /\ Passed \o <<>> = Passed
  <2>1. Passed \in Seq(Int)
    BY ReadIsReading DEF EchoInv
  <2>2. Passed \o <<>> = Passed
    BY <2>1, ConcatEmptySeq, Zenon
  <2> QED
    BY <2>1, <2>2 DEF Passed
<1>4. key = Key /\ (MadeOf(taken) <=> Made) /\ UnpaddedOf(Read, key) = Unpadded(key)
  BY ReadsKey, Zenon
<1>5. Read.mods = mods /\ Read.locks = locks /\ Read.typed = Passed
  BY <1>1, <1>3 DEF Read
<1>6. Decoded(Read, taken) = [part |-> <<>>, mods |-> ModsAfter(Read, taken, key),
                              locks |-> LocksAfter(Read, taken, key),
                              typed |-> Passed \o NewlyTyped(Read, taken, key)]
  BY <1>5, Zenon DEF Decoded, key
<1>7. Read' = [part |-> <<>>, mods |-> mods', locks |-> locks', typed |-> Passed \o inbuf']
  BY <1>1, <1>3, Zenon DEF Read
<1> HIDE DEF key
<1>8. /\ key \in SHIFT_L .. ALT_R => key \in SHIFT_L .. SCROLL_LOCK /\ key \notin CAPS_LOCK .. SCROLL_LOCK
      /\ key \in CAPS_LOCK .. SCROLL_LOCK => key \in SHIFT_L .. SCROLL_LOCK /\ key \notin SHIFT_L .. ALT_R
      /\ key \in SHIFT_L .. SCROLL_LOCK => key \in SHIFT_L .. ALT_R \/ key \in CAPS_LOCK .. SCROLL_LOCK
  <2>1. key \in Int
    BY <1>4, KeyInt
  <2> QED
    BY <2>1, KeyNumbers
<1>9. /\ mods' = ModsAfter(Read, taken, key) /\ locks' = LocksAfter(Read, taken, key)
      /\ inbuf' = NewlyTyped(Read, taken, key)
      /\ inbuf' # <<>> => pc' = "write" /\ Len(inbuf') = 1
  <2>1. CASE DecodeSpecial
    <3>1. taken \in Special /\ mods' = mods /\ locks' = locks /\ inbuf' = <<>>
      BY <1>1, <2>1 DEF DecodeSpecial
    <3> QED
      BY <1>5, <3>1, Zenon DEF ModsAfter, LocksAfter, NewlyTyped
  <2>2. CASE DecodeModifier
    <3>1. /\ taken \notin Special /\ key \in SHIFT_L .. ALT_R
          /\ mods' = IF Made THEN mods \cup {Flag(key)} ELSE mods \ {Flag(key)}
          /\ locks' = locks /\ inbuf' = <<>>
      BY <1>1, <1>4, <2>2 DEF DecodeModifier
    <3>2. mods' = ModsAfter(Read, taken, key)
      BY <1>4, <1>5, <3>1, Zenon DEF ModsAfter
    <3>3. locks' = LocksAfter(Read, taken, key) /\ inbuf' = NewlyTyped(Read, taken, key)
      BY <1>5, <1>8, <3>1, Zenon DEF LocksAfter, NewlyTyped
    <3> QED
      BY <3>1, <3>2, <3>3
  <2>3. CASE DecodeLock
    <3>1. /\ taken \notin Special /\ key \in CAPS_LOCK .. SCROLL_LOCK /\ Made
          /\ locks' = IF key \in locks THEN locks \ {key} ELSE locks \cup {key}
          /\ mods' = mods /\ inbuf' = <<>>
      BY <1>1, <1>4, <2>3 DEF DecodeLock
    <3>2. locks' = LocksAfter(Read, taken, key)
      BY <1>4, <1>5, <3>1, Zenon DEF LocksAfter
    <3>3. mods' = ModsAfter(Read, taken, key) /\ inbuf' = NewlyTyped(Read, taken, key)
      BY <1>5, <1>8, <3>1, Zenon DEF ModsAfter, NewlyTyped
    <3> QED
      BY <3>1, <3>2, <3>3
  <2>4. CASE DecodeOther
    <3>1. /\ taken \notin Special /\ mods' = mods /\ locks' = locks /\ pc' = "write"
          /\ key \notin SHIFT_L .. SCROLL_LOCK \/ (key \in CAPS_LOCK .. SCROLL_LOCK /\ ~Made)
          /\ inbuf' = IF Made /\ Len(inbuf) < TTY_IN_BYTES
                      THEN inbuf \o InProcess(Unpadded(key)) ELSE inbuf
      BY <1>4, <2>4 DEF DecodeOther
    <3>2. Len(<<>>) = 0 /\ 0 < TTY_IN_BYTES
      BY EmptySeq, KeyboardAssumption
    <3>3. /\ InProcess(Unpadded(key)) \in Seq(Int) /\ Len(InProcess(Unpadded(key))) \in {0, 1}
          /\ Len(InProcess(Unpadded(key))) # 1 => InProcess(Unpadded(key)) = <<>>
      <4>1. Unpadded(key) \in Int
        BY <1>4, KeyInt
      <4>2. \A n \in Int : InProcess(n) \in {<<n>>, <<10>>, <<8>>, <<>>}
        BY DEF InProcess
      <4>3. \A n \in Int : <<n>> \in Seq(Int) /\ Len(<<n>>) = 1
        OBVIOUS
      <4>4. <<>> \in Seq(Int) /\ Len(<<>>) = 0 /\ 10 \in Int /\ 8 \in Int
        BY EmptySeq
      <4> DEFINE n == Unpadded(key)
      <4>5. InProcess(n) \in {<<n>>, <<10>>, <<8>>, <<>>} /\ n \in Int
        BY <4>1, <4>2
      <4> HIDE DEF n
      <4>6. /\ InProcess(n) \in Seq(Int) /\ Len(InProcess(n)) \in {0, 1}
            /\ Len(InProcess(n)) # 1 => InProcess(n) = <<>>
        BY <4>3, <4>4, <4>5
      <4> QED
        BY <4>6 DEF n
    <3>4. <<>> \o InProcess(Unpadded(key)) = InProcess(Unpadded(key))
      <4> DEFINE p == InProcess(Unpadded(key))
      <4>1. p \in Seq(Int)
        BY <3>3, Zenon
      <4> HIDE DEF p
      <4>2. <<>> \o p = p
        BY <4>1, ConcatEmptySeq
      <4> QED
        BY <4>2 DEF p
    <3>5. inbuf' = IF Made THEN InProcess(Unpadded(key)) ELSE <<>>
      BY <1>1, <3>1, <3>2, <3>4
    <3>6. mods' = ModsAfter(Read, taken, key) /\ locks' = LocksAfter(Read, taken, key)
      BY <1>4, <1>5, <1>8, <3>1, Zenon DEF ModsAfter, LocksAfter
    <3>7. inbuf' = NewlyTyped(Read, taken, key)
      <4>1. CASE Made
        BY <1>4, <1>8, <3>1, <3>5, <4>1, Zenon DEF NewlyTyped
      <4>2. CASE ~Made
        BY <1>4, <3>5, <4>2, Zenon DEF NewlyTyped
      <4> QED
        BY <4>1, <4>2
    <3>8. inbuf' # <<>> => Len(inbuf') = 1
      <4> DEFINE p == InProcess(Unpadded(key))
      <4>1. p = <<>> \/ Len(p) = 1
        BY <3>3, Zenon
      <4>2. inbuf' = p \/ inbuf' = <<>>
        BY <3>5, Zenon
      <4> HIDE DEF p
      <4> QED
        BY <4>1, <4>2
    <3> QED
      BY <3>1, <3>6, <3>7, <3>8
  <2> QED
    BY <2>1, <2>2, <2>3, <2>4
<1> QED
  BY <1>1, <1>2, <1>6, <1>7, <1>9, Zenon

LEMMA DecodeEchoes ==
  ASSUME TerminalInv, RingInv, EchoInv, DecodeSpecial \/ DecodeModifier \/ DecodeLock \/ DecodeOther,
         UNCHANGED <<printed, text, stage, seen, want>>
  PROVE  EchoInv'
<1>1. /\ Now' = Now /\ pc' \in {"read", "ack1", "write"} /\ taken' = <<>>
      /\ inbuf' # <<>> => pc' = "write" /\ Len(inbuf') = 1
  BY DecodesSame
<1>2. /\ UNCHANGED <<kbVars, latch, full, held, mishap>>
      /\ wire' = wire \/ wire' = Append(wire, ACK)
  BY DEF DecodeSpecial, DecodeModifier, DecodeLock, DecodeOther, SendCommand, wireVars
<1>3. Stream' = Stream \/ Stream' = Stream \o <<ACK>>
  BY <1>2, StreamSame, CommandAdds
<1>4. BytesInv'
  <2>1. ASSUME mishap' = {} PROVE Ends(Stream', Now', held', seen', want')
    <3>1. Ends(Stream, Now, held, seen, want)
      BY <1>2, <2>1 DEF EchoInv, BytesInv
    <3>2. Ends(Stream \o <<ACK>>, Now, held, seen, want)
      BY <3>1, StreamTyped, AckAfter, Zenon
    <3>3. Ends(Stream', Now, held, seen, want)
      BY <1>3, <3>1, <3>2
    <3> QED
      BY <1>1, <1>2, <3>3
  <2> QED
    BY <2>1 DEF BytesInv
<1>5. ReaderInv' /\ EchoerInv'
  <2>1. <<>> \in Seq(Bytes)
    BY EmptySeq
  <2> QED
    BY <1>1, <2>1 DEF EchoInv, ReaderInv, EchoerInv
<1> QED
  BY <1>4, <1>5 DEF EchoInv

LEMMA ReadEchoes ==
  ASSUME TerminalInv, RingInv, RingInv', EchoInv, TtyRead
  PROVE  EchoInv'
<1>1. KeyboardRead /\ UNCHANGED <<printed, text, stage, seen, want>>
  BY DEF TtyRead, consoleVars, history, ghosts
<1> QED
  BY <1>1, InitEchoes, AckEchoes, IdleEchoes, TakeByteEchoes, DecodeEchoes DEF KeyboardRead

\* put_char moves what is passed on, one character after the other.
LEMMA AdvanceKeeps ==
  ASSUME ConsoleTyped, EchoerInv, NEW p \in Printers, stage[p] \in {"store", "line", "scroll"},
         Advance(p)
  PROVE  Passed' = Passed /\ EchoerInv'
<1>1. /\ text \in [Printers -> Seq(Int)] /\ stage \in [Printers -> Stages]
      /\ printed \in [Printers -> Seq(Int)] /\ text[p] # <<>> /\ Tty \in Printers
  BY TerminalAssumption DEF ConsoleTyped, EchoerInv
<1> DEFINE s == text[p]   q == printed[p]   h == Head(s)   t == Tail(s)
<1>2. /\ text' = [text EXCEPT ![p] = t]
      /\ printed' = [printed EXCEPT ![p] = Append(q, h)]
      /\ stage' = [stage EXCEPT ![p] = IF Len(s) = 1 THEN "cursor" ELSE "put"]
  BY <1>1 DEF Advance
<1>3. s \in Seq(Int) /\ q \in Seq(Int) /\ s # <<>>
  BY <1>1
<1> HIDE DEF s, q
<1>4. h \in Int /\ t \in Seq(Int) /\ <<h>> \in Seq(Int) /\ s = <<h>> \o t
  BY <1>3, FirstAndRest, Zenon
<1>5. Append(q, h) \in Seq(Int) /\ Append(q, h) = q \o <<h>>
  BY <1>3, <1>4, AppendProperties, AppendIsConcat
<1>6. Len(s) = 1 => t = <<>>
  <2>1. Len(t) = Len(s) - 1
    BY <1>3, HeadTailProperties
  <2>2. Len(t) = 0 => t = <<>>
    BY <1>4, EmptySeq
  <2> QED
    BY <2>1, <2>2
<1> HIDE DEF h, t
<1>7. (q \o <<h>>) \o t = q \o s
  BY <1>3, <1>4, ConcatAssociative
<1>8. printed' \in [Printers -> Seq(Int)]
  BY <1>1, <1>2, <1>5
<1>9. CASE p = Tty
  <2>1. /\ printed'[Tty] = Append(q, h) /\ text'[Tty] = t
        /\ stage'[Tty] = IF Len(s) = 1 THEN "cursor" ELSE "put"
        /\ printed[Tty] = q /\ text[Tty] = s
    BY <1>1, <1>2, <1>9 DEF q, s
  <2>2. Passed' = Passed
    BY <1>5, <1>7, <2>1, Zenon DEF Passed
  <2> QED
    BY <1>6, <1>8, <2>1, <2>2 DEF EchoerInv
<1>10. CASE p # Tty
  <2>1. printed'[Tty] = printed[Tty] /\ text'[Tty] = text[Tty] /\ stage'[Tty] = stage[Tty]
    BY <1>1, <1>2, <1>10
  <2> QED
    BY <1>8, <2>1 DEF Passed, EchoerInv
<1> QED
  BY <1>9, <1>10

LEMMA PrintKeeps ==
  ASSUME ConsoleTyped, EchoerInv, NEW p \in Printers, PrintStep(p)
  PROVE  Passed' = Passed /\ EchoerInv'
<1>1. stage \in [Printers -> Stages] /\ Tty \in Printers
  BY TerminalAssumption DEF ConsoleTyped
<1>2. ASSUME NEW s, stage' = [stage EXCEPT ![p] = s], UNCHANGED <<text, printed>>,
             s \in {"idle", "cursor", "aimed"} => stage[p] \in {"idle", "cursor", "aimed"}
      PROVE  Passed' = Passed /\ EchoerInv'
  <2>1. stage'[Tty] = IF p = Tty THEN s ELSE stage[Tty]
    BY <1>1, <1>2
  <2>2. stage'[Tty] \in {"idle", "cursor", "aimed"} => stage[Tty] \in {"idle", "cursor", "aimed"}
    BY <1>2, <2>1
  <2> QED
    BY <1>2, <2>2 DEF Passed, EchoerInv
<1>3. CASE PutChar(p)
  <2>1. stage' = [stage EXCEPT ![p] = IF Head(text[p]) = LF THEN "line" ELSE "store"]
        /\ UNCHANGED <<text, printed>>
    BY <1>3 DEF PutChar
  <2>2. (IF Head(text[p]) = LF THEN "line" ELSE "store") \notin {"idle", "cursor", "aimed"}
    OBVIOUS
  <2> QED
    BY <1>2, <2>1, <2>2
<1>4. CASE Return(p) \/ Backspace(p)
  BY <1>4, AdvanceKeeps DEF Return, Backspace
<1>5. CASE Store(p)
  <2>1. \/ stage' = [stage EXCEPT ![p] = "line"] /\ UNCHANGED <<text, printed>>
        \/ Advance(p)
    BY <1>5 DEF Store, history
  <2>2. stage[p] = "store"
    BY <1>5 DEF Store
  <2> QED
    BY <1>2, <2>1, <2>2, AdvanceKeeps
<1>6. CASE NewLine(p)
  <2>1. \/ stage' = [stage EXCEPT ![p] = "scroll"] /\ UNCHANGED <<text, printed>>
        \/ Advance(p)
    BY <1>6 DEF NewLine, history
  <2>2. stage[p] = "line"
    BY <1>6 DEF NewLine
  <2> QED
    BY <1>2, <2>1, <2>2, AdvanceKeeps
<1>7. CASE ScrollRow(p)
  BY <1>7 DEF ScrollRow, history, Passed, EchoerInv
<1>8. CASE ScrollLast(p)
  BY <1>8, AdvanceKeeps DEF ScrollLast
<1>9. CASE AimCursor(p)
  <2>1. stage' = [stage EXCEPT ![p] = "aimed"] /\ UNCHANGED <<text, printed>> /\ stage[p] = "cursor"
    BY <1>9 DEF AimCursor
  <2> QED
    BY <1>2, <2>1
<1>10. CASE PutCursor(p)
  <2>1. stage' = [stage EXCEPT ![p] = "idle"] /\ UNCHANGED <<text, printed>> /\ stage[p] = "aimed"
    BY <1>10 DEF PutCursor, history
  <2> QED
    BY <1>2, <2>1
<1> QED
  BY <1>3, <1>4, <1>5, <1>6, <1>7, <1>8, <1>9, <1>10 DEF PrintStep

\* What others print, and every step of put_char, leaves the bytes alone.
LEMMA PrintingEchoes ==
  ASSUME TerminalInv, RingInv, EchoInv, NEW p \in Printers, OtherPrints(p) \/ Printing(p)
  PROVE  EchoInv'
<1>1. UNCHANGED <<kbVars, wire, latch, full, held, pc, taken, mods, locks, inbuf, mishap, seen, want>>
  BY DEF OtherPrints, Printing, keyboardVars, wireVars, readVars, ghosts
<1>2. Passed' = Passed /\ EchoerInv'
  <2>1. CASE OtherPrints(p)
    <3>1. /\ p # Tty /\ printed' = printed
          /\ text' = [text EXCEPT ![p] = Format(Head(todo.jobs[p]))]
          /\ stage' = [stage EXCEPT ![p] = IF Format(Head(todo.jobs[p])) = <<>> THEN "cursor" ELSE "put"]
      BY <2>1 DEF OtherPrints, Kprintf, history
    <3>2. text \in [Printers -> Seq(Int)] /\ stage \in [Printers -> Stages] /\ Tty \in Printers
      BY TerminalAssumption DEF TerminalInv, ScreenInv, ConsoleTyped
    <3>3. text'[Tty] = text[Tty] /\ stage'[Tty] = stage[Tty]
      BY <3>1, <3>2
    <3> QED
      BY <3>1, <3>3 DEF Passed, EchoInv, EchoerInv
  <2>2. CASE Printing(p)
    BY <2>2, PrintKeeps DEF Printing, TerminalInv, ScreenInv, EchoInv
  <2> QED
    BY <2>1, <2>2
<1>3. Stream' = Stream
  BY <1>1, StreamSame
<1>4. Passed' \o inbuf' = Passed \o inbuf
  BY <1>1, <1>2
<1>5. Now' = Now
  BY <1>1, <1>4, NowSame
<1>6. ReaderInv'
  BY <1>1 DEF EchoInv, ReaderInv
<1> QED
  BY <1>1, <1>2, <1>3, <1>5, <1>6 DEF EchoInv, BytesInv

\* tty_do_write passes the character in in_buf on.
LEMMA WriteEchoes ==
  ASSUME TerminalInv, RingInv, EchoInv, TtyWrite
  PROVE  EchoInv'
<1>1. /\ pc = "write" /\ pc' = "read" /\ stage[Tty] = "idle"
      /\ UNCHANGED <<kbVars, wire, latch, full, held, taken, mods, locks, mishap, seen, want>>
  BY DEF TtyWrite, wireVars, ghosts
<1>2. taken = <<>> /\ taken \in Seq(Bytes) /\ text[Tty] = <<>> /\ Tty \in Printers
  BY <1>1, TerminalAssumption DEF EchoInv, ReaderInv, EchoerInv
<1>3. /\ printed[Tty] \in Seq(Int) /\ inbuf \in Seq(Int)
  BY ReadIsReading DEF EchoInv
<1>4. Passed' \o inbuf' = Passed \o inbuf /\ inbuf' = <<>> /\ EchoerInv'
  <2>1. CASE inbuf = <<>>
    <3>1. inbuf' = <<>> /\ UNCHANGED <<text, printed, stage>>
      BY <2>1 DEF TtyWrite, consoleVars
    <3> QED
      BY <2>1, <3>1 DEF Passed, EchoInv, EchoerInv
  <2>2. CASE inbuf # <<>>
    <3> DEFINE h == <<Head(inbuf)>>   q == printed[Tty]
    <3>1. Len(inbuf) = 1
      BY <2>2 DEF EchoInv, ReaderInv
    <3>2. h \in Seq(Int) /\ inbuf = h \o Tail(inbuf) /\ Tail(inbuf) \in Seq(Int) /\ h # <<>>
      <4>1. h \in Seq(Int) /\ inbuf = h \o Tail(inbuf) /\ Tail(inbuf) \in Seq(Int)
        BY <1>3, <2>2, FirstAndRest, Zenon
      <4>2. Len(h) = 1 /\ Len(<<>>) = 0
        BY EmptySeq
      <4> QED
        BY <4>1, <4>2
    <3>3. Tail(inbuf) = <<>>
      <4>1. Len(Tail(inbuf)) = Len(inbuf) - 1
        BY <1>3, <2>2, HeadTailProperties
      <4> QED
        BY <3>1, <3>2, <4>1, EmptySeq
    <3>4. /\ inbuf' = Tail(inbuf) /\ text' = [text EXCEPT ![Tty] = h]
          /\ stage' = [stage EXCEPT ![Tty] = IF h = <<>> THEN "cursor" ELSE "put"]
          /\ printed' = printed
      BY <2>2 DEF TtyWrite, Kprintf, history
    <3>5. text \in [Printers -> Seq(Int)] /\ stage \in [Printers -> Stages]
      BY DEF TerminalInv, ScreenInv, ConsoleTyped
    <3> HIDE DEF h
    <3>6. text'[Tty] = h /\ stage'[Tty] = "put"
      BY <1>2, <3>2, <3>4, <3>5
    <3>7. inbuf = h
      BY <3>2, <3>3, ConcatEmptySeq
    <3>8. q \in Seq(Int)
      BY <1>3
    <3> HIDE DEF q
    <3>9. (q \o h) \o <<>> = (q \o <<>>) \o h
      <4>1. q \o h \in Seq(Int)
        BY <3>2, <3>8, ConcatProperties
      <4>2. (q \o h) \o <<>> = q \o h
        BY <4>1, ConcatEmptySeq
      <4>3. q \o <<>> = q
        BY <3>8, ConcatEmptySeq
      <4> QED
        BY <4>2, <4>3
    <3>10. Passed' = q \o h /\ Passed = q \o <<>>
      BY <1>2, <3>4, <3>6 DEF Passed, q
    <3>11. EchoerInv'
      BY <3>4, <3>6 DEF EchoInv, EchoerInv
    <3> QED
      BY <3>3, <3>4, <3>7, <3>9, <3>10, <3>11
  <2> QED
    BY <2>1, <2>2
<1>5. Stream' = Stream
  BY <1>1, StreamSame
<1>6. Now' = Now
  <2>1. Read' = Read
    BY <1>1, <1>4, Zenon DEF Read
  <2> QED
    BY <1>1, <2>1 DEF Now
<1>7. ReaderInv'
  BY <1>1, <1>2, <1>4 DEF ReaderInv
<1> QED
  BY <1>1, <1>4, <1>5, <1>6, <1>7 DEF EchoInv, BytesInv
-----------------------------------------------------------------------------
(* The results.                                                            *)

LEMMA InitEcho == TerminalInit => EchoInv
<1> SUFFICES ASSUME TerminalInit PROVE EchoInv
  OBVIOUS
<1>1. /\ count = 0 /\ wire = <<>> /\ full = FALSE /\ held = {} /\ pc = "start" /\ taken = <<>>
      /\ mods = {} /\ locks = {NUM_LOCK} /\ inbuf = <<>> /\ seen = {"NUM"} /\ want = <<>>
      /\ text = [p \in Printers |-> <<>>] /\ printed = [p \in Printers |-> <<>>]
  BY DEF TerminalInit, KeyboardInit, KbInit, ConsoleInit
<1>2. /\ <<>> \in Seq(Bytes) /\ <<>> \in Seq(Int) /\ <<>> \o <<>> = <<>> /\ Tty \in Printers
  <2>1. <<>> \in Seq(Int) /\ <<>> \in Seq(Bytes)
    BY EmptySeq
  <2>2. <<>> \o <<>> = <<>>
    BY <2>1, ConcatEmptySeq
  <2> QED
    BY <2>1, <2>2, TerminalAssumption
<1>3. ReaderInv /\ EchoerInv
  BY <1>1, <1>2 DEF ReaderInv, EchoerInv
<1>4. Contents = <<>>
  <2>1. RingInv
    BY KbAssumption DEF TerminalInit, KeyboardInit, KbInit, RingInv, Index
  <2>2. Contents \in Seq(Bytes) /\ Len(Contents) = 0
    BY <1>1, <2>1, ContentsIsSeq
  <2> QED
    BY <2>2, EmptySeq
<1>5. Stream = <<>>
  BY <1>1, <1>2, <1>4 DEF Stream, Port
<1>6. Now = [part |-> <<>>, mods |-> {}, locks |-> {NUM_LOCK}, typed |-> <<>>]
  <2>1. Passed = <<>>
    BY <1>1, <1>2 DEF Passed
  <2>2. Read = [part |-> <<>>, mods |-> {}, locks |-> {NUM_LOCK}, typed |-> <<>>]
    BY <1>1, <1>2, <2>1 DEF Read
  <2> QED
    BY <1>1, <2>2 DEF Now
<1>7. Now \in Readings /\ Agree(Now, held, seen) /\ Now.typed = want
  <2>1. NUM_LOCK \in Int /\ CAPS_LOCK \notin {NUM_LOCK}
    BY KeyNumbers
  <2> QED
    BY <1>1, <1>2, <1>6, <2>1 DEF Readings, Agree
<1>8. Reaches(Stream, Now, Now)
  BY <1>5, <1>7, RunNothing
<1> QED
  BY <1>3, <1>7, <1>8 DEF EchoInv, BytesInv, Ends

LEMMA EchoStutters ==
  ASSUME EchoInv, UNCHANGED terminalVars
  PROVE  EchoInv'
<1>1. UNCHANGED <<kbVars, wire, latch, full, held, pc, taken, mods, locks, inbuf, mishap, seen, want,
                  text, printed, stage>>
  BY DEF terminalVars, keyboardVars, consoleVars, history, wireVars, readVars
<1>2. Stream' = Stream
  BY <1>1, StreamSame
<1>3. Now' = Now
  BY <1>1, NowSame, PassedSame
<1> QED
  BY <1>1, <1>2, <1>3 DEF EchoInv, BytesInv, ReaderInv, EchoerInv

LEMMA EchoInvStep ==
  TerminalInv /\ RingInv /\ RingInv' /\ EchoInv /\ [TerminalNext]_terminalVars => EchoInv'
<1> SUFFICES ASSUME TerminalInv, RingInv, RingInv', EchoInv, [TerminalNext]_terminalVars
             PROVE  EchoInv'
  OBVIOUS
<1>1. ASSUME NEW k \in DOMAIN Codes, UserPresses(k) \/ UserReleases(k)
      PROVE  EchoInv'
  BY <1>1, UserEchoes
<1>2. CASE Hardware \/ TakeInterrupt
  BY <1>2, HardwareEchoes
<1>3. CASE TtyRead
  BY <1>3, ReadEchoes
<1>4. CASE TtyWrite
  BY <1>4, WriteEchoes
<1>5. ASSUME NEW p \in Printers, OtherPrints(p) \/ Printing(p)
      PROVE  EchoInv'
  BY <1>5, PrintingEchoes
<1>6. CASE UNCHANGED terminalVars
  BY <1>6, EchoStutters
<1> QED
  BY <1>1, <1>2, <1>3, <1>4, <1>5, <1>6 DEF TerminalNext

(* As long as no byte is dropped or read by kb_ack, the bytes on their way *)
(* from the keyboard to keyboard_read (kernel/keyboard.c) take its flags   *)
(* to the keys that are down and the locks that are on, and what it has    *)
(* echoed to what the keys stand for: in every reachable state, however    *)
(* many keys were pressed and wherever the interrupts fell.                *)
THEOREM EchoInvInductive == TerminalSpec => []EchoInv
<1>1. TerminalSpec => []RingInv
  BY TerminalUsesRing, RingCorrect
<1>2. TerminalInit => EchoInv
  BY InitEcho
<1>3. TerminalInv /\ RingInv /\ RingInv' /\ EchoInv /\ [TerminalNext]_terminalVars => EchoInv'
  BY EchoInvStep
<1> QED
  BY <1>1, <1>2, <1>3, TerminalInvInductive, PTL DEF TerminalSpec

\* Nothing is under way.
LEMMA DrainedMeans ==
  ASSUME TerminalInv, RingInv, EchoInv, mishap = {}, Drained
  PROVE  Agree(Read, held, seen) /\ Echoed = want
<1>1. /\ wire = <<>> /\ ~full /\ count = 0 /\ pc = "read" /\ stage[Tty] = "idle"
  BY DEF Drained
<1>2. inbuf = <<>> /\ text[Tty] = <<>>
  BY <1>1 DEF EchoInv, ReaderInv, EchoerInv
<1>3. Stream = <<>>
  <2>1. Contents = <<>>
    BY <1>1, ContentsIsSeq, EmptySeq
  <2>2. <<>> \o <<>> = <<>>
    BY EmptySeq, ConcatEmptySeq
  <2> QED
    BY <1>1, <2>1, <2>2 DEF Stream, Port
<1>4. Now = Read
  BY <1>1 DEF Now
<1>5. PICK e \in Readings : Reaches(Stream, Now, e) /\ Agree(e, held, seen) /\ e.typed = want
  BY DEF EchoInv, BytesInv, Ends
<1>6. e = Read
  BY <1>3, <1>4, <1>5, RunNothing
<1>7. Read.typed = Echoed
  <2>1. printed[Tty] \in Seq(Int)
    BY ReadIsReading DEF EchoInv
  <2>2. printed[Tty] \o <<>> = printed[Tty]
    BY <2>1, ConcatEmptySeq
  <2> QED
    BY <1>2, <2>2 DEF Read, Passed, Echoed
<1> QED
  BY <1>5, <1>6, <1>7

(* What task_tty has echoed is what the keys pressed stand for, as far as  *)
(* they have got through, in order and with the right case and NumLock     *)
(* (keyboard_read, in_process, tty_do_write): for every number of keys, of *)
(* texts others print and of slots in the buffers.                         *)
THEOREM EchoIsRight == TerminalSpec => []EchoMatchesKeys
<1>1. ASSUME TerminalInv, RingInv, EchoInv PROVE EchoMatchesKeys
  <2> SUFFICES ASSUME mishap = {}
               PROVE  IsPrefix(Echoed, want) /\ (Drained => Echoed = want)
    BY DEF EchoMatchesKeys
  <2>1. PICK e \in Readings : Reaches(Stream, Now, e) /\ Agree(e, held, seen) /\ e.typed = want
    BY <1>1 DEF EchoInv, BytesInv, Ends
  <2>2. Stream \in Seq(Bytes)
    BY <1>1, StreamTyped
  <2>3. IsPrefix(Now.typed, want) /\ Now \in Readings /\ want \in Seq(Int)
    BY <2>1, <2>2, RunEnds DEF Readings
  <2>4. /\ Read \in Readings /\ Passed \in Seq(Int) /\ printed[Tty] \in Seq(Int)
        /\ text[Tty] \in Seq(Int) /\ inbuf \in Seq(Int)
    BY <1>1, ReadIsReading DEF EchoInv
  <2>5. IsPrefix(Read.typed, Now.typed) /\ Read.typed \in Seq(Int) /\ Now.typed \in Seq(Int)
    <3>1. Read.typed \in Seq(Int) /\ Now.typed \in Seq(Int)
      BY <2>3, <2>4 DEF Readings
    <3>2. CASE pc = "decode"
      BY <2>4, <3>1, <3>2, DecodedReading DEF Now
    <3>3. CASE pc # "decode"
      BY <3>1, <3>3, PrefixSelf DEF Now
    <3> QED
      BY <3>1, <3>2, <3>3
  <2>6. IsPrefix(Echoed, Passed) /\ IsPrefix(Passed, Passed \o inbuf) /\ Passed \o inbuf \in Seq(Int)
    BY <2>4, PrefixOfConcat, ConcatProperties DEF Echoed, Passed
  <2>7. Read.typed = Passed \o inbuf /\ Echoed \in Seq(Int)
    BY <2>4 DEF Read, Echoed
  <2>8. IsPrefix(Echoed, Passed \o inbuf)
    BY <2>4, <2>6, <2>7, PrefixTransitive
  <2>9. IsPrefix(Echoed, Now.typed)
    BY <2>5, <2>7, <2>8, PrefixTransitive
  <2>10. IsPrefix(Echoed, want)
    BY <2>3, <2>5, <2>7, <2>9, PrefixTransitive
  <2>11. Drained => Echoed = want
    BY <1>1, DrainedMeans
  <2> QED
    BY <2>10, <2>11
<1>2. TerminalSpec => []RingInv
  BY TerminalUsesRing, RingCorrect
<1> QED
  BY <1>1, <1>2, TerminalInvInductive, EchoInvInductive, PTL

(* And its flags tell which shift and ctrl keys are down and which locks   *)
(* are on, whenever every key pressed has gone through.                    *)
THEOREM FlagsAreRight == TerminalSpec => []FlagsFollowKeys
<1>1. ASSUME TerminalInv, RingInv, EchoInv PROVE FlagsFollowKeys
  <2> SUFFICES ASSUME mishap = {}, Drained
               PROVE  /\ \A k \in DOMAIN KeyFlag : KeyFlag[k] \in mods <=> k \in held
                      /\ CAPS_LOCK \in locks <=> "CAPS" \in seen
                      /\ NUM_LOCK \in locks <=> "NUM" \in seen
    BY DEF FlagsFollowKeys
  <2>1. Agree(Read, held, seen)
    BY <1>1, DrainedMeans
  <2>2. Read.mods = mods /\ Read.locks = locks
    BY DEF Read
  <2>3. DOMAIN KeyFlag = {"LSHIFT", "RSHIFT", "RCTRL"} /\ KeyFlag["LSHIFT"] = SHIFT_L
        /\ KeyFlag["RSHIFT"] = SHIFT_R /\ KeyFlag["RCTRL"] = CTRL_R
    BY DEF KeyFlag
  <2> QED
    BY <2>1, <2>2, <2>3 DEF Agree
<1>2. TerminalSpec => []RingInv
  BY TerminalUsesRing, RingCorrect
<1> QED
  BY <1>1, <1>2, TerminalInvInductive, EchoInvInductive, PTL
=============================================================================
