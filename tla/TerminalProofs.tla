--------------------------- MODULE TerminalProofs ---------------------------
(***************************************************************************)
(* Proofs about Terminal and Console.                                      *)
(***************************************************************************)
EXTENDS Terminal, KbBufferProofs, FiniteSetTheorems

(* The console: what is on the screen while somebody is within put_char.   *)
Stages == {"idle", "put", "store", "line", "scroll", "cursor", "aimed"}
Row == [0 .. Width - 1 -> Int]
Caret == [row : Int, col : Int]
Pages == [rows : Seq(Row) \ {<<>>}, col : 0 .. Width - 1]

ConsoleTyped ==
  /\ text \in [Printers -> Seq(Int)]
  /\ stage \in [Printers -> Stages]
  /\ at \in [Printers -> Caret] /\ caret \in Caret
  /\ \A p \in Printers : stage[p] \in {"put", "store", "line", "scroll"} => text[p] # <<>>
  /\ page \in Pages
  /\ overlap \in BOOLEAN

LastRow(rows) == Len(rows) - Above(rows) - 1
Resting ==
  /\ cell = Shown(page.rows)
  /\ caret = [row |-> LastRow(page.rows), col |-> page.col]

\* The rows when a character has been stored in the last column and the line
\* is not broken yet.
LineRows(p) == IF Head(text[p]) = LF THEN page.rows ELSE Ink(page, page.col, Head(text[p]))
EndsLine(p) == Head(text[p]) \notin {LF, CR, BS} => page.col + 1 = Width

\* scroll_frame has moved the rows before k up by one.
Frame == 0 .. Height * Width - 1
Scrolled(rows, k) ==
  [off \in Frame |->
     Place(IF off \div Width < k - 1 THEN Append(rows, BlankRow) ELSE rows,
           off \div Width, off % Width)]

Within(p) ==
  /\ stage[p] \in {"store", "aimed"} => Resting /\ at[p] = caret
  /\ stage[p] = "store" => Head(text[p]) # LF
  /\ stage[p] \in {"line", "scroll"} => Head(text[p]) \notin {CR, BS} /\ EndsLine(p)
  /\ stage[p] = "line" => cell = Shown(LineRows(p)) /\ at[p].row = LastRow(page.rows)
  /\ stage[p] = "scroll" =>
       /\ Len(page.rows) >= Height
       /\ at[p].row = Height - 1 /\ at[p].col \in 1 .. Height
       /\ caret = [row |-> Height, col |-> 0]
       /\ cell = Scrolled(LineRows(p), at[p].col)

\* Nobody has interfered with a printer.
Undisturbed ==
  /\ \A p, q \in Printers : Busy(p) /\ Busy(q) => p = q
  /\ \A p \in Printers : Busy(p) => Within(p)
  /\ (\A p \in Printers : ~Busy(p)) => Resting
  /\ (\A p \in Printers : stage[p] = "idle") => cursor = caret

ScreenInv == ConsoleTyped /\ (~overlap => Undisturbed)
-----------------------------------------------------------------------------
(* Induction over the naturals, from the well-foundedness of finite sets.  *)

\* A set of naturals that is not empty has a least element.
LEMMA LeastNat ==
  ASSUME NEW S \in SUBSET Nat, S # {}
  PROVE  \E m \in S : \A n \in S : m <= n
<1> DEFINE U == {0 .. k : k \in S}
<1>0. ASSUME NEW k \in S PROVE 0 .. k \subseteq Nat /\ IsFiniteSet(0 .. k)
  <2>1. 0 \in Int /\ k \in Int
    OBVIOUS
  <2> QED
    BY <2>1, FS_Interval
<1>1. U \subseteq FiniteSubsetsOf(Nat) /\ U # {}
  BY <1>0 DEF FiniteSubsetsOf
<1>2. PICK X \in U : \A Y \in U : <<Y, X>> \notin StrictSubsetOrdering(Nat)
  BY <1>1, FS_StrictSubsetOrderingWellFounded, WFMin
<1>3. PICK m \in S : X = 0 .. m
  OBVIOUS
<1>4. ASSUME NEW n \in S, n < m PROVE FALSE
  <2>1. 0 .. n \in U /\ 0 .. n \subseteq 0 .. m /\ m \in 0 .. m /\ m \notin 0 .. n
    BY <1>4
  <2>2. 0 .. m \subseteq Nat /\ 0 .. n # 0 .. m
    BY <2>1
  <2>3. <<0 .. n, 0 .. m>> \in StrictSubsetOrdering(Nat)
    BY <2>1, <2>2, Zenon DEF StrictSubsetOrdering
  <2> QED
    BY <1>2, <1>3, <2>1, <2>3
<1>5. \A n \in S : m <= n
  BY <1>4
<1> QED
  BY <1>5

\* A property of 0 that each number hands on to the next is one of all.
LEMMA SetInduction ==
  ASSUME NEW S, 0 \in S, \A n \in Nat : n \in S => n + 1 \in S
  PROVE  Nat \subseteq S
<1> SUFFICES ASSUME ~(Nat \subseteq S) PROVE FALSE
  OBVIOUS
<1>1. PICK m \in Nat \ S : \A n \in Nat \ S : m <= n
  BY LeastNat
<1>2. m - 1 \in Nat /\ m - 1 \in S
  BY <1>1
<1>3. (m - 1) + 1 = m
  BY <1>1
<1> QED
  BY <1>1, <1>2, <1>3

LEMMA Quotient ==
  ASSUME NEW w \in Nat, w > 1, NEW n \in Nat
  PROVE  /\ n \div w \in Nat /\ n % w \in 0 .. w - 1
         /\ n = (n \div w) * w + (n % w)
         /\ n >= w => n \div w < n
         /\ n < w => n % w = n
<1> DEFINE q == n \div w
           r == n % w
<1>1. q \in Nat /\ r \in 0 .. w - 1 /\ n = q * w + r
  BY SMT
<1> HIDE DEF q, r
<1>2. q >= 1 => q * w > q
  BY <1>1, SMT
<1>3. q = 0 => q * w = 0
  BY <1>1, SMT
<1>4. q >= 1 => q * w >= w
  BY <1>1, SMT
<1>5. q * w \in Nat
  BY <1>1, SMT
<1>6. n >= w => q < n
  BY <1>1, <1>2, <1>3, <1>5
<1>7. n < w => r = n
  BY <1>1, <1>3, <1>4, <1>5
<1> QED
  BY <1>1, <1>6, <1>7 DEF q, r

(* What ultoa makes of the digits above the last.                          *)
Rest(f, v, radix) == IF v < radix THEN <<>> ELSE f[v \div radix]
DigitsUpTo(f, n, radix, lbase) ==
  f = [v \in 0 .. n |-> <<Digit(v % radix, lbase)>> \o Rest(f, v, radix)]

LEMMA DigitsUpToAgree ==
  ASSUME NEW radix \in Nat, radix > 1, NEW lbase, NEW n \in Nat, NEW m \in Nat, NEW f, NEW g,
         DigitsUpTo(f, n, radix, lbase), DigitsUpTo(g, m, radix, lbase)
  PROVE  \A v \in Nat : v <= n /\ v <= m => f[v] = g[v]
<1> DEFINE S == {v \in Nat : v <= n /\ v <= m /\ f[v] # g[v]}
<1> SUFFICES ASSUME S # {} PROVE FALSE
  OBVIOUS
<1>1. PICK v \in S : \A k \in S : v <= k
  BY LeastNat
<1>2. v \in 0 .. n /\ v \in 0 .. m /\ f[v] # g[v] /\ v \in Nat
  BY <1>1
<1>3. f[v] = <<Digit(v % radix, lbase)>> \o Rest(f, v, radix)
  BY <1>2 DEF DigitsUpTo
<1>4. g[v] = <<Digit(v % radix, lbase)>> \o Rest(g, v, radix)
  BY <1>2 DEF DigitsUpTo
<1>5. Rest(f, v, radix) # Rest(g, v, radix)
  BY <1>2, <1>3, <1>4, Zenon
<1>6. ~(v < radix) /\ f[v \div radix] # g[v \div radix]
  BY <1>5 DEF Rest
<1>7. v \div radix \in Nat /\ v \div radix < v
  BY <1>2, <1>6, Quotient
<1>8. v \div radix \in S
  BY <1>2, <1>6, <1>7
<1> QED
  BY <1>1, <1>7, <1>8

LEMMA DigitsUpToExist ==
  ASSUME NEW radix \in Nat, radix > 1, NEW lbase
  PROVE  \A n \in Nat : \E f : DigitsUpTo(f, n, radix, lbase)
<1> DEFINE S == {n \in Nat : \E f : DigitsUpTo(f, n, radix, lbase)}
<1>1. 0 \in S
  <2> DEFINE f == [v \in 0 .. 0 |-> <<Digit(v % radix, lbase)>> \o <<>>]
  <2>1. \A v \in 0 .. 0 : Rest(f, v, radix) = <<>>
    BY DEF Rest
  <2>2. f = [v \in 0 .. 0 |-> <<Digit(v % radix, lbase)>> \o Rest(f, v, radix)]
    BY <2>1
  <2> QED
    BY <2>2 DEF DigitsUpTo
<1>2. ASSUME NEW n \in Nat, n \in S PROVE n + 1 \in S
  <2>1. PICK f : DigitsUpTo(f, n, radix, lbase)
    BY <1>2
  <2> DEFINE g == [v \in 0 .. n + 1 |-> <<Digit(v % radix, lbase)>> \o Rest(f, v, radix)]
  <2>2. ASSUME NEW v \in 0 .. n + 1 PROVE Rest(g, v, radix) = Rest(f, v, radix)
    <3>1. CASE v < radix
      BY <3>1 DEF Rest
    <3>2. CASE ~(v < radix)
      <4>1. v \in Nat /\ v \div radix \in Nat /\ v \div radix < v
        BY <3>2, Quotient
      <4> DEFINE q == v \div radix
      <4>2. q \in 0 .. n /\ q \in 0 .. n + 1
        BY <4>1
      <4> HIDE DEF q
      <4>3. g[q] = <<Digit(q % radix, lbase)>> \o Rest(f, q, radix)
        BY <4>2
      <4>4. f[q] = <<Digit(q % radix, lbase)>> \o Rest(f, q, radix)
        BY <2>1, <4>2 DEF DigitsUpTo
      <4>5. f[q] = g[q]
        BY <4>3, <4>4, Zenon
      <4> QED
        BY <3>2, <4>5 DEF Rest, q
    <3> QED
      BY <3>1, <3>2
  <2>3. g = [v \in 0 .. n + 1 |-> <<Digit(v % radix, lbase)>> \o Rest(g, v, radix)]
    BY <2>2
  <2>4. DigitsUpTo(g, n + 1, radix, lbase)
    BY <2>3, Zenon DEF DigitsUpTo
  <2> QED
    BY <2>4
<1>3. Nat \subseteq S
  <2> HIDE DEF S
  <2> QED
    BY <1>1, <1>2, SetInduction
<1> QED
  BY <1>3

\* ultoa's loop does what it says.
LEMMA DigitsLoop ==
  ASSUME NEW radix \in Nat, radix > 1, NEW lbase, NEW v \in Nat
  PROVE  Digits(v, radix, lbase)
           = <<Digit(v % radix, lbase)>>
             \o IF v < radix THEN <<>> ELSE Digits(v \div radix, radix, lbase)
<1> DEFINE F(n) == CHOOSE f : DigitsUpTo(f, n, radix, lbase)
           h == [n \in Nat |-> F(n)[n]]
           digits == CHOOSE d : d = [n \in Nat |-> <<Digit(n % radix, lbase)>>
                                        \o IF n < radix THEN <<>> ELSE d[n \div radix]]
<1>1. \A n \in Nat : DigitsUpTo(F(n), n, radix, lbase)
  BY DigitsUpToExist
<1> HIDE DEF F
<1>2. ASSUME NEW n \in Nat PROVE F(n)[n] = <<Digit(n % radix, lbase)>> \o Rest(h, n, radix)
  <2>1. F(n)[n] = <<Digit(n % radix, lbase)>> \o Rest(F(n), n, radix)
    <3>1. F(n) = [k \in 0 .. n |-> <<Digit(k % radix, lbase)>> \o Rest(F(n), k, radix)]
      BY <1>1 DEF DigitsUpTo
    <3>2. n \in 0 .. n
      OBVIOUS
    <3> HIDE DEF h
    <3> QED
      BY <3>1, <3>2
  <2>2. Rest(F(n), n, radix) = Rest(h, n, radix)
    <3>1. CASE n < radix
      BY <3>1 DEF Rest
    <3>2. CASE ~(n < radix)
      <4> DEFINE q == n \div radix
      <4>1. q \in Nat /\ q <= n
        BY <3>2, Quotient
      <4> HIDE DEF q
      <4>2. h[q] = F(q)[q]
        BY <4>1
      <4>3. F(n)[q] = F(q)[q]
        BY <1>1, <4>1, DigitsUpToAgree
      <4> QED
        BY <3>2, <4>2, <4>3 DEF Rest, q
    <3> QED
      BY <3>1, <3>2
  <2> QED
    BY <2>1, <2>2, Zenon
<1>3. h = [n \in Nat |-> <<Digit(n % radix, lbase)>> \o Rest(h, n, radix)]
  BY <1>2
<1>4. h = [n \in Nat |-> <<Digit(n % radix, lbase)>> \o IF n < radix THEN <<>> ELSE h[n \div radix]]
  BY <1>3, Zenon DEF Rest
<1> HIDE DEF h
<1>5. digits = [n \in Nat |-> <<Digit(n % radix, lbase)>> \o IF n < radix THEN <<>> ELSE digits[n \div radix]]
  BY <1>4, Zenon
<1>6. \A n : Digits(n, radix, lbase) = digits[n]
  BY DEF Digits
<1> HIDE DEF digits
<1>7. digits[v] = <<Digit(v % radix, lbase)>> \o IF v < radix THEN <<>> ELSE digits[v \div radix]
  BY <1>5
<1> QED
  BY <1>6, <1>7, Zenon

(* The number of a sequence of digits.                                     *)
NumberUpTo(f, n, ds, base) ==
  f = [k \in 0 .. n |-> IF k = 0 THEN 0 ELSE f[k - 1] * base + DigitValue(ds[k])]

LEMMA NumberUpToExist ==
  ASSUME NEW ds, NEW base
  PROVE  \A n \in Nat : \E f : NumberUpTo(f, n, ds, base)
<1> DEFINE S == {n \in Nat : \E f : NumberUpTo(f, n, ds, base)}
<1>1. 0 \in S
  <2> DEFINE f == [k \in 0 .. 0 |-> 0]
  <2>1. f = [k \in 0 .. 0 |-> IF k = 0 THEN 0 ELSE f[k - 1] * base + DigitValue(ds[k])]
    OBVIOUS
  <2> QED
    BY <2>1 DEF NumberUpTo
<1>2. ASSUME NEW n \in Nat, n \in S PROVE n + 1 \in S
  <2>1. PICK f : NumberUpTo(f, n, ds, base)
    BY <1>2
  <2> DEFINE g == [k \in 0 .. n + 1 |->
                     IF k = 0 THEN 0 ELSE f[k - 1] * base + DigitValue(ds[k])]
  <2>2. ASSUME NEW k \in 0 .. n + 1, k # 0 PROVE g[k - 1] = f[k - 1]
    <3> DEFINE j == k - 1
    <3>1. j \in 0 .. n /\ j \in 0 .. n + 1
      BY <2>2
    <3> HIDE DEF j
    <3>2. g[j] = IF j = 0 THEN 0 ELSE f[j - 1] * base + DigitValue(ds[j])
      BY <3>1
    <3>3. f[j] = IF j = 0 THEN 0 ELSE f[j - 1] * base + DigitValue(ds[j])
      BY <2>1, <3>1 DEF NumberUpTo
    <3> QED
      BY <3>2, <3>3, Zenon DEF j
  <2>3. g = [k \in 0 .. n + 1 |-> IF k = 0 THEN 0 ELSE g[k - 1] * base + DigitValue(ds[k])]
    BY <2>2
  <2>4. NumberUpTo(g, n + 1, ds, base)
    BY <2>3, Zenon DEF NumberUpTo
  <2> QED
    BY <2>4
<1>3. Nat \subseteq S
  <2> HIDE DEF S
  <2> QED
    BY <1>1, <1>2, SetInduction
<1> QED
  BY <1>3

LEMMA NumberLoop ==
  ASSUME NEW ds \in Seq(Int), NEW base
  PROVE  \E f : NumberUpTo(f, Len(ds), ds, base) /\ NumberIn(ds, base) = f[Len(ds)]
<1> DEFINE number == CHOOSE f : f = [k \in 0 .. Len(ds) |->
                        IF k = 0 THEN 0 ELSE f[k - 1] * base + DigitValue(ds[k])]
<1>1. Len(ds) \in Nat
  OBVIOUS
<1>2. \E f : f = [k \in 0 .. Len(ds) |->
                        IF k = 0 THEN 0 ELSE f[k - 1] * base + DigitValue(ds[k])]
  BY <1>1, NumberUpToExist DEF NumberUpTo
<1>3. number = [k \in 0 .. Len(ds) |->
                        IF k = 0 THEN 0 ELSE number[k - 1] * base + DigitValue(ds[k])]
  BY <1>2, Zenon
<1>4. NumberIn(ds, base) = number[Len(ds)]
  BY DEF NumberIn
<1> HIDE DEF number
<1> QED
  BY <1>3, <1>4, Zenon DEF NumberUpTo

LEMMA NumberOfNone == ASSUME NEW base PROVE NumberIn(<<>>, base) = 0
<1>1. <<>> \in Seq(Int) /\ Len(<<>>) = 0
  OBVIOUS
<1>2. PICK f : NumberUpTo(f, 0, <<>>, base) /\ NumberIn(<<>>, base) = f[0]
  BY <1>1, NumberLoop
<1> QED
  BY <1>2 DEF NumberUpTo

LEMMA NumberOfAppend ==
  ASSUME NEW ds \in Seq(Int), NEW c \in Int, NEW base
  PROVE  NumberIn(ds \o <<c>>, base) = NumberIn(ds, base) * base + DigitValue(c)
<1> DEFINE es == ds \o <<c>>
           n == Len(ds)
<1>1. es \in Seq(Int) /\ n \in Nat /\ Len(es) = n + 1 /\ es[n + 1] = c
      /\ \A k \in 1 .. n : ds[k] = es[k]
  OBVIOUS
<1> HIDE DEF es, n
<1>2. PICK f : NumberUpTo(f, n, ds, base) /\ NumberIn(ds, base) = f[n]
  BY NumberLoop DEF n
<1>3. PICK g : NumberUpTo(g, n + 1, es, base) /\ NumberIn(es, base) = g[n + 1]
  BY <1>1, NumberLoop
<1> DEFINE S == {k \in Nat : k <= n => f[k] = g[k]}
<1>4. f[n] = g[n]
  <2>1. 0 \in S
    BY <1>1, <1>2, <1>3 DEF NumberUpTo
  <2>2. ASSUME NEW k \in Nat, k \in S PROVE k + 1 \in S
    <3>1. SUFFICES ASSUME k + 1 <= n PROVE f[k + 1] = g[k + 1]
      OBVIOUS
    <3> DEFINE j == k + 1
    <3>2. j \in 0 .. n /\ j \in 0 .. n + 1 /\ j # 0 /\ j - 1 = k /\ j \in 1 .. n
      BY <1>1, <3>1
    <3>5. f[k] = g[k]
      BY <1>1, <2>2, <3>1
    <3> HIDE DEF j
    <3>6. ds[j] = es[j]
      BY <1>1, <3>2, Zenon
    <3>3. f[j] = f[j - 1] * base + DigitValue(ds[j])
      BY <1>2, <3>2 DEF NumberUpTo
    <3>4. g[j] = g[j - 1] * base + DigitValue(es[j])
      BY <1>3, <3>2 DEF NumberUpTo
    <3> QED
      BY <3>2, <3>3, <3>4, <3>5, <3>6, Zenon DEF j
  <2>3. Nat \subseteq S
    <3> HIDE DEF S
    <3> QED
      BY <2>1, <2>2, SetInduction
  <2> QED
    BY <1>1, <2>3
<1>5. g[n + 1] = g[(n + 1) - 1] * base + DigitValue(es[n + 1])
  BY <1>1, <1>3 DEF NumberUpTo
<1>6. (n + 1) - 1 = n
  BY <1>1
<1> QED
  BY <1>1, <1>2, <1>3, <1>4, <1>5, <1>6, Zenon DEF es

LEMMA ReverseOfConcat ==
  ASSUME NEW s \in Seq(Int), NEW t \in Seq(Int)
  PROVE  Reverse(s \o t) = Reverse(t) \o Reverse(s) /\ Reverse(s) \in Seq(Int)
<1> DEFINE u == s \o t
           a == Reverse(u)
           b == Reverse(t) \o Reverse(s)
<1>1. Len(s) \in Nat /\ Len(t) \in Nat /\ u \in Seq(Int) /\ Len(u) = Len(s) + Len(t)
  OBVIOUS
<1>2. /\ \A i \in 1 .. Len(s) : u[i] = s[i]
      /\ \A i \in 1 .. Len(t) : u[Len(s) + i] = t[i]
  OBVIOUS
<1> HIDE DEF u
<1>3. a \in Seq(Int) /\ Len(a) = Len(u) /\ \A i \in 1 .. Len(u) : a[i] = u[Len(u) - i + 1]
  BY <1>1 DEF Reverse
<1>4. /\ Reverse(s) \in Seq(Int) /\ Len(Reverse(s)) = Len(s)
      /\ \A i \in 1 .. Len(s) : Reverse(s)[i] = s[Len(s) - i + 1]
  BY <1>1 DEF Reverse
<1>5. /\ Reverse(t) \in Seq(Int) /\ Len(Reverse(t)) = Len(t)
      /\ \A i \in 1 .. Len(t) : Reverse(t)[i] = t[Len(t) - i + 1]
  BY <1>1 DEF Reverse
<1> DEFINE rs == Reverse(s)
           rt == Reverse(t)
<1> HIDE DEF a, rs, rt
<1>6. b \in Seq(Int) /\ Len(b) = Len(rt) + Len(rs)
      /\ \A i \in 1 .. Len(rt) + Len(rs) : b[i] = IF i <= Len(rt) THEN rt[i] ELSE rs[i - Len(rt)]
  <2>1. rt \in Seq(Int) /\ rs \in Seq(Int)
    BY <1>4, <1>5 DEF rs, rt
  <2>2. b = rt \o rs
    BY DEF rs, rt
  <2> HIDE DEF b
  <2> QED
    BY <2>1, <2>2
<1> HIDE DEF b
<1>7. ASSUME NEW i \in 1 .. Len(u) PROVE a[i] = b[i]
  <2>1. a[i] = u[Len(u) - i + 1]
    BY <1>3
  <2>2. CASE i <= Len(t)
    <3> DEFINE j == Len(t) - i + 1
    <3>1. j \in 1 .. Len(t) /\ Len(u) - i + 1 = Len(s) + j /\ i \in 1 .. Len(t)
          /\ i \in 1 .. Len(t) + Len(s)
      BY <1>1, <2>2
    <3>2. rt[i] = t[j]
      BY <1>5, <3>1 DEF rt
    <3> HIDE DEF j
    <3>3. u[Len(s) + j] = t[j]
      BY <1>2, <3>1
    <3>4. b[i] = rt[i]
      BY <1>1, <1>4, <1>5, <1>6, <2>2, <3>1 DEF rs, rt
    <3> QED
      BY <2>1, <3>1, <3>2, <3>3, <3>4, Zenon
  <2>3. CASE ~(i <= Len(t))
    <3> DEFINE k == i - Len(t)
               j == Len(s) - k + 1
    <3>1. k \in 1 .. Len(s) /\ j \in 1 .. Len(s) /\ Len(u) - i + 1 = j
          /\ i \in 1 .. Len(t) + Len(s)
      BY <1>1, <2>3
    <3>2. rs[k] = s[j]
      BY <1>4, <3>1 DEF rs
    <3>3. b[i] = rs[k]
      BY <1>1, <1>4, <1>5, <1>6, <2>3, <3>1 DEF rs, rt
    <3> HIDE DEF j, k
    <3>4. u[j] = s[j]
      BY <1>2, <3>1
    <3> QED
      BY <2>1, <3>1, <3>2, <3>3, <3>4, Zenon
  <2> QED
    BY <2>2, <2>3
<1>8. Len(a) = Len(b)
  BY <1>1, <1>3, <1>4, <1>5, <1>6 DEF rs, rt
<1>9. a = b
  BY <1>3, <1>6, <1>7, <1>8, SeqEqual
<1> QED
  BY <1>4, <1>9 DEF a, b, u, rs, rt

LEMMA ReverseOfOne == ASSUME NEW c \in Int PROVE Reverse(<<c>>) = <<c>>
  BY DEF Reverse

LEMMA DigitReads ==
  ASSUME NEW d \in 0 .. 35, NEW lbase \in {65, 97}
  PROVE  /\ Digit(d, lbase) \in Int /\ DigitValue(Digit(d, lbase)) = d
         /\ d < 10 => Digit(d, lbase) \in 48 .. 57
  BY DEF Digit, DigitValue

(* The text that stands for v: its digits, the last first.                 *)
Reads(ds, v, radix) ==
  /\ ds \in Seq(Int) /\ ds # <<>>
  /\ NumberIn(Reverse(ds), radix) = v
  /\ radix = 10 => \A i \in 1 .. Len(ds) : ds[i] \in 48 .. 57

LEMMA DigitsRead ==
  ASSUME NEW radix \in 2 .. 36, NEW lbase \in {65, 97}
  PROVE  \A v \in Nat : Reads(Digits(v, radix, lbase), v, radix)
<1> DEFINE S == {v \in Nat : ~Reads(Digits(v, radix, lbase), v, radix)}
<1> SUFFICES ASSUME S # {} PROVE FALSE
  OBVIOUS
<1>1. PICK v \in S : \A k \in S : v <= k
  BY LeastNat
<1>2. v \in Nat /\ ~Reads(Digits(v, radix, lbase), v, radix) /\ radix \in Nat /\ radix > 1
  BY <1>1
<1> DEFINE c == Digit(v % radix, lbase)
           q == v \div radix
           ds == Digits(v, radix, lbase)
<1>3. /\ q \in Nat /\ v % radix \in 0 .. 35 /\ v = q * radix + (v % radix)
      /\ v >= radix => q < v
      /\ v < radix => v % radix = v
      /\ v % radix \in 0 .. radix - 1
  BY <1>2, Quotient
<1>4. c \in Int /\ DigitValue(c) = v % radix /\ (radix = 10 => c \in 48 .. 57)
  BY <1>3, DigitReads
<1>5. ds = <<c>> \o IF v < radix THEN <<>> ELSE Digits(q, radix, lbase)
  BY <1>2, DigitsLoop
<1> HIDE DEF c, ds
<1>6. CASE v < radix
  <2>1. ds = <<c>>
    BY <1>5, <1>6
  <2>2. Reverse(ds) = <<>> \o <<c>>
    BY <1>4, <2>1, ReverseOfOne
  <2>3. NumberIn(Reverse(ds), radix) = 0 * radix + DigitValue(c)
    <3>1. <<>> \in Seq(Int)
      OBVIOUS
    <3> QED
      BY <1>4, <2>2, <3>1, NumberOfNone, NumberOfAppend
  <2>4. NumberIn(Reverse(ds), radix) = v
    BY <1>2, <1>3, <1>4, <1>6, <2>3
  <2>5. ds \in Seq(Int) /\ ds # <<>> /\ (radix = 10 => \A i \in 1 .. Len(ds) : ds[i] \in 48 .. 57)
    BY <1>4, <2>1
  <2> QED
    BY <1>2, <2>4, <2>5 DEF Reads, ds
<1>7. CASE ~(v < radix)
  <2> DEFINE t == Digits(q, radix, lbase)
  <2>1. q < v
    BY <1>2, <1>3, <1>7
  <2>2. Reads(t, q, radix)
    BY <1>1, <1>2, <1>3, <2>1
  <2>3. ds = <<c>> \o t
    BY <1>5, <1>7
  <2> HIDE DEF t, q
  <2>4. t \in Seq(Int) /\ <<c>> \in Seq(Int) /\ NumberIn(Reverse(t), radix) = q
    BY <1>4, <2>2 DEF Reads
  <2>5. Reverse(ds) = Reverse(t) \o <<c>> /\ Reverse(t) \in Seq(Int)
    BY <1>4, <2>3, <2>4, ReverseOfConcat, ReverseOfOne
  <2>6. NumberIn(Reverse(ds), radix) = q * radix + DigitValue(c)
    BY <1>4, <2>4, <2>5, NumberOfAppend
  <2>7. NumberIn(Reverse(ds), radix) = v
    BY <1>3, <1>4, <2>6
  <2>8. ds \in Seq(Int) /\ ds # <<>>
    BY <2>3, <2>4
  <2>9. ASSUME radix = 10, NEW i \in 1 .. Len(ds) PROVE ds[i] \in 48 .. 57
    <3>1. \A k \in 1 .. Len(t) : t[k] \in 48 .. 57
      BY <2>2, <2>9 DEF Reads
    <3>2. c \in 48 .. 57
      BY <1>4, <2>9
    <3>3. /\ Len(<<c>>) = 1 /\ <<c>>[1] = c /\ Len(ds) = 1 + Len(t)
          /\ ds[1] = c /\ \A k \in 1 .. Len(t) : ds[k + 1] = t[k]
      BY <2>3, <2>4
    <3>4. CASE i = 1
      BY <3>2, <3>3, <3>4
    <3>5. CASE i # 1
      <4> DEFINE k == i - 1
      <4>1. k \in 1 .. Len(t) /\ k + 1 = i
        BY <3>3, <3>5, <2>4
      <4> HIDE DEF k
      <4> QED
        BY <3>1, <3>3, <4>1
    <3> QED
      BY <3>4, <3>5
  <2> QED
    BY <1>2, <2>7, <2>8, <2>9 DEF Reads, ds
<1> QED
  BY <1>6, <1>7

(* The conversions of kprintf.                                             *)
LEMMA DecimalReads ==
  ASSUME NEW v \in Nat
  PROVE  /\ Ultoa(v, 10, 97) \in Seq(Int) /\ Ultoa(v, 10, 97) # <<>>
         /\ NumberIn(Ultoa(v, 10, 97), 10) = v
         /\ \A i \in 1 .. Len(Ultoa(v, 10, 97)) : Ultoa(v, 10, 97)[i] \in 48 .. 57
<1> DEFINE ds == Digits(v, 10, 97)
<1>1. Reads(ds, v, 10)
  BY DigitsRead
<1>2. Ultoa(v, 10, 97) = Reverse(ds \o <<>>)
  BY DEF Ultoa
<1> HIDE DEF ds
<1>3. ds \in Seq(Int) /\ ds # <<>> /\ NumberIn(Reverse(ds), 10) = v /\ Len(ds) \in Nat
      /\ \A i \in 1 .. Len(ds) : ds[i] \in 48 .. 57
  BY <1>1 DEF Reads
<1>4. ds \o <<>> = ds
  BY <1>3
<1>5. Reverse(ds) \in Seq(Int) /\ Len(Reverse(ds)) = Len(ds)
      /\ \A i \in 1 .. Len(ds) : Reverse(ds)[i] = ds[Len(ds) - i + 1]
  BY <1>3 DEF Reverse
<1>6. \A i \in 1 .. Len(ds) : Reverse(ds)[i] \in 48 .. 57
  <2>1. ASSUME NEW i \in 1 .. Len(ds) PROVE Reverse(ds)[i] \in 48 .. 57
    <3> DEFINE j == Len(ds) - i + 1
    <3>1. j \in 1 .. Len(ds)
      BY <1>3
    <3> HIDE DEF j
    <3>2. ds[j] \in 48 .. 57
      BY <1>3, <3>1, Zenon
    <3> QED
      BY <1>5, <3>2 DEF j
  <2> QED
    BY <2>1
<1>7. Len(ds) # 0
  BY <1>3
<1>8. Reverse(ds) # <<>>
  BY <1>5, <1>7
<1> QED
  BY <1>2, <1>3, <1>4, <1>5, <1>6, <1>8

LEMMA HexReads ==
  ASSUME NEW v \in Nat, NEW lbase \in {65, 97}
  PROVE  \E ds \in Seq(Int) : /\ Ultoa(v, 16, lbase) = <<48, 120>> \o ds
                              /\ ds # <<>> /\ NumberIn(ds, 16) = v
<1> DEFINE ds == Digits(v, 16, lbase)
<1>1. Reads(ds, v, 16)
  BY DigitsRead
<1>2. Ultoa(v, 16, lbase) = Reverse(ds \o <<120, 48>>)
  BY DEF Ultoa
<1> HIDE DEF ds
<1>3. ds \in Seq(Int) /\ ds # <<>> /\ NumberIn(Reverse(ds), 16) = v /\ <<120, 48>> \in Seq(Int)
  BY <1>1 DEF Reads
<1>4. Reverse(ds \o <<120, 48>>) = Reverse(<<120, 48>>) \o Reverse(ds) /\ Reverse(ds) \in Seq(Int)
  BY <1>3, ReverseOfConcat
<1>5. Reverse(<<120, 48>>) = <<48, 120>>
  <2> DEFINE r == Reverse(<<120, 48>>)
  <2>1. r \in Seq(Int) /\ Len(r) = 2 /\ r[1] = 48 /\ r[2] = 120
    BY DEF Reverse
  <2> HIDE DEF r
  <2>2. r = <<48, 120>>
    BY <2>1
  <2> QED
    BY <2>2 DEF r
<1>6. Len(Reverse(ds)) = Len(ds) /\ Len(ds) # 0
  BY <1>3 DEF Reverse
<1>7. Reverse(ds) # <<>>
  BY <1>4, <1>6
<1> QED
  BY <1>2, <1>3, <1>4, <1>5, <1>7

LEMMA UnsignedOfInt ==
  ASSUME NEW v \in Ints
  PROVE  /\ v \in Int /\ Unsigned(v) \in Nat
         /\ v < 0 => -v \in Nat /\ Unsigned(-v) = -v
<1>1. Wrap \in Nat \ {0} /\ v \in -(Wrap \div 2) .. Wrap - 1 - Wrap \div 2
  BY ConsoleAssumption DEF Ints
<1>2. v \in Int /\ Wrap \div 2 \in Nat /\ (Wrap \div 2 < Wrap)
  BY <1>1
<1>3. v % Wrap \in Nat
  BY <1>1, <1>2
<1>4. v < 0 => -v \in 0 .. Wrap - 1
  BY <1>1, <1>2
<1>5. v < 0 => (-v) % Wrap = -v
  BY <1>1, <1>4
<1> QED
  BY <1>2, <1>3, <1>4, <1>5 DEF Unsigned

LEMMA SignedReads ==
  ASSUME NEW v \in Ints
  PROVE  Conversion(<<"d", v>>) \in Seq(Int) /\ ValueOf(Conversion(<<"d", v>>)) = v
<1> DEFINE s == Conversion(<<"d", v>>)
<1>1. s = IF v < 0 THEN <<45>> \o Ultoa(Unsigned(-v), 10, 97) ELSE Ultoa(v, 10, 97)
  BY DEF Conversion
<1> HIDE DEF s
<1>2. CASE v < 0
  <2> DEFINE t == Ultoa(-v, 10, 97)
  <2>1. -v \in Nat /\ Unsigned(-v) = -v /\ v \in Int
    BY <1>2, UnsignedOfInt
  <2>2. t \in Seq(Int) /\ NumberIn(t, 10) = -v /\ \A i \in 1 .. Len(t) : t[i] \in 48 .. 57
    BY <2>1, DecimalReads
  <2>3. s = <<45>> \o t
    BY <1>1, <1>2, <2>1
  <2> HIDE DEF t
  <2>4. s \in Seq(Int) /\ Head(s) = 45 /\ Tail(s) = t
    BY <2>2, <2>3
  <2>5. ~(Len(s) > 2 /\ s[2] = 120)
    <3>1. Len(s) > 2 => s[2] = t[1] /\ 1 \in 1 .. Len(t)
      BY <2>2, <2>3
    <3>2. Len(s) > 2 => s[2] \in 48 .. 57
      BY <2>2, <3>1, Zenon
    <3> QED
      BY <3>2
  <2>6. ValueOf(s) = -NumberIn(t, 10)
    BY <2>4, <2>5, Zenon DEF ValueOf
  <2> QED
    BY <2>1, <2>2, <2>4, <2>6 DEF s
<1>3. CASE ~(v < 0)
  <2>1. v \in Nat
    BY <1>3, UnsignedOfInt
  <2>2. /\ s \in Seq(Int) /\ s # <<>> /\ NumberIn(s, 10) = v
        /\ \A i \in 1 .. Len(s) : s[i] \in 48 .. 57
    BY <1>1, <1>3, <2>1, DecimalReads
  <2>3. Head(s) # 45
    <3>1. Head(s) = s[1] /\ 1 \in 1 .. Len(s)
      BY <2>2
    <3>2. s[1] \in 48 .. 57
      BY <2>2, <3>1
    <3> QED
      BY <3>1, <3>2
  <2>4. ~(Len(s) > 2 /\ s[2] = 120)
    <3>1. Len(s) > 2 => 2 \in 1 .. Len(s)
      BY <2>2
    <3>2. Len(s) > 2 => s[2] \in 48 .. 57
      BY <2>2, <3>1, Zenon
    <3> QED
      BY <3>2
  <2>5. ValueOf(s) = NumberIn(s, 10)
    BY <2>3, <2>4 DEF ValueOf
  <2> QED
    BY <2>2, <2>5 DEF s
<1> QED
  BY <1>2, <1>3

LEMMA HexTextReads ==
  ASSUME NEW s, NEW ds \in Seq(Int), s = <<48, 120>> \o ds, ds # <<>>
  PROVE  s \in Seq(Int) /\ ValueOf(s) = NumberIn(ds, 16)
<1>1. Len(ds) \in Nat \ {0} /\ <<48, 120>> \in Seq(Int) /\ Len(<<48, 120>>) = 2
  BY EmptySeq
<1>2. s \in Seq(Int) /\ Len(s) = Len(ds) + 2 /\ s[1] = 48 /\ s[2] = 120
      /\ \A i \in 1 .. Len(ds) : s[i + 2] = ds[i]
  BY <1>1
<1>3. Head(s) = 48 /\ Len(s) > 2
  BY <1>1, <1>2
<1>4. ValueOf(s) = NumberIn(SubSeq(s, 3, Len(s)), 16)
  BY <1>2, <1>3 DEF ValueOf
<1> DEFINE t == SubSeq(s, 3, Len(s))
<1>5. t \in Seq(Int) /\ Len(t) = Len(ds) /\ \A i \in 1 .. Len(ds) : t[i] = s[i + 2]
  BY <1>1, <1>2
<1> HIDE DEF t
<1>6. t = ds
  BY <1>2, <1>5, SeqEqual
<1> QED
  BY <1>2, <1>4, <1>6 DEF t

LEMMA UnsignedReads ==
  ASSUME NEW v \in Ints, NEW type \in {"x", "X"}
  PROVE  /\ Conversion(<<type, v>>) \in Seq(Int)
         /\ ValueOf(Conversion(<<type, v>>)) = Unsigned(v)
<1> DEFINE s == Conversion(<<type, v>>)
<1>1. Unsigned(v) \in Nat
  BY UnsignedOfInt
<1>2. PICK lbase \in {65, 97} : s = Ultoa(Unsigned(v), 16, lbase)
  BY DEF Conversion
<1> HIDE DEF s
<1>3. PICK ds \in Seq(Int) : s = <<48, 120>> \o ds /\ ds # <<>> /\ NumberIn(ds, 16) = Unsigned(v)
  BY <1>1, <1>2, HexReads
<1>4. s \in Seq(Int) /\ ValueOf(s) = NumberIn(ds, 16)
  BY <1>3, HexTextReads
<1> QED
  BY <1>3, <1>4 DEF s

LEMMA ConversionIsText == ASSUME NEW item \in Items PROVE Conversion(item) \in Seq(Int)
<1>1. CASE item \in {"d", "x", "X"} \X Ints
  <2>1. PICK type \in {"d", "x", "X"}, v \in Ints : item = <<type, v>>
    BY <1>1
  <2>2. CASE type = "d"
    BY <2>1, <2>2, SignedReads
  <2>3. CASE type # "d"
    BY <2>1, <2>3, UnsignedReads
  <2> QED
    BY <2>2, <2>3
<1>2. CASE item \in {"c"} \X Int
  <2>1. PICK v \in Int : item = <<"c", v>>
    BY <1>2
  <2>2. Conversion(item) = IF v = NUL THEN <<>> ELSE <<v>>
    BY <2>1 DEF Conversion
  <2> QED
    BY <2>2
<1>3. CASE item \in {"s"} \X Seq(Int)
  <2>1. PICK v \in Seq(Int) : item = <<"s", v>>
    BY <1>3
  <2>2. Conversion(item) = v
    BY <2>1 DEF Conversion
  <2> QED
    BY <2>2
<1> QED
  BY <1>1, <1>2, <1>3 DEF Items

(* The text of a format: the conversions one after the other.              *)
FlatUpTo(f, n, seqs) == f = [i \in 1 .. n |-> IF i = 1 THEN seqs[i] ELSE f[i - 1] \o seqs[i]]

LEMMA FlatUpToExist ==
  ASSUME NEW seqs \in Seq(Seq(Int))
  PROVE  \A n \in Nat : n \in 1 .. Len(seqs) => \E f : FlatUpTo(f, n, seqs) /\ f[n] \in Seq(Int)
<1> DEFINE S == {n \in Nat : n \in 1 .. Len(seqs) =>
                               \E f : FlatUpTo(f, n, seqs) /\ f[n] \in Seq(Int)}
<1>0. \A i \in 1 .. Len(seqs) : seqs[i] \in Seq(Int)
  BY ElementOfSeq
<1>1. 0 \in S
  OBVIOUS
<1>2. ASSUME NEW n \in Nat, n \in S PROVE n + 1 \in S
  <2>1. SUFFICES ASSUME n + 1 \in 1 .. Len(seqs)
                 PROVE  \E g : FlatUpTo(g, n + 1, seqs) /\ g[n + 1] \in Seq(Int)
    OBVIOUS
  <2>2. seqs[n + 1] \in Seq(Int)
    BY <1>0, <2>1
  <2>3. CASE n = 0
    <3> DEFINE g == [i \in 1 .. 1 |-> seqs[i]]
    <3>1. g = [i \in 1 .. 1 |-> IF i = 1 THEN seqs[i] ELSE g[i - 1] \o seqs[i]]
      OBVIOUS
    <3>2. FlatUpTo(g, 1, seqs) /\ g[1] \in Seq(Int)
      <4>1. g[1] = seqs[1]
        OBVIOUS
      <4>2. seqs[1] \in Seq(Int)
        BY <2>2, <2>3
      <4>3. FlatUpTo(g, 1, seqs)
        BY <3>1, Zenon DEF FlatUpTo
      <4> QED
        BY <4>1, <4>2, <4>3, Zenon
    <3>3. n + 1 = 1
      BY <2>3
    <3> HIDE DEF g
    <3> QED
      BY <3>2, <3>3
  <2>4. CASE n # 0
    <3>1. n \in 1 .. Len(seqs)
      BY <2>1, <2>4
    <3>2. PICK f : FlatUpTo(f, n, seqs) /\ f[n] \in Seq(Int)
      BY <1>2, <3>1
    <3> DEFINE g == [i \in 1 .. n + 1 |-> IF i = 1 THEN seqs[i] ELSE f[i - 1] \o seqs[i]]
    <3>3. ASSUME NEW i \in 1 .. n + 1, i # 1 PROVE g[i - 1] = f[i - 1]
      <4> DEFINE j == i - 1
      <4>1. j \in 1 .. n /\ j \in 1 .. n + 1
        BY <3>3
      <4> HIDE DEF j
      <4>2. g[j] = IF j = 1 THEN seqs[j] ELSE f[j - 1] \o seqs[j]
        BY <4>1
      <4>3. f[j] = IF j = 1 THEN seqs[j] ELSE f[j - 1] \o seqs[j]
        BY <3>2, <4>1 DEF FlatUpTo
      <4> QED
        BY <4>2, <4>3, Zenon DEF j
    <3>4. g = [i \in 1 .. n + 1 |-> IF i = 1 THEN seqs[i] ELSE g[i - 1] \o seqs[i]]
      BY <3>3
    <3>5. FlatUpTo(g, n + 1, seqs)
      BY <3>4, Zenon DEF FlatUpTo
    <3>6. g[n + 1] = f[n] \o seqs[n + 1]
      <4> DEFINE m == n + 1
      <4>1. m \in 1 .. n + 1 /\ m # 1 /\ m - 1 = n
        BY <2>4
      <4> HIDE DEF m
      <4>2. g[m] = f[m - 1] \o seqs[m]
        BY <4>1
      <4> QED
        BY <4>1, <4>2, Zenon DEF m
    <3>7. f[n] \o seqs[n + 1] \in Seq(Int)
      BY <2>2, <3>2
    <3> HIDE DEF g
    <3> QED
      BY <3>5, <3>6, <3>7
  <2> QED
    BY <2>3, <2>4
<1>3. Nat \subseteq S
  <2> HIDE DEF S
  <2> QED
    BY <1>1, <1>2, SetInduction
<1> QED
  BY <1>3

\* Two functions that FlattenSeq's recursion describes are the same.
LEMMA FlatUpToAgree ==
  ASSUME NEW seqs, NEW n \in Nat, NEW f, NEW g, FlatUpTo(f, n, seqs), FlatUpTo(g, n, seqs)
  PROVE  f = g
<1> DEFINE S == {k \in Nat : k \in 1 .. n => f[k] = g[k]}
<1>1. 0 \in S
  OBVIOUS
<1>2. ASSUME NEW k \in Nat, k \in S PROVE k + 1 \in S
  <2>1. SUFFICES ASSUME k + 1 \in 1 .. n PROVE f[k + 1] = g[k + 1]
    OBVIOUS
  <2> DEFINE j == k + 1
  <2>2. j \in 1 .. n /\ j - 1 = k /\ (j # 1 => f[k] = g[k])
    BY <1>2, <2>1
  <2> HIDE DEF j
  <2>3. f[j] = IF j = 1 THEN seqs[j] ELSE f[j - 1] \o seqs[j]
    BY <2>2 DEF FlatUpTo
  <2>4. g[j] = IF j = 1 THEN seqs[j] ELSE g[j - 1] \o seqs[j]
    BY <2>2 DEF FlatUpTo
  <2> QED
    BY <2>2, <2>3, <2>4, Zenon DEF j
<1>3. Nat \subseteq S
  <2> HIDE DEF S
  <2> QED
    BY <1>1, <1>2, SetInduction
<1>4. \A k \in 1 .. n : f[k] = g[k]
  BY <1>3
<1> DEFINE F(h) == [i \in 1 .. n |-> IF i = 1 THEN seqs[i] ELSE h[i - 1] \o seqs[i]]
<1>5. f = F(f) /\ g = F(g)
  BY DEF FlatUpTo
<1>6. F(f) = [k \in 1 .. n |-> F(f)[k]] /\ F(g) = [k \in 1 .. n |-> F(g)[k]]
  OBVIOUS
<1> HIDE DEF F
<1>7. f = [k \in 1 .. n |-> f[k]] /\ g = [k \in 1 .. n |-> g[k]]
  BY <1>5, <1>6, Zenon
<1> QED
  BY <1>4, <1>7

LEMMA FormatIsText == ASSUME NEW items \in Seq(Items) PROVE Format(items) \in Seq(Int)
<1> DEFINE seqs == [n \in DOMAIN items |-> Conversion(items[n])]
<1>1. \A n \in 1 .. Len(items) : items[n] \in Items
  BY ElementOfSeq
<1>2. DOMAIN items = 1 .. Len(items) /\ Len(items) \in Nat
  BY LenProperties
<1>3. seqs = [n \in 1 .. Len(items) |-> Conversion(items[n])]
  BY <1>2
<1>4. \A n \in 1 .. Len(items) : Conversion(items[n]) \in Seq(Int)
  BY <1>1, ConversionIsText
<1>5. seqs \in Seq(Seq(Int)) /\ Len(seqs) = Len(items)
  <2> HIDE DEF seqs
  <2>1. seqs \in [1 .. Len(items) -> Seq(Int)]
    BY <1>3, <1>4
  <2> QED
    BY <1>2, <2>1
<1>0. Format(items) = FlattenSeq(seqs)
  BY Zenon DEF Format
<1> HIDE DEF seqs
<1>6. CASE Len(seqs) = 0
  <2>1. FlattenSeq(seqs) = seqs
    BY <1>6 DEF FlattenSeq
  <2>2. seqs = <<>>
    BY <1>5, <1>6
  <2> QED
    BY <1>0, <2>1, <2>2, EmptySeq
<1>7. CASE Len(seqs) # 0
  <2> DEFINE n == Len(seqs)
             flatten == CHOOSE f : f = [i \in 1 .. n |-> IF i = 1 THEN seqs[i] ELSE f[i - 1] \o seqs[i]]
  <2>1. n \in Nat /\ n \in 1 .. Len(seqs)
    BY <1>2, <1>5, <1>7
  <2>2. FlattenSeq(seqs) = flatten[n]
    BY <1>7 DEF FlattenSeq
  <2> HIDE DEF n
  <2>3. PICK f : FlatUpTo(f, n, seqs) /\ f[n] \in Seq(Int)
    BY <1>5, <2>1, FlatUpToExist
  <2>4. f = [i \in 1 .. n |-> IF i = 1 THEN seqs[i] ELSE f[i - 1] \o seqs[i]]
    BY <2>3, Zenon DEF FlatUpTo
  <2>5. flatten = [i \in 1 .. n |-> IF i = 1 THEN seqs[i] ELSE flatten[i - 1] \o seqs[i]]
    BY <2>4, Zenon
  <2> HIDE DEF flatten
  <2>6. FlatUpTo(flatten, n, seqs)
    BY <2>5, Zenon DEF FlatUpTo
  <2>7. flatten = f
    BY <2>1, <2>3, <2>6, FlatUpToAgree
  <2> QED
    BY <1>0, <2>2, <2>3, <2>7, Zenon
<1> QED
  BY <1>6, <1>7

LEMMA JobsAreText == \A items \in Jobs : Format(items) \in Seq(Int)
  BY FormatIsText, TerminalAssumption
-----------------------------------------------------------------------------
(* Lemmas: where a character is in video memory.                           *)

LEMMA DivMod ==
  ASSUME NEW w \in Nat \ {0}, NEW n \in Nat
  PROVE  /\ n \div w \in Nat /\ n % w \in 0 .. w - 1
         /\ n = (n \div w) * w + (n % w)
  BY SMT

LEMMA DivUnique ==
  ASSUME NEW w \in Nat \ {0}, NEW q \in Nat, NEW r \in 0 .. w - 1
  PROVE  (q * w + r) \div w = q /\ (q * w + r) % w = r
  BY SMT

\* Each character of the frame is in a row and a column.
LEMMA FrameCell ==
  ASSUME NEW off \in Frame
  PROVE  off \div Width \in 0 .. Height - 1 /\ off % Width \in 0 .. Width - 1
<1> USE ConsoleAssumption
<1>1. off \in Nat /\ off < Height * Width
  BY SMT DEF Frame
<1> DEFINE d == off \div Width   m == off % Width
<1>2. d \in Nat /\ m \in 0 .. Width - 1 /\ off = d * Width + m
  BY <1>1, DivMod
<1> HIDE DEF d, m
<1>3. CASE Height <= d
  <2>1. Height * Width <= d * Width
    BY <1>2, <1>3
  <2> QED
    BY <2>1, <1>1, <1>2
<1>4. d \in 0 .. Height - 1 /\ m \in 0 .. Width - 1
  BY <1>2, <1>3
<1> QED
  BY <1>4 DEF d, m

\* get_chr_cell: the row and the column say which.
LEMMA OffsetCell ==
  ASSUME NEW off \in Frame, NEW row \in Nat, NEW col \in 0 .. Width - 1
  PROVE  off = Offset(row, col) <=> off \div Width = row /\ off % Width = col
<1> USE ConsoleAssumption
<1>1. off \in Nat
  BY SMT DEF Frame
<1>2. off = (off \div Width) * Width + (off % Width)
  BY <1>1, DivMod
<1>3. (row * Width + col) \div Width = row /\ (row * Width + col) % Width = col
  BY DivUnique
<1> QED
  BY <1>2, <1>3 DEF Offset

\* The character below.
LEMMA BelowCell ==
  ASSUME NEW off \in Frame, off \div Width < Height - 1
  PROVE  /\ off + Width \in Frame
         /\ (off + Width) \div Width = (off \div Width) + 1
         /\ (off + Width) % Width = off % Width
<1> USE ConsoleAssumption
<1> DEFINE d == off \div Width   m == off % Width
<1>1. d \in 0 .. Height - 1 /\ m \in 0 .. Width - 1 /\ off = d * Width + m
  <2>1. off \in Nat
    BY SMT DEF Frame
  <2> QED
    BY <2>1, FrameCell, DivMod
<1>2. d + 2 <= Height
  BY <1>1 DEF d
<1> HIDE DEF d, m
<1>3. ((d + 1) * Width + m) \div Width = d + 1 /\ ((d + 1) * Width + m) % Width = m
  <2>1. d + 1 \in Nat
    BY <1>1
  <2> QED
    BY <2>1, <1>1, DivUnique
<1>4. off + Width = (d + 1) * Width + m
  BY <1>1
<1>5. (d + 2) * Width <= Height * Width
  BY <1>1, <1>2
<1>6. off + Width \in Frame
  <2>1. (d + 2) * Width = (d + 1) * Width + Width
    BY <1>1
  <2> QED
    BY <1>1, <1>4, <1>5, <2>1 DEF Frame
<1> QED
  BY <1>3, <1>4, <1>6 DEF d, m
-----------------------------------------------------------------------------
(* Lemmas: the rows of the paper and what the screen shows of them.        *)
LEMMA BlankRows == BlankRow \in Row /\ BlankPage \in Pages
<1>1. BlankRow \in Row
  BY DEF BlankRow, Row, NUL
<1> QED
  BY <1>1, ConsoleAssumption DEF BlankPage, Pages

\* A page has rows, and the last one shown is the last of them.
LEMMA LenRows ==
  ASSUME NEW rows \in Seq(Row) \ {<<>>}
  PROVE  /\ Len(rows) \in Nat \ {0} /\ Above(rows) \in Nat
         /\ LastRow(rows) \in 0 .. Height - 1
         /\ Above(rows) + LastRow(rows) + 1 = Len(rows)
<1>1. Len(rows) \in Nat \ {0}
  BY EmptySeq, LenProperties
<1> QED
  BY <1>1, ConsoleAssumption DEF Above, LastRow

LEMMA InkRows ==
  ASSUME NEW pg \in Pages, NEW col \in 0 .. Width - 1, NEW chr \in Int
  PROVE  /\ Ink(pg, col, chr) \in Seq(Row) \ {<<>>}
         /\ Len(Ink(pg, col, chr)) = Len(pg.rows)
         /\ \A n \in 1 .. Len(pg.rows), c \in 0 .. Width - 1 :
              Ink(pg, col, chr)[n][c] =
                IF n = Len(pg.rows) /\ c = col THEN chr ELSE pg.rows[n][c]
<1> DEFINE rows == pg.rows
           last == [rows[Len(rows)] EXCEPT ![col] = chr]
<1>1. rows \in Seq(Row) /\ rows # <<>> /\ Len(rows) \in Nat \ {0} /\ Len(rows) \in 1 .. Len(rows)
  BY LenRows DEF Pages
<1>2. rows[Len(rows)] \in Row
  BY <1>1, ElementOfSeq
<1>3. last \in Row
  BY <1>2 DEF Row
<1>4. Ink(pg, col, chr) = [rows EXCEPT ![Len(rows)] = last]
  BY DEF Ink
<1> HIDE DEF last
<1>5. [rows EXCEPT ![Len(rows)] = last] \in Seq(Row)
      /\ Len([rows EXCEPT ![Len(rows)] = last]) = Len(rows)
  BY <1>1, <1>3, ExceptSeq
<1>6. Ink(pg, col, chr) # <<>>
  BY <1>1, <1>4, <1>5, EmptySeq, LenProperties
<1>7. ASSUME NEW n \in 1 .. Len(rows), NEW c \in 0 .. Width - 1
      PROVE  [rows EXCEPT ![Len(rows)] = last][n][c] =
                IF n = Len(rows) /\ c = col THEN chr ELSE rows[n][c]
  BY <1>1, <1>2, <1>7, LenProperties DEF last, Row
<1> QED
  BY <1>4, <1>5, <1>6, <1>7

LEMMA BrokenRows ==
  ASSUME NEW rows \in Seq(Row) \ {<<>>}
  PROVE  /\ Append(rows, BlankRow) \in Seq(Row) \ {<<>>}
         /\ Len(Append(rows, BlankRow)) = Len(rows) + 1
         /\ \A n \in 1 .. Len(rows) : Append(rows, BlankRow)[n] = rows[n]
         /\ Append(rows, BlankRow)[Len(rows) + 1] = BlankRow
<1>1. Len(rows) \in Nat /\ BlankRow \in Row
  BY LenRows, BlankRows
<1>2. /\ Append(rows, BlankRow) \in Seq(Row)
      /\ Len(Append(rows, BlankRow)) = Len(rows) + 1
      /\ \A n \in 1 .. Len(rows) : Append(rows, BlankRow)[n] = rows[n]
      /\ Append(rows, BlankRow)[Len(rows) + 1] = BlankRow
  BY <1>1, AppendProperties
<1>3. Append(rows, BlankRow) # <<>>
  BY <1>1, <1>2, EmptySeq
<1> QED
  BY <1>2, <1>3

\* Typing a character gives a page.
LEMMA TypedPage ==
  ASSUME NEW pg \in Pages, NEW chr \in Int
  PROVE  Typed(pg, chr) \in Pages
<1>1. pg.rows \in Seq(Row) \ {<<>>} /\ pg.col \in 0 .. Width - 1 /\ 0 \in 0 .. Width - 1
  BY ConsoleAssumption DEF Pages
<1>2. \A rows \in Seq(Row) \ {<<>>} : Broken(rows) \in Pages
  BY <1>1, BrokenRows DEF Broken, Pages
<1>3. CASE chr = CR
  <2>1. Typed(pg, chr) = [rows |-> pg.rows, col |-> 0]
    BY <1>3 DEF Typed, CR, LF, BS
  <2> QED
    BY <1>1, <2>1 DEF Pages
<1>4. CASE chr = LF
  <2>1. Typed(pg, chr) = Broken(pg.rows)
    BY <1>4 DEF Typed, CR, LF, BS
  <2> QED
    BY <1>1, <1>2, <2>1
<1>5. CASE chr = BS /\ pg.col = 0
  BY <1>5 DEF Typed, CR, LF, BS
<1>6. CASE chr = BS /\ pg.col # 0
  <2>1. pg.col - 1 \in 0 .. Width - 1
    BY <1>1, <1>6, ConsoleAssumption
  <2>2. Ink(pg, pg.col - 1, SPACE) \in Seq(Row) \ {<<>>}
    BY <2>1, InkRows DEF SPACE
  <2>3. Typed(pg, chr) = [rows |-> Ink(pg, pg.col - 1, SPACE), col |-> pg.col - 1]
    BY <1>1, <1>6 DEF Typed, CR, LF, BS
  <2> QED
    BY <2>1, <2>2, <2>3 DEF Pages
<1>7. CASE chr \notin {CR, LF, BS}
  <2>1. Ink(pg, pg.col, chr) \in Seq(Row) \ {<<>>}
    BY <1>1, InkRows
  <2>2. Typed(pg, chr) = IF pg.col + 1 = Width THEN Broken(Ink(pg, pg.col, chr))
                         ELSE [rows |-> Ink(pg, pg.col, chr), col |-> pg.col + 1]
    BY <1>7 DEF Typed
  <2>3. CASE pg.col + 1 = Width
    BY <1>2, <2>1, <2>2, <2>3
  <2>4. CASE pg.col + 1 # Width
    BY <1>1, <2>1, <2>2, <2>4, ConsoleAssumption DEF Pages
  <2> QED
    BY <2>3, <2>4
<1> QED
  BY <1>3, <1>4, <1>5, <1>6, <1>7

\* A character on the last row is shown where the caret is.
LEMMA InkShown ==
  ASSUME NEW pg \in Pages, NEW col \in 0 .. Width - 1, NEW chr \in Int
  PROVE  /\ Shown(Ink(pg, col, chr)) =
              [off \in Frame |-> IF off = Offset(LastRow(pg.rows), col) THEN chr
                                 ELSE Shown(pg.rows)[off]]
         /\ LastRow(Ink(pg, col, chr)) = LastRow(pg.rows)
<1> DEFINE rows == pg.rows   inked == Ink(pg, col, chr)
<1>1. rows \in Seq(Row) \ {<<>>} /\ inked \in Seq(Row) \ {<<>>} /\ Len(inked) = Len(rows)
  BY InkRows DEF Pages
<1>2. \A n \in 1 .. Len(rows), c \in 0 .. Width - 1 :
        inked[n][c] = IF n = Len(rows) /\ c = col THEN chr ELSE rows[n][c]
  BY InkRows
<1>3. /\ Len(rows) \in Nat \ {0} /\ Above(rows) \in Nat
      /\ LastRow(rows) \in 0 .. Height - 1
      /\ Above(rows) + LastRow(rows) + 1 = Len(rows)
  BY <1>1, LenRows
<1>4. Above(inked) = Above(rows) /\ LastRow(inked) = LastRow(rows)
  BY <1>1 DEF Above, LastRow
<1> HIDE DEF rows, inked
<1>5. ASSUME NEW off \in Frame
      PROVE  Shown(inked)[off] = IF off = Offset(LastRow(rows), col) THEN chr
                                 ELSE Shown(rows)[off]
  <2> DEFINE r == off \div Width   c == off % Width
  <2>1. r \in 0 .. Height - 1 /\ c \in 0 .. Width - 1
    BY FrameCell
  <2>2. off = Offset(LastRow(rows), col) <=> r = LastRow(rows) /\ c = col
    BY <1>3, OffsetCell
  <2>3. Shown(inked)[off] = Place(inked, r, c) /\ Shown(rows)[off] = Place(rows, r, c)
    BY DEF Shown, Frame
  <2> HIDE DEF r, c
  <2>4. Place(inked, r, c) = IF r = LastRow(rows) /\ c = col THEN chr ELSE Place(rows, r, c)
    <3>1. Above(rows) + r + 1 \in Nat \ {0}
          /\ (Above(rows) + r + 1 = Len(rows) <=> r = LastRow(rows))
      BY <1>3, <2>1
    <3>2. CASE Above(rows) + r + 1 <= Len(rows)
      <4>1. inked[Above(rows) + r + 1][c] =
              IF Above(rows) + r + 1 = Len(rows) /\ c = col THEN chr
              ELSE rows[Above(rows) + r + 1][c]
        BY <1>2, <1>3, <2>1, <3>1, <3>2
      <4> QED
        BY <1>1, <1>4, <3>1, <3>2, <4>1 DEF Place
    <3>3. CASE ~(Above(rows) + r + 1 <= Len(rows))
      <4>1. r # LastRow(rows)
        BY <1>3, <3>1, <3>3
      <4> QED
        BY <1>1, <1>4, <3>3, <4>1 DEF Place
    <3> QED
      BY <3>2, <3>3
  <2> QED
    BY <2>2, <2>3, <2>4
<1>6. Shown(inked) = [off \in Frame |-> Shown(inked)[off]]
  BY DEF Shown, Frame
<1>7. Shown(inked) = [off \in Frame |-> IF off = Offset(LastRow(rows), col) THEN chr
                                        ELSE Shown(rows)[off]]
  BY <1>5, <1>6
<1> QED
  BY <1>4, <1>7 DEF rows, inked

\* A new row below those on the screen is blank as it was.
LEMMA BrokenShown ==
  ASSUME NEW rows \in Seq(Row) \ {<<>>}, LastRow(rows) + 1 # Height
  PROVE  /\ Shown(Append(rows, BlankRow)) = Shown(rows)
         /\ LastRow(Append(rows, BlankRow)) = LastRow(rows) + 1
<1> DEFINE new == Append(rows, BlankRow)
<1>1. /\ new \in Seq(Row) \ {<<>>} /\ Len(new) = Len(rows) + 1
      /\ \A n \in 1 .. Len(rows) : new[n] = rows[n]
      /\ new[Len(rows) + 1] = BlankRow
  BY BrokenRows
<1>2. /\ Len(rows) \in Nat \ {0} /\ Above(rows) = 0 /\ Len(rows) < Height
      /\ LastRow(rows) = Len(rows) - 1
  BY LenRows, ConsoleAssumption DEF Above, LastRow
<1> HIDE DEF new
<1>3. Above(new) = 0 /\ LastRow(new) = LastRow(rows) + 1
  <2>1. Len(new) = Len(rows) + 1 /\ ~(Len(new) > Height)
    BY <1>1, <1>2, ConsoleAssumption
  <2>2. Above(new) = 0
    BY <2>1 DEF Above
  <2> QED
    BY <1>2, <2>1, <2>2 DEF LastRow
<1>4. ASSUME NEW off \in Frame
      PROVE  Place(new, off \div Width, off % Width) = Place(rows, off \div Width, off % Width)
  <2> DEFINE r == off \div Width   c == off % Width
  <2>1. r \in 0 .. Height - 1 /\ c \in 0 .. Width - 1
    BY FrameCell
  <2> HIDE DEF r, c
  <2>2. r + 1 \in Nat \ {0} /\ 0 + r + 1 = r + 1
    BY <2>1
  <2>3. /\ Place(new, r, c) = IF r + 1 <= Len(rows) + 1 THEN new[r + 1][c] ELSE NUL
        /\ Place(rows, r, c) = IF r + 1 <= Len(rows) THEN rows[r + 1][c] ELSE NUL
    BY <1>1, <1>2, <1>3, <2>2 DEF Place
  <2>4. Place(new, r, c) = Place(rows, r, c)
    <3>1. CASE r + 1 <= Len(rows)
      <4>1. new[r + 1] = rows[r + 1] /\ r + 1 <= Len(rows) + 1
        BY <1>1, <1>2, <2>2, <3>1
      <4> QED
        BY <2>3, <3>1, <4>1
    <3>2. CASE r + 1 = Len(rows) + 1
      <4>1. new[r + 1] = BlankRow /\ BlankRow[c] = NUL
        BY <1>1, <2>1, <3>2 DEF BlankRow
      <4> QED
        BY <1>2, <2>2, <2>3, <3>2, <4>1
    <3>3. CASE r + 1 > Len(rows) + 1
      BY <1>2, <2>2, <2>3, <3>3
    <3> QED
      BY <1>2, <2>2, <3>1, <3>2, <3>3
  <2> QED
    BY <2>4 DEF r, c
<1>5. Shown(new) = Shown(rows)
  BY <1>4 DEF Shown, Frame
<1> QED
  BY <1>3, <1>5 DEF new

\* scroll_frame: nothing is moved yet, one more row is moved, the last one is
\* blanked.
LEMMA ScrollRows ==
  ASSUME NEW rows \in Seq(Row) \ {<<>>}, Len(rows) >= Height
  PROVE  /\ Scrolled(rows, 1) = Shown(rows)
         /\ \A k \in 1 .. Height - 1 :
              [off \in Frame |-> IF off \div Width = k - 1 THEN Scrolled(rows, k)[off + Width]
                                 ELSE Scrolled(rows, k)[off]] = Scrolled(rows, k + 1)
         /\ [off \in Frame |-> IF off \div Width = Height - 1 THEN NUL
                               ELSE Scrolled(rows, Height)[off]] = Shown(Append(rows, BlankRow))
         /\ LastRow(Append(rows, BlankRow)) = Height - 1
<1> DEFINE new == Append(rows, BlankRow)   A == Len(rows) - Height
<1>1. /\ new \in Seq(Row) \ {<<>>} /\ Len(new) = Len(rows) + 1
      /\ \A n \in 1 .. Len(rows) : new[n] = rows[n]
      /\ new[Len(rows) + 1] = BlankRow
  BY BrokenRows
<1>2. Len(rows) \in Nat \ {0} /\ A \in Nat /\ A + Height = Len(rows)
  BY LenRows, ConsoleAssumption
<1> HIDE DEF new
<1>3. Above(rows) = A /\ Above(new) = A + 1 /\ LastRow(new) = Height - 1
  <2>1. Len(new) = Len(rows) + 1 /\ Len(new) > Height /\ Len(new) - Height = A + 1
    BY <1>1, <1>2, ConsoleAssumption
  <2>2. Above(rows) = A
    <3>1. Len(rows) \in Nat /\ Height \in Nat /\ Len(rows) >= Height
      BY <1>2, ConsoleAssumption
    <3>2. Above(rows) = Len(rows) - Height
      BY <3>1 DEF Above
    <3> QED
      BY <3>2
  <2>3. Above(new) = A + 1
    BY <2>1 DEF Above
  <2>4. LastRow(new) = Len(new) - (A + 1) - 1
    BY <2>3 DEF LastRow
  <2>5. LastRow(new) = Height - 1
    BY <1>2, <2>1, <2>4, ConsoleAssumption
  <2> QED
    BY <2>2, <2>3, <2>5
<1> HIDE DEF A
<1>4. ASSUME NEW r \in 0 .. Height - 2, NEW c
      PROVE  Place(new, r, c) = Place(rows, r + 1, c)
  <2>1. A + 1 + r + 1 = A + (r + 1) + 1 /\ A + (r + 1) + 1 \in 1 .. Len(rows)
    BY <1>2, ConsoleAssumption
  <2>2. new[A + 1 + r + 1] = rows[A + (r + 1) + 1]
    BY <1>1, <2>1
  <2>3. A + 1 + r + 1 <= Len(new) /\ A + (r + 1) + 1 <= Len(rows)
    BY <1>1, <1>2, <2>1
  <2> QED
    BY <1>3, <2>2, <2>3 DEF Place
<1>5. ASSUME NEW c \in 0 .. Width - 1
      PROVE  Place(new, Height - 1, c) = NUL
  <2>1. A + 1 + (Height - 1) + 1 = Len(rows) + 1
    BY <1>2, ConsoleAssumption
  <2>2. new[A + 1 + (Height - 1) + 1][c] = NUL
    BY <1>1, <2>1 DEF BlankRow
  <2>3. A + 1 + (Height - 1) + 1 <= Len(new)
    BY <1>1, <1>2, <2>1
  <2> QED
    BY <1>3, <2>2, <2>3 DEF Place
<1>6. \A off \in Frame : off \div Width \in 0 .. Height - 1 /\ off % Width \in 0 .. Width - 1
  BY FrameCell
<1>7. \A off \in Frame, k \in 1 .. Height :
        Scrolled(rows, k)[off] = IF off \div Width < k - 1
                                 THEN Place(new, off \div Width, off % Width)
                                 ELSE Place(rows, off \div Width, off % Width)
  BY DEF Scrolled, new
<1>8. Scrolled(rows, 1) = Shown(rows)
  <2>1. \A off \in Frame : ~(off \div Width < 1 - 1)
    BY <1>6
  <2> QED
    BY <2>1 DEF Scrolled, Shown, Frame
<1>9. ASSUME NEW k \in 1 .. Height - 1
      PROVE  [off \in Frame |-> IF off \div Width = k - 1 THEN Scrolled(rows, k)[off + Width]
                                ELSE Scrolled(rows, k)[off]] = Scrolled(rows, k + 1)
  <2>1. k \in 1 .. Height /\ k + 1 \in 1 .. Height
    BY ConsoleAssumption
  <2>2. ASSUME NEW off \in Frame, off \div Width = k - 1
        PROVE  Scrolled(rows, k)[off + Width] = Scrolled(rows, k + 1)[off]
    <3>1. off \div Width < Height - 1 /\ off \div Width \in 0 .. Height - 2
      BY <2>2, ConsoleAssumption
    <3>2. off + Width \in Frame /\ (off + Width) \div Width = (off \div Width) + 1
          /\ (off + Width) % Width = off % Width
      BY <3>1, BelowCell
    <3>3. ~((off \div Width) + 1 < k - 1) /\ off \div Width < (k + 1) - 1
      BY <2>2
    <3>4. Scrolled(rows, k)[off + Width] = Place(rows, (off \div Width) + 1, off % Width)
      BY <1>7, <2>1, <3>2, <3>3
    <3>5. Scrolled(rows, k + 1)[off] = Place(new, off \div Width, off % Width)
      BY <1>7, <2>1, <3>3
    <3> QED
      BY <1>4, <3>1, <3>4, <3>5
  <2>3. ASSUME NEW off \in Frame, off \div Width # k - 1
        PROVE  Scrolled(rows, k)[off] = Scrolled(rows, k + 1)[off]
    <3>1. off \div Width < k - 1 <=> off \div Width < (k + 1) - 1
      BY <1>6, <2>3
    <3> QED
      BY <1>7, <2>1, <3>1
  <2>4. Scrolled(rows, k + 1) = [off \in Frame |-> Scrolled(rows, k + 1)[off]]
    BY DEF Scrolled
  <2> QED
    BY <2>2, <2>3, <2>4
<1>10. [off \in Frame |-> IF off \div Width = Height - 1 THEN NUL
                          ELSE Scrolled(rows, Height)[off]] = Shown(new)
  <2>1. ASSUME NEW off \in Frame, off \div Width = Height - 1
        PROVE  Shown(new)[off] = NUL
    BY <1>5, <1>6, <2>1 DEF Shown, Frame
  <2>2. ASSUME NEW off \in Frame, off \div Width # Height - 1
        PROVE  Shown(new)[off] = Scrolled(rows, Height)[off]
    <3>1. off \div Width < Height - 1 /\ Height \in 1 .. Height
      BY <1>6, <2>2, ConsoleAssumption
    <3>2. Shown(new)[off] = Place(new, off \div Width, off % Width)
      BY DEF Shown, Frame
    <3> QED
      BY <1>7, <3>1, <3>2
  <2>3. Shown(new) = [off \in Frame |-> Shown(new)[off]]
    BY DEF Shown, Frame
  <2> QED
    BY <2>1, <2>2, <2>3
<1> QED
  BY <1>3, <1>8, <1>9, <1>10 DEF new
-----------------------------------------------------------------------------
(* The steps of put_char and put_cursor.                                   *)
LEMMA AdvanceEffect ==
  ASSUME ConsoleTyped, NEW p \in Printers, stage[p] \in {"store", "line", "scroll"}, Advance(p)
  PROVE  /\ text' \in [Printers -> Seq(Int)] /\ stage' \in [Printers -> Stages]
         /\ stage'[p] \in {"put", "cursor"}
         /\ stage'[p] = "put" => text'[p] # <<>>
         /\ \A q \in Printers \ {p} : stage'[q] = stage[q] /\ text'[q] = text[q]
         /\ Head(text[p]) \in Int
         /\ page' = Typed(page, Head(text[p])) /\ page' \in Pages
         /\ overlap' = overlap
<1>1. text \in [Printers -> Seq(Int)] /\ stage \in [Printers -> Stages] /\ page \in Pages
      /\ text[p] # <<>>
  BY DEF ConsoleTyped
<1>2. /\ Head(text[p]) \in Int /\ Tail(text[p]) \in Seq(Int)
      /\ Len(Tail(text[p])) = Len(text[p]) - 1 /\ Len(text[p]) \in Nat
  BY <1>1, HeadTailProperties, LenProperties
<1>3. Len(text[p]) # 1 => Tail(text[p]) # <<>>
  <2>1. Len(<<>>) = 0
    BY EmptySeq
  <2>2. Tail(text[p]) = <<>> => Len(text[p]) - 1 = 0
    BY <1>2, <2>1
  <2> QED
    BY <1>2, <2>2
<1>4. /\ text' = [text EXCEPT ![p] = Tail(text[p])]
      /\ stage' = [stage EXCEPT ![p] = IF Len(text[p]) = 1 THEN "cursor" ELSE "put"]
      /\ page' = Typed(page, Head(text[p]))
      /\ overlap' = overlap
  BY <1>1 DEF Advance
<1>5. page' \in Pages
  BY <1>1, <1>2, <1>4, TypedPage
<1>6. text'[p] = Tail(text[p]) /\ stage'[p] = IF Len(text[p]) = 1 THEN "cursor" ELSE "put"
  BY <1>1, <1>4
<1>7. stage' \in [Printers -> Stages]
  BY <1>1, <1>4 DEF Stages
<1>8. text' \in [Printers -> Seq(Int)]
  BY <1>1, <1>2, <1>4
<1>9. \A q \in Printers \ {p} : stage'[q] = stage[q] /\ text'[q] = text[q]
  BY <1>1, <1>4
<1> QED
  BY <1>2, <1>3, <1>4, <1>5, <1>6, <1>7, <1>8, <1>9

\* What is typed whether or not somebody has interfered.
LEMMA PrintTyped ==
  ASSUME ConsoleTyped, NEW p \in Printers, PrintStep(p)
  PROVE  ConsoleTyped'
<1>1. /\ text \in [Printers -> Seq(Int)] /\ stage \in [Printers -> Stages]
      /\ at \in [Printers -> Caret] /\ caret \in Caret
      /\ \A q \in Printers : stage[q] \in {"put", "store", "line", "scroll"} => text[q] # <<>>
      /\ page \in Pages /\ overlap \in BOOLEAN
      /\ at[p] \in Caret /\ at[p].row \in Int /\ at[p].col \in Int
  BY DEF ConsoleTyped, Caret
<1> DEFINE Named == \A q \in Printers :
                      stage[q] \in {"put", "store", "line", "scroll"} => text[q] # <<>>
<1>2. ASSUME stage[p] \in {"store", "line", "scroll"}, Advance(p), at' \in [Printers -> Caret],
             caret' \in Caret
      PROVE  ConsoleTyped'
  <2>1. /\ text' \in [Printers -> Seq(Int)] /\ stage' \in [Printers -> Stages]
        /\ stage'[p] \in {"put", "cursor"}
        /\ stage'[p] = "put" => text'[p] # <<>>
        /\ \A q \in Printers \ {p} : stage'[q] = stage[q] /\ text'[q] = text[q]
        /\ page' \in Pages /\ overlap' = overlap
    BY <1>2, AdvanceEffect
  <2>2. ASSUME NEW q \in Printers, stage'[q] \in {"put", "store", "line", "scroll"}
        PROVE  text'[q] # <<>>
    BY <1>1, <2>1, <2>2
  <2> QED
    BY <1>1, <1>2, <2>1, <2>2 DEF ConsoleTyped
<1>3. ASSUME NEW s \in Stages, stage' = [stage EXCEPT ![p] = s], text' = text, page' = page,
             overlap' \in BOOLEAN, at' \in [Printers -> Caret], caret' \in Caret,
             s \in {"put", "store", "line", "scroll"} =>
               stage[p] \in {"put", "store", "line", "scroll"}
      PROVE  ConsoleTyped'
  <2>1. stage' \in [Printers -> Stages]
    BY <1>1, <1>3
  <2>2. ASSUME NEW q \in Printers, stage'[q] \in {"put", "store", "line", "scroll"}
        PROVE  text'[q] # <<>>
    BY <1>1, <1>3, <2>2
  <2> QED
    BY <1>1, <1>3, <2>1, <2>2 DEF ConsoleTyped
<1>4. \A c \in Int, x \in Caret : [x EXCEPT !.col = c] \in Caret /\ [x EXCEPT !.row = c] \in Caret
  BY DEF Caret
<1>5. Enter(p) => overlap' \in BOOLEAN
  BY <1>1 DEF Enter
<1>6. CASE PutChar(p)
  <2>1. at' \in [Printers -> Caret] /\ caret' \in Caret /\ text' = text /\ page' = page
    BY <1>1, <1>6 DEF PutChar
  <2>2. PICK s \in {"line", "store"} : stage' = [stage EXCEPT ![p] = s]
    BY <1>6 DEF PutChar
  <2> QED
    BY <1>3, <1>5, <1>6, <2>1, <2>2 DEF PutChar, Stages
<1>7. CASE Return(p)
  <2>1. caret' = [caret EXCEPT !.col = 0] /\ at' = at
    BY <1>7 DEF Return
  <2>2. 0 \in Int
    OBVIOUS
  <2>3. at' \in [Printers -> Caret] /\ caret' \in Caret
    BY <1>1, <1>4, <2>1, <2>2, Zenon
  <2> QED
    BY <1>2, <1>7, <2>3 DEF Return
<1>8. CASE Backspace(p)
  <2>1. BackCol(p) \in Int
    BY <1>1 DEF BackCol
  <2>2. at' \in [Printers -> Caret] /\ caret' \in Caret
    BY <1>1, <1>4, <1>8, <2>1 DEF Backspace
  <2> QED
    BY <1>2, <1>8, <2>2 DEF Backspace
<1>9. CASE Store(p)
  <2>1. at[p].col + 1 \in Int
    BY <1>1
  <2>2. at' \in [Printers -> Caret] /\ caret' \in Caret
    BY <1>1, <1>4, <1>9, <2>1 DEF Store
  <2>3. CASE LineFull(p)
    BY <1>1, <1>3, <1>9, <2>2, <2>3 DEF Store, Stages, history
  <2>4. CASE ~LineFull(p)
    BY <1>2, <1>9, <2>2, <2>4 DEF Store
  <2> QED
    BY <2>3, <2>4
<1>10. CASE NewLine(p)
  <2>1. at' \in [Printers -> Caret] /\ caret' \in Caret
    <3>1. at' = [at EXCEPT ![p] = [at[p] EXCEPT !.col = 1]]
      BY <1>10 DEF NewLine
    <3>2. [at[p] EXCEPT !.col = 1] \in Caret
      <4>1. 1 \in Int
        OBVIOUS
      <4> QED
        BY <1>1, <1>4, <4>1, Zenon
    <3>3. at' \in [Printers -> Caret]
      BY <1>1, <3>1, <3>2
    <3> QED
      BY <1>1, <1>10, <3>3 DEF NewLine, Caret
  <2>2. CASE at[p].row + 1 = Height
    BY <1>1, <1>3, <1>10, <2>1, <2>2 DEF NewLine, Stages, history
  <2>3. CASE at[p].row + 1 # Height
    BY <1>2, <1>10, <2>1, <2>3 DEF NewLine
  <2> QED
    BY <2>2, <2>3
<1>11. CASE ScrollRow(p)
  <2>1. at' = [at EXCEPT ![p] = [at[p] EXCEPT !.col = NextRow(p)]] /\ NextRow(p) \in Int
    BY <1>1, <1>11 DEF ScrollRow, NextRow
  <2>2. at' \in [Printers -> Caret] /\ caret' \in Caret
    BY <1>1, <1>4, <1>11, <2>1 DEF ScrollRow
  <2>3. stage' = [stage EXCEPT ![p] = "scroll"]
    BY <1>1, <1>11 DEF ScrollRow
  <2> QED
    BY <1>1, <1>3, <1>11, <2>2, <2>3 DEF ScrollRow, Stages, history
<1>12. CASE ScrollLast(p)
  <2>1. at' \in [Printers -> Caret] /\ caret' \in Caret
    BY <1>1, <1>4, <1>12 DEF ScrollLast
  <2> QED
    BY <1>2, <1>12, <2>1 DEF ScrollLast
<1>13. CASE AimCursor(p)
  <2>1. at' \in [Printers -> Caret] /\ caret' \in Caret /\ text' = text /\ page' = page
    BY <1>1, <1>13 DEF AimCursor
  <2> QED
    BY <1>3, <1>5, <1>13, <2>1 DEF AimCursor, Stages
<1>14. CASE PutCursor(p)
  <2>1. at' \in [Printers -> Caret] /\ caret' \in Caret
    BY <1>1, <1>14 DEF PutCursor, Origin, Caret
  <2> QED
    BY <1>1, <1>3, <1>14, <2>1 DEF PutCursor, Stages, history
<1> QED
  BY <1>6, <1>7, <1>8, <1>9, <1>10, <1>11, <1>12, <1>13, <1>14 DEF PrintStep

\* A printer gets into put_char or goes on in it.
LEMMA StaysWithin ==
  ASSUME ConsoleTyped, NEW p \in Printers, \A q \in Printers \ {p} : ~Busy(q),
         NEW s \in {"store", "line", "scroll", "aimed"},
         stage' = [stage EXCEPT ![p] = s], Within(p)'
  PROVE  Undisturbed'
<1>1. stage' \in [Printers -> Stages] /\ stage'[p] = s
      /\ \A q \in Printers \ {p} : stage'[q] = stage[q]
  BY DEF ConsoleTyped, Stages
<1>2. Busy(p)' /\ \A q \in Printers \ {p} : ~Busy(q)'
  BY <1>1 DEF Busy
<1>3. stage'[p] # "idle"
  BY <1>1
<1> QED
  BY <1>2, <1>3 DEF Undisturbed

\* A printer is through with a character.
LEMMA GetsThrough ==
  ASSUME ConsoleTyped, NEW p \in Printers, \A q \in Printers \ {p} : ~Busy(q),
         stage'[p] \in {"put", "cursor"}, \A q \in Printers \ {p} : stage'[q] = stage[q],
         Resting'
  PROVE  Undisturbed'
<1>1. \A q \in Printers : ~Busy(q)'
  BY DEF Busy
<1>2. stage'[p] # "idle"
  OBVIOUS
<1> QED
  BY <1>1, <1>2 DEF Undisturbed

LEMMA PutCharShows ==
  ASSUME ConsoleTyped, ~overlap => Undisturbed, NEW p \in Printers, PutChar(p), ~overlap'
  PROVE  Undisturbed'
<1>1. ~overlap /\ \A q \in Printers \ {p} : ~Busy(q)
  BY DEF PutChar, Enter
<1>2. ~Busy(p)
  BY DEF PutChar, Busy
<1>3. Resting
  BY <1>1, <1>2 DEF Undisturbed
<1>4. /\ cell' = cell /\ caret' = caret /\ text' = text /\ page' = page
      /\ at'[p] = caret
      /\ stage' = [stage EXCEPT ![p] = IF Head(text[p]) = LF THEN "line" ELSE "store"]
  BY DEF PutChar, ConsoleTyped
<1>5. Resting' /\ at'[p] = caret' /\ Head(text'[p]) = Head(text[p])
  BY <1>3, <1>4 DEF Resting
<1>6. stage'[p] = IF Head(text[p]) = LF THEN "line" ELSE "store"
  BY <1>4 DEF ConsoleTyped
<1>7. CASE Head(text[p]) = LF
  <2>1. stage' = [stage EXCEPT ![p] = "line"] /\ stage'[p] = "line"
    BY <1>4, <1>6, <1>7
  <2>2. LineRows(p)' = page'.rows /\ EndsLine(p)' /\ Head(text'[p]) \notin {CR, BS}
    BY <1>5, <1>7 DEF LineRows, EndsLine, LF, CR, BS
  <2>3. at'[p].row = LastRow(page.rows)' /\ cell' = Shown(page'.rows)
    BY <1>5 DEF Resting
  <2>4. Within(p)'
    BY <2>1, <2>2, <2>3 DEF Within
  <2> QED
    BY <1>1, <2>1, <2>4, StaysWithin
<1>8. CASE Head(text[p]) # LF
  <2>1. stage' = [stage EXCEPT ![p] = "store"] /\ stage'[p] = "store"
    BY <1>4, <1>6, <1>8
  <2>2. Within(p)'
    BY <1>5, <1>8, <2>1 DEF Within
  <2> QED
    BY <1>1, <2>1, <2>2, StaysWithin
<1> QED
  BY <1>7, <1>8

\* What Undisturbed says of a printer that holds a caret.
LEMMA Holder ==
  ASSUME ConsoleTyped, Undisturbed, NEW p \in Printers, Busy(p)
  PROVE  Within(p) /\ \A q \in Printers \ {p} : ~Busy(q)
  BY DEF Undisturbed

LEMMA ReturnShows ==
  ASSUME ConsoleTyped, ~overlap => Undisturbed, NEW p \in Printers, Return(p), ~overlap'
  PROVE  Undisturbed'
<1>1. /\ stage[p] = "store" /\ Head(text[p]) = CR /\ Advance(p)
      /\ caret' = [caret EXCEPT !.col = 0] /\ cell' = cell
  BY DEF Return
<1>2. /\ page' = Typed(page, CR) /\ overlap' = overlap
      /\ stage'[p] \in {"put", "cursor"} /\ \A q \in Printers \ {p} : stage'[q] = stage[q]
  BY <1>1, AdvanceEffect
<1>3. Within(p) /\ \A q \in Printers \ {p} : ~Busy(q)
  BY <1>1, <1>2, Holder DEF Busy
<1>4. cell = Shown(page.rows) /\ caret = [row |-> LastRow(page.rows), col |-> page.col]
  BY <1>1, <1>3 DEF Within, Resting
<1>5. page' = [rows |-> page.rows, col |-> 0]
  BY <1>2 DEF Typed, CR, LF, BS
<1>6. page'.rows = page.rows /\ page'.col = 0 /\ caret' = [row |-> LastRow(page.rows), col |-> 0]
  BY <1>1, <1>4, <1>5
<1>7. Resting'
  BY <1>1, <1>4, <1>6 DEF Resting
<1> QED
  BY <1>2, <1>3, <1>7, GetsThrough

LEMMA BackspaceShows ==
  ASSUME ConsoleTyped, ~overlap => Undisturbed, NEW p \in Printers, Backspace(p), ~overlap'
  PROVE  Undisturbed'
<1>1. stage[p] = "store" /\ Head(text[p]) = BS /\ Advance(p)
  BY DEF Backspace
<1>2. /\ page' = Typed(page, BS) /\ overlap' = overlap
      /\ stage'[p] \in {"put", "cursor"} /\ \A q \in Printers \ {p} : stage'[q] = stage[q]
  BY <1>1, AdvanceEffect
<1>3. Within(p) /\ \A q \in Printers \ {p} : ~Busy(q)
  BY <1>1, <1>2, Holder DEF Busy
<1>4. cell = Shown(page.rows) /\ caret = [row |-> LastRow(page.rows), col |-> page.col]
      /\ at[p] = caret
  BY <1>1, <1>3 DEF Within, Resting
<1>5. page \in Pages /\ page.col \in 0 .. Width - 1 /\ Width \in Nat \ {0}
      /\ LastRow(page.rows) \in 0 .. Height - 1
  BY LenRows, ConsoleAssumption DEF ConsoleTyped, Pages
<1>6. at[p].row = LastRow(page.rows) /\ at[p].col = page.col
  BY <1>4
<1>7. CASE page.col = 0
  <2>1. BackCol(p) = at[p].col
    BY <1>6, <1>7 DEF BackCol
  <2>2. cell' = cell /\ caret' = caret
    BY <2>1 DEF Backspace
  <2>3. page' = page
    BY <1>2, <1>7 DEF Typed, CR, LF, BS
  <2>4. Resting'
    BY <1>4, <2>2, <2>3 DEF Resting
  <2> QED
    BY <1>2, <1>3, <2>4, GetsThrough
<1>8. CASE page.col # 0
  <2>1. BackCol(p) = page.col - 1 /\ BackCol(p) # at[p].col /\ page.col - 1 \in 0 .. Width - 1
    BY <1>5, <1>6, <1>8 DEF BackCol
  <2>2. /\ caret' = [caret EXCEPT !.col = page.col - 1]
        /\ cell' = [off \in DOMAIN cell |->
                      IF off = Offset(LastRow(page.rows), page.col - 1) THEN SPACE ELSE cell[off]]
    BY <1>6, <2>1 DEF Backspace, Write
  <2>3. page' = [rows |-> Ink(page, page.col - 1, SPACE), col |-> page.col - 1]
    BY <1>2, <1>5, <1>8 DEF Typed, CR, LF, BS
  <2>4. /\ Shown(Ink(page, page.col - 1, SPACE)) =
             [off \in Frame |-> IF off = Offset(LastRow(page.rows), page.col - 1) THEN SPACE
                                ELSE Shown(page.rows)[off]]
        /\ LastRow(Ink(page, page.col - 1, SPACE)) = LastRow(page.rows)
    BY <1>5, <2>1, InkShown DEF SPACE
  <2>5. DOMAIN cell = Frame
    BY <1>4 DEF Shown, Frame
  <2>6. cell' = Shown(page'.rows)
    BY <1>4, <2>2, <2>3, <2>4, <2>5
  <2>7. caret' = [row |-> LastRow(page'.rows), col |-> page'.col]
    BY <1>4, <2>2, <2>3, <2>4
  <2>8. Resting'
    BY <2>6, <2>7 DEF Resting
  <2> QED
    BY <1>2, <1>3, <2>8, GetsThrough
<1> QED
  BY <1>7, <1>8

LEMMA StoreShows ==
  ASSUME ConsoleTyped, ~overlap => Undisturbed, NEW p \in Printers, Store(p), ~overlap'
  PROVE  Undisturbed'
<1> DEFINE chr == Head(text[p])   inked == Ink(page, page.col, chr)
<1>1. /\ stage[p] = "store" /\ chr \notin {CR, BS} /\ text[p] # <<>> /\ text[p] \in Seq(Int)
      /\ cell' = [off \in DOMAIN cell |->
                    IF off = Offset(at[p].row, at[p].col) THEN chr ELSE cell[off]]
      /\ caret' = [caret EXCEPT !.col = at[p].col + 1] /\ at' = at
  BY DEF Store, Write, ConsoleTyped
<1>2. overlap' = overlap
  BY DEF Store, Advance, history
<1>3. Within(p) /\ \A q \in Printers \ {p} : ~Busy(q)
  BY <1>1, <1>2, Holder DEF Busy
<1>4. /\ cell = Shown(page.rows) /\ caret = [row |-> LastRow(page.rows), col |-> page.col]
      /\ at[p] = caret /\ chr # LF
  BY <1>1, <1>3 DEF Within, Resting
<1>5. page \in Pages /\ page.col \in 0 .. Width - 1 /\ chr \in Int
      /\ LastRow(page.rows) \in 0 .. Height - 1
  BY <1>1, LenRows, HeadTailProperties DEF ConsoleTyped, Pages
<1>6. at[p].row = LastRow(page.rows) /\ at[p].col = page.col
  BY <1>4
<1> HIDE DEF chr
<1>7. /\ Shown(inked) = [off \in Frame |-> IF off = Offset(LastRow(page.rows), page.col) THEN chr
                                           ELSE Shown(page.rows)[off]]
      /\ LastRow(inked) = LastRow(page.rows)
  BY <1>5, InkShown
<1>8. DOMAIN cell = Frame
  BY <1>4 DEF Shown, Frame
<1>9. cell' = Shown(inked)
  BY <1>1, <1>4, <1>6, <1>7, <1>8
<1>10. CASE LineFull(p)
  <2>1. stage' = [stage EXCEPT ![p] = "line"] /\ text' = text /\ page' = page
    BY <1>10 DEF Store, history
  <2>2. page.col + 1 = Width
    BY <1>6, <1>10 DEF LineFull
  <2>3. stage'[p] = "line"
    BY <2>1 DEF ConsoleTyped
  <2>4. EndsLine(p)' /\ LineRows(p)' = inked
    BY <1>4, <2>1, <2>2 DEF EndsLine, LineRows, chr
  <2>5. Head(text'[p]) \notin {CR, BS} /\ at'[p].row = LastRow(page.rows)'
    BY <1>1, <1>6, <2>1 DEF chr
  <2>6. Within(p)'
    BY <1>9, <2>3, <2>4, <2>5 DEF Within
  <2> QED
    BY <1>3, <2>1, <2>6, StaysWithin
<1>11. CASE ~LineFull(p)
  <2>1. Advance(p)
    BY <1>11 DEF Store
  <2>2. /\ page' = Typed(page, chr)
        /\ stage'[p] \in {"put", "cursor"} /\ \A q \in Printers \ {p} : stage'[q] = stage[q]
    BY <1>1, <2>1, AdvanceEffect DEF chr
  <2>3. page.col + 1 # Width
    BY <1>6, <1>11 DEF LineFull
  <2>4. page' = [rows |-> inked, col |-> page.col + 1]
    BY <1>1, <1>4, <2>2, <2>3 DEF Typed
  <2>5. page'.rows = inked /\ page'.col = page.col + 1
    BY <2>4
  <2>6. caret' = [row |-> LastRow(page'.rows), col |-> page'.col]
    BY <1>1, <1>4, <1>6, <1>7, <2>5
  <2>7. Resting'
    BY <1>9, <2>5, <2>6 DEF Resting
  <2> QED
    BY <1>3, <2>2, <2>7, GetsThrough
<1> QED
  BY <1>10, <1>11

\* The rows of a line that ends, and what becomes of them.
LEMMA LineEnds ==
  ASSUME ConsoleTyped, NEW p \in Printers, text[p] # <<>>,
         Head(text[p]) \notin {CR, BS}, EndsLine(p)
  PROVE  /\ LineRows(p) \in Seq(Row) \ {<<>>}
         /\ Len(LineRows(p)) = Len(page.rows) /\ LastRow(LineRows(p)) = LastRow(page.rows)
         /\ Typed(page, Head(text[p])) = [rows |-> Append(LineRows(p), BlankRow), col |-> 0]
<1> DEFINE chr == Head(text[p])
<1>1. page \in Pages /\ page.col \in 0 .. Width - 1 /\ page.rows \in Seq(Row) \ {<<>>}
  BY DEF ConsoleTyped, Pages
<1>2. chr \in Int
  BY HeadTailProperties DEF ConsoleTyped
<1>3. CASE chr = LF
  <2>1. LineRows(p) = page.rows
    BY <1>3 DEF LineRows
  <2>2. Typed(page, chr) = [rows |-> Append(page.rows, BlankRow), col |-> 0]
    BY <1>3 DEF Typed, Broken, CR, LF, BS
  <2> QED
    BY <1>1, <2>1, <2>2
<1>4. CASE chr # LF
  <2>1. LineRows(p) = Ink(page, page.col, chr) /\ page.col + 1 = Width
    BY <1>4 DEF LineRows, EndsLine
  <2>2. Typed(page, chr) = [rows |-> Append(Ink(page, page.col, chr), BlankRow), col |-> 0]
    BY <1>4, <2>1 DEF Typed, Broken
  <2> HIDE DEF chr
  <2>3. /\ Ink(page, page.col, chr) \in Seq(Row) \ {<<>>}
        /\ Len(Ink(page, page.col, chr)) = Len(page.rows)
    BY <1>1, <1>2, InkRows
  <2>4. LastRow(Ink(page, page.col, chr)) = LastRow(page.rows)
    BY <1>1, <1>2, InkShown
  <2> QED
    BY <2>1, <2>2, <2>3, <2>4 DEF chr
<1> QED
  BY <1>3, <1>4

LEMMA NewLineShows ==
  ASSUME ConsoleTyped, ~overlap => Undisturbed, NEW p \in Printers, NewLine(p), ~overlap'
  PROVE  Undisturbed'
<1> DEFINE rows == LineRows(p)
<1>1. /\ stage[p] = "line" /\ cell' = cell /\ text[p] # <<>>
      /\ caret' = [row |-> at[p].row + 1, col |-> 0]
      /\ at' = [at EXCEPT ![p].col = 1]
  BY DEF NewLine, ConsoleTyped
<1>2. overlap' = overlap
  BY DEF NewLine, Advance, history
<1>3. Within(p) /\ \A q \in Printers \ {p} : ~Busy(q)
  BY <1>1, <1>2, Holder DEF Busy
<1>4. /\ Head(text[p]) \notin {CR, BS} /\ EndsLine(p)
      /\ cell = Shown(rows) /\ at[p].row = LastRow(page.rows)
  BY <1>1, <1>3 DEF Within
<1>5. /\ rows \in Seq(Row) \ {<<>>}
      /\ Len(rows) = Len(page.rows) /\ LastRow(rows) = LastRow(page.rows)
      /\ Typed(page, Head(text[p])) = [rows |-> Append(rows, BlankRow), col |-> 0]
  BY <1>1, <1>4, LineEnds
<1> HIDE DEF rows
<1>6. /\ Len(rows) \in Nat \ {0} /\ LastRow(rows) \in 0 .. Height - 1
      /\ LastRow(rows) = Len(rows) - Above(rows) - 1
  BY <1>5, LenRows DEF LastRow
<1>7. CASE at[p].row + 1 = Height
  <2>1. stage' = [stage EXCEPT ![p] = "scroll"] /\ text' = text /\ page' = page
    BY <1>7 DEF NewLine, history
  <2>2. stage'[p] = "scroll" /\ at'[p].row = at[p].row /\ at'[p].col = 1
    BY <1>1, <2>1 DEF ConsoleTyped, Caret
  <2>3. LineRows(p)' = rows /\ EndsLine(p)'
    BY <1>4, <2>1 DEF LineRows, EndsLine, rows
  <2>4. Len(rows) >= Height
    <3>1. CASE Len(rows) > Height
      BY <3>1, <1>6, ConsoleAssumption
    <3>2. CASE ~(Len(rows) > Height)
      <4>1. Above(rows) = 0
        BY <3>2 DEF Above
      <4> QED
        BY <1>4, <1>5, <1>6, <1>7, <4>1, ConsoleAssumption
    <3> QED
      BY <3>1, <3>2
  <2>5. cell' = Scrolled(rows, 1)
    BY <1>1, <1>4, <1>5, <2>4, ScrollRows
  <2>6. at'[p].row = Height - 1 /\ at'[p].col \in 1 .. Height /\ caret' = [row |-> Height, col |-> 0]
    BY <1>1, <1>4, <1>5, <1>6, <1>7, <2>2, ConsoleAssumption
  <2>7. Within(p)'
    BY <1>4, <1>5, <2>1, <2>2, <2>3, <2>4, <2>5, <2>6 DEF Within
  <2> QED
    BY <1>3, <2>1, <2>7, StaysWithin
<1>8. CASE at[p].row + 1 # Height
  <2>1. Advance(p)
    BY <1>8 DEF NewLine
  <2>2. /\ page' = Typed(page, Head(text[p]))
        /\ stage'[p] \in {"put", "cursor"} /\ \A q \in Printers \ {p} : stage'[q] = stage[q]
    BY <1>1, <2>1, AdvanceEffect
  <2>3. page'.rows = Append(rows, BlankRow) /\ page'.col = 0
    BY <1>5, <2>2
  <2>4. Shown(Append(rows, BlankRow)) = Shown(rows)
        /\ LastRow(Append(rows, BlankRow)) = LastRow(rows) + 1
    BY <1>4, <1>5, <1>8, BrokenShown
  <2>5. Resting'
    BY <1>1, <1>4, <1>5, <2>3, <2>4 DEF Resting
  <2> QED
    BY <1>3, <2>2, <2>5, GetsThrough
<1> QED
  BY <1>7, <1>8

LEMMA ScrollRowShows ==
  ASSUME ConsoleTyped, ~overlap => Undisturbed, NEW p \in Printers, ScrollRow(p), ~overlap'
  PROVE  Undisturbed'
<1> DEFINE rows == LineRows(p)   k == at[p].col
<1>1. /\ stage[p] = "scroll" /\ k < Height /\ overlap' = overlap /\ text[p] # <<>>
      /\ cell' = [off \in DOMAIN cell |->
                    IF off \div Width = k - 1 THEN cell[off + Width] ELSE cell[off]]
      /\ at' = [at EXCEPT ![p].col = k + 1]
      /\ caret' = caret /\ text' = text /\ stage' = stage /\ page' = page
  BY DEF ScrollRow, NextRow, history, ConsoleTyped
<1>2. Within(p) /\ \A q \in Printers \ {p} : ~Busy(q)
  BY <1>1, Holder DEF Busy
<1>3. /\ Head(text[p]) \notin {CR, BS} /\ EndsLine(p)
      /\ Len(page.rows) >= Height
      /\ at[p].row = Height - 1 /\ k \in 1 .. Height
      /\ caret = [row |-> Height, col |-> 0]
      /\ cell = Scrolled(rows, k)
  BY <1>1, <1>2 DEF Within
<1>4. rows \in Seq(Row) \ {<<>>} /\ Len(rows) = Len(page.rows)
  BY <1>1, <1>3, LineEnds
<1>5. rows' = rows /\ EndsLine(p)'
  BY <1>1, <1>3 DEF LineRows, EndsLine
<1>6. at'[p].row = at[p].row /\ at'[p].col = k + 1
  BY <1>1 DEF ConsoleTyped, Caret
<1> HIDE DEF rows, k
<1>7. k \in 1 .. Height - 1 /\ k + 1 \in 1 .. Height
  BY <1>1, <1>3, ConsoleAssumption
<1>8. cell' = Scrolled(rows, k + 1)
  <2>1. DOMAIN cell = Frame
    BY <1>3 DEF Scrolled
  <2>2. cell' = [off \in Frame |-> IF off \div Width = k - 1 THEN Scrolled(rows, k)[off + Width]
                                   ELSE Scrolled(rows, k)[off]]
    BY <1>1, <1>3, <2>1
  <2>3. [off \in Frame |-> IF off \div Width = k - 1 THEN Scrolled(rows, k)[off + Width]
                           ELSE Scrolled(rows, k)[off]] = Scrolled(rows, k + 1)
    BY <1>3, <1>4, <1>7, ScrollRows
  <2> QED
    BY <2>2, <2>3
<1>9. Within(p)'
  BY <1>1, <1>3, <1>5, <1>6, <1>7, <1>8 DEF Within, rows
<1>10. stage' = [stage EXCEPT ![p] = "scroll"]
  BY <1>1 DEF ConsoleTyped
<1> QED
  BY <1>2, <1>9, <1>10, StaysWithin

LEMMA ScrollLastShows ==
  ASSUME ConsoleTyped, ~overlap => Undisturbed, NEW p \in Printers, ScrollLast(p), ~overlap'
  PROVE  Undisturbed'
<1> DEFINE rows == LineRows(p)
<1>1. /\ stage[p] = "scroll" /\ at[p].col = Height /\ Advance(p) /\ text[p] # <<>>
      /\ cell' = [off \in DOMAIN cell |->
                    IF off \div Width = Height - 1 THEN NUL ELSE cell[off]]
      /\ caret' = [caret EXCEPT !.row = at[p].row]
  BY DEF ScrollLast, ConsoleTyped
<1>2. /\ page' = Typed(page, Head(text[p])) /\ overlap' = overlap
      /\ stage'[p] \in {"put", "cursor"} /\ \A q \in Printers \ {p} : stage'[q] = stage[q]
  BY <1>1, AdvanceEffect
<1>3. Within(p) /\ \A q \in Printers \ {p} : ~Busy(q)
  BY <1>1, <1>2, Holder DEF Busy
<1>4. /\ Head(text[p]) \notin {CR, BS} /\ EndsLine(p)
      /\ Len(page.rows) >= Height
      /\ at[p].row = Height - 1
      /\ caret = [row |-> Height, col |-> 0]
      /\ cell = Scrolled(rows, Height)
  BY <1>1, <1>3 DEF Within
<1>5. /\ rows \in Seq(Row) \ {<<>>} /\ Len(rows) = Len(page.rows)
      /\ Typed(page, Head(text[p])) = [rows |-> Append(rows, BlankRow), col |-> 0]
  BY <1>1, <1>4, LineEnds
<1> HIDE DEF rows
<1>6. page'.rows = Append(rows, BlankRow) /\ page'.col = 0
  BY <1>2, <1>5
<1>7. cell' = Shown(Append(rows, BlankRow)) /\ LastRow(Append(rows, BlankRow)) = Height - 1
  <2>1. DOMAIN cell = Frame
    BY <1>4 DEF Scrolled
  <2> QED
    BY <1>1, <1>4, <1>5, <2>1, ScrollRows
<1>8. caret' = [row |-> Height - 1, col |-> 0]
  BY <1>1, <1>4
<1>9. Resting'
  BY <1>6, <1>7, <1>8 DEF Resting
<1> QED
  BY <1>2, <1>3, <1>9, GetsThrough

LEMMA CursorShows ==
  ASSUME ConsoleTyped, ~overlap => Undisturbed, NEW p \in Printers,
         AimCursor(p) \/ PutCursor(p), ~overlap'
  PROVE  Undisturbed'
<1>1. CASE AimCursor(p)
  <2>1. /\ ~overlap /\ \A q \in Printers \ {p} : ~Busy(q)
        /\ cell' = cell /\ caret' = caret /\ text' = text /\ page' = page
        /\ at'[p] = caret /\ stage' = [stage EXCEPT ![p] = "aimed"]
    BY <1>1 DEF AimCursor, Enter, ConsoleTyped
  <2>2. ~Busy(p)
    BY <1>1 DEF AimCursor, Busy
  <2>3. Resting
    BY <2>1, <2>2 DEF Undisturbed
  <2>4. stage'[p] = "aimed"
    BY <2>1 DEF ConsoleTyped
  <2>5. Within(p)'
    BY <2>1, <2>3, <2>4 DEF Within, Resting
  <2> QED
    BY <2>1, <2>5, StaysWithin
<1>2. CASE PutCursor(p)
  <2>1. /\ stage[p] = "aimed" /\ overlap' = overlap
        /\ cell' = cell /\ caret' = caret /\ page' = page /\ cursor' = at[p]
        /\ stage' = [stage EXCEPT ![p] = "idle"]
    BY <1>2 DEF PutCursor, history
  <2>2. Within(p) /\ \A q \in Printers \ {p} : ~Busy(q)
    BY <2>1, Holder DEF Busy
  <2>3. Resting /\ at[p] = caret
    BY <2>1, <2>2 DEF Within
  <2>4. \A q \in Printers : ~Busy(q)'
    BY <2>1, <2>2 DEF Busy, ConsoleTyped
  <2>5. Resting' /\ cursor' = caret'
    BY <2>1, <2>3 DEF Resting
  <2> QED
    BY <2>4, <2>5 DEF Undisturbed
<1> QED
  BY <1>1, <1>2

LEMMA PrintShows ==
  ASSUME ScreenInv, NEW p \in Printers, PrintStep(p)
  PROVE  ScreenInv'
<1>1. ConsoleTyped /\ (~overlap => Undisturbed)
  BY DEF ScreenInv
<1>2. ConsoleTyped'
  BY <1>1, PrintTyped
<1>3. ASSUME ~overlap'
      PROVE  Undisturbed'
  BY <1>1, <1>3, PutCharShows, ReturnShows, BackspaceShows, StoreShows, NewLineShows,
     ScrollRowShows, ScrollLastShows, CursorShows DEF PrintStep
<1> QED
  BY <1>2, <1>3 DEF ScreenInv

\* A call begins.
LEMMA KprintfShows ==
  ASSUME ScreenInv, NEW p \in Printers, NEW s \in Seq(Int), Kprintf(p, s)
  PROVE  ScreenInv'
<1>1. ConsoleTyped /\ (~overlap => Undisturbed)
  BY DEF ScreenInv
<1>2. /\ text \in [Printers -> Seq(Int)] /\ stage \in [Printers -> Stages]
      /\ stage[p] = "idle" /\ text' = [text EXCEPT ![p] = s]
      /\ stage' = [stage EXCEPT ![p] = IF s = <<>> THEN "cursor" ELSE "put"]
      /\ UNCHANGED <<cell, caret, cursor, at, page, overlap>>
  BY <1>1 DEF Kprintf, ConsoleTyped, history
<1>3. /\ text'[p] = s /\ stage'[p] = IF s = <<>> THEN "cursor" ELSE "put"
      /\ \A q \in Printers \ {p} : text'[q] = text[q] /\ stage'[q] = stage[q]
  BY <1>2
<1>4. ConsoleTyped'
  <2>1. stage' \in [Printers -> Stages]
    BY <1>2 DEF Stages
  <2>2. text' \in [Printers -> Seq(Int)]
    BY <1>2
  <2>3. ASSUME NEW q \in Printers, stage'[q] \in {"put", "store", "line", "scroll"}
        PROVE  text'[q] # <<>>
    BY <1>1, <1>3, <2>3 DEF ConsoleTyped
  <2> QED
    BY <1>1, <1>2, <2>1, <2>2, <2>3 DEF ConsoleTyped
<1>5. ASSUME ~overlap'
      PROVE  Undisturbed'
  <2>1. Undisturbed
    BY <1>1, <1>2, <1>5
  <2>2. \A q \in Printers : Busy(q)' <=> Busy(q)
    BY <1>2, <1>3 DEF Busy
  <2>3. ASSUME NEW q \in Printers, Busy(q)'
        PROVE  Within(q)'
    <3>1. q # p /\ Within(q) /\ text'[q] = text[q] /\ stage'[q] = stage[q]
      BY <1>2, <1>3, <2>1, <2>2, <2>3 DEF Undisturbed, Busy
    <3>2. LineRows(q)' = LineRows(q) /\ EndsLine(q)' = EndsLine(q)
      BY <1>2, <3>1 DEF LineRows, EndsLine
    <3>3. Resting' = Resting
      BY <1>2 DEF Resting
    <3> QED
      BY <1>2, <3>1, <3>2, <3>3 DEF Within
  <2>4. Resting' = Resting /\ stage'[p] # "idle"
    BY <1>2, <1>3 DEF Resting
  <2> QED
    BY <2>1, <2>2, <2>3, <2>4 DEF Undisturbed
<1> QED
  BY <1>4, <1>5 DEF ScreenInv
-----------------------------------------------------------------------------
(* The keyboard and the terminal.                                          *)

PortTyped == latch \in Bytes /\ full \in BOOLEAN /\ wire \in Seq(Bytes)

ReaderTyped ==
  /\ held \subseteq DOMAIN Codes
  /\ handler \in {"none", "keyboard"}
  /\ pc \in {"start", "ack1", "ack2", "install", "read", "more", "decode", "write", "hung"}
  /\ mods \subseteq SHIFT_L .. ALT_L /\ locks \subseteq CAPS_LOCK .. SCROLL_LOCK
  /\ inbuf \in Seq(Int) /\ Len(inbuf) <= TTY_IN_BYTES
  /\ mishap \subseteq {"crashed", "dropped", "stolen"}

TerminalInv == PortTyped /\ ReaderTyped /\ todo \in Scenario /\ ScreenInv

LEMMA InitTerminalInv == TerminalInit => TerminalInv
<1> SUFFICES ASSUME TerminalInit PROVE TerminalInv
  OBVIOUS
<1>1. KeyboardInit /\ ConsoleInit /\ todo \in Scenario
  BY TerminalAssumption DEF TerminalInit
<1>2. PortTyped
  BY <1>1, KbAssumption, EmptySeq DEF KeyboardInit, PortTyped
<1>3. ReaderTyped
  <2>1. inbuf \in Seq(Int) /\ Len(inbuf) <= TTY_IN_BYTES
    BY <1>1, KeyboardAssumption, EmptySeq DEF KeyboardInit
  <2>2. locks \subseteq CAPS_LOCK .. SCROLL_LOCK
    BY <1>1 DEF KeyboardInit, NUM_LOCK, CAPS_LOCK, SCROLL_LOCK, FLAG_EXT
  <2> QED
    BY <1>1, <2>1, <2>2 DEF KeyboardInit, ReaderTyped
<1>4. ConsoleTyped
  <2>1. Origin \in Caret /\ <<>> \in Seq(Int)
    BY EmptySeq DEF Origin, Caret
  <2>2. page \in Pages
    BY <1>1, BlankRows DEF ConsoleInit
  <2> QED
    BY <1>1, <2>1, <2>2 DEF ConsoleInit, ConsoleTyped, Stages
<1>5. Resting
  <2>1. page.rows = <<BlankRow>> /\ page.col = 0
    BY <1>1 DEF ConsoleInit, BlankPage
  <2>2. Len(<<BlankRow>>) = 1 /\ <<BlankRow>>[1] = BlankRow
    OBVIOUS
  <2>3. Above(page.rows) = 0 /\ LastRow(page.rows) = 0
    BY <2>1, <2>2, ConsoleAssumption DEF Above, LastRow
  <2>4. ASSUME NEW off \in Frame
        PROVE  Place(page.rows, off \div Width, off % Width) = NUL
    <3>1. off \div Width \in Nat /\ off % Width \in 0 .. Width - 1
      BY FrameCell, ConsoleAssumption
    <3>2. BlankRow[off % Width] = NUL
      BY <3>1 DEF BlankRow
    <3>3. CASE off \div Width = 0
      BY <2>1, <2>2, <2>3, <3>2, <3>3 DEF Place
    <3>4. CASE off \div Width # 0
      <4>1. ~(0 + (off \div Width) + 1 <= 1)
        BY <3>1, <3>4
      <4> QED
        BY <2>1, <2>2, <2>3, <4>1 DEF Place
    <3> QED
      BY <3>3, <3>4
  <2>5. cell = Shown(page.rows)
    BY <1>1, <2>4 DEF ConsoleInit, Shown, Frame
  <2>6. caret = [row |-> 0, col |-> 0]
    BY <1>1 DEF ConsoleInit, Origin
  <2> QED
    BY <2>1, <2>3, <2>5, <2>6 DEF Resting
<1>6. Undisturbed
  BY <1>1, <1>5 DEF ConsoleInit, Undisturbed, Busy
<1> QED
  BY <1>1, <1>2, <1>3, <1>4, <1>6 DEF TerminalInv, ScreenInv

\* What a key's code turns into.
LEMMA KeyInt == Key \in Int /\ \A key \in Int : Unpadded(key) \in Int
<1> USE DEF ENTER, BACKSPACE, SHIFT_L, SHIFT_R, CTRL_L, CTRL_R, ALT_L, ALT_R, CAPS_LOCK, NUM_LOCK,
         UP, PAD_ENTER, PAD_0, PAD_8, FLAG_EXT
<1>1. \A row : keymap(row)[1] \in Int /\ keymap(row)[2] \in Int /\ keymap(row)[3] \in Int
  BY DEF keymap
<1>2. \A key \in Int : Unpadded(key) \in Int
  BY DEF Unpadded
<1> QED
  BY <1>1, <1>2 DEF Key

\* The user and the keyboard.
LEMMA KeysTyped ==
  ASSUME PortTyped, ReaderTyped, NEW k \in DOMAIN Codes, Press(k) \/ Release(k)
  PROVE  PortTyped' /\ ReaderTyped'
<1>1. Codes[k].make \in Seq(Bytes) /\ Codes[k].break \in Seq(Bytes)
  BY BytesAssumption
<1>2. /\ wire' \in {wire \o Codes[k].make, wire \o Codes[k].break}
      /\ held' \subseteq held \cup {k}
      /\ UNCHANGED <<latch, full, readVars, mishap>>
  BY DEF Press, Release
<1>3. wire' \in Seq(Bytes)
  <2>1. wire \in Seq(Bytes)
    BY DEF PortTyped
  <2>2. wire \o Codes[k].make \in Seq(Bytes) /\ wire \o Codes[k].break \in Seq(Bytes)
    BY <1>1, <2>1, ConcatProperties
  <2> QED
    BY <1>2, <2>2
<1> QED
  BY <1>2, <1>3 DEF PortTyped, ReaderTyped, readVars

LEMMA InterruptTyped ==
  ASSUME PortTyped, ReaderTyped, Deliver \/ Interrupt
  PROVE  PortTyped' /\ ReaderTyped'
<1>1. CASE Deliver
  <2>1. latch' \in Bytes /\ wire' \in Seq(Bytes)
    BY <1>1, HeadTailProperties DEF Deliver, PortTyped
  <2> QED
    BY <1>1, <2>1 DEF Deliver, PortTyped, ReaderTyped, readVars
<1>2. CASE Interrupt
  <2>1. mishap' \subseteq {"crashed", "dropped", "stolen"}
    BY <1>2 DEF Interrupt, ReaderTyped
  <2> QED
    BY <1>2, <2>1 DEF Interrupt, PortTyped, ReaderTyped, readVars
<1> QED
  BY <1>1, <1>2

\* keyboard_read, its modifiers and its commands to the keyboard.
LEMMA ReadTyped ==
  ASSUME PortTyped, ReaderTyped, KeyboardRead
  PROVE  PortTyped' /\ ReaderTyped'
<1>1. ASSUME NEW next \in {"ack1", "ack2"}, SendCommand(next)
      PROVE  wire' \in Seq(Bytes) /\ pc' = next
  <2>1. Append(wire, ACK) \in Seq(Bytes)
    BY BytesAssumption, AppendProperties DEF PortTyped
  <2> QED
    BY <1>1, <2>1 DEF SendCommand
<1>2. CASE InitKeyboard
  <2>1. wire' \in Seq(Bytes) /\ pc' = "ack1"
    BY <1>1, <1>2 DEF InitKeyboard
  <2> QED
    BY <1>2, <2>1 DEF InitKeyboard, PortTyped, ReaderTyped
<1>3. CASE KbAck
  <2>1. wire' \in Seq(Bytes) /\ pc' \in {"ack1", "ack2", "install", "write"}
    <3>1. CASE ~Acked
      BY <1>3, <3>1 DEF KbAck, PortTyped
    <3>2. CASE Acked /\ pc = "ack1"
      BY <1>1, <1>3, <3>2 DEF KbAck
    <3>3. CASE Acked /\ pc = "ack2"
      BY <1>3, <3>3 DEF KbAck, PortTyped
    <3> QED
      BY <1>3, <3>1, <3>2, <3>3 DEF KbAck
  <2>2. mishap' \subseteq {"crashed", "dropped", "stolen"}
    BY <1>3 DEF KbAck, ReaderTyped
  <2> QED
    BY <1>3, <2>1, <2>2 DEF KbAck, PortTyped, ReaderTyped
<1>4. CASE PutIrqHandler
  <2>1. inbuf' \in Seq(Int) /\ Len(inbuf') <= TTY_IN_BYTES
    BY <1>4, EmptySeq, KeyboardAssumption DEF PutIrqHandler
  <2> QED
    BY <1>4, <2>1 DEF PutIrqHandler, PortTyped, ReaderTyped, wireVars
<1>5. CASE TakeByte
  BY <1>5 DEF TakeByte, PortTyped, ReaderTyped, wireVars
<1>6. CASE Hang
  BY <1>6 DEF Hang, PortTyped, ReaderTyped, wireVars
<1>7. CASE DecodeSpecial
  BY <1>7 DEF DecodeSpecial, PortTyped, ReaderTyped, wireVars
<1>8. CASE DecodeModifier
  <2>1. Flag(Key) \in SHIFT_L .. ALT_L
    <3>1. Key \in SHIFT_L .. ALT_R
      BY <1>8 DEF DecodeModifier
    <3> HIDE DEF Key
    <3> QED
      BY <3>1 DEF Flag, SHIFT_L, ALT_L, ALT_R, FLAG_EXT
  <2>2. mods' \subseteq SHIFT_L .. ALT_L
    BY <1>8, <2>1 DEF DecodeModifier, ReaderTyped
  <2> QED
    BY <1>8, <2>2 DEF DecodeModifier, PortTyped, ReaderTyped, wireVars
<1>9. CASE DecodeLock
  <2>1. wire' \in Seq(Bytes) /\ pc' = "ack1"
    BY <1>1, <1>9 DEF DecodeLock
  <2>2. locks' \subseteq CAPS_LOCK .. SCROLL_LOCK
    BY <1>9 DEF DecodeLock, ReaderTyped
  <2> QED
    BY <1>9, <2>1, <2>2 DEF DecodeLock, PortTyped, ReaderTyped
<1>10. CASE DecodeOther
  <2>1. inbuf' \in Seq(Int) /\ Len(inbuf') <= TTY_IN_BYTES
    <3>1. CASE Made /\ Len(inbuf) < TTY_IN_BYTES
      <4> DEFINE typed == InProcess(Unpadded(Key))
      <4>1. typed \in Seq(Int) /\ Len(typed) \in 0 .. 1
        <5>1. \A key \in Int : InProcess(key) \in {<<key>>, <<10>>, <<8>>, <<>>}
          BY DEF InProcess
        <5>2. Unpadded(Key) \in Int
          BY KeyInt
        <5>3. typed \in {<<Unpadded(Key)>>, <<10>>, <<8>>, <<>>}
          BY <5>1, <5>2
        <5>4. \A n \in Int : <<n>> \in Seq(Int) /\ Len(<<n>>) = 1
          OBVIOUS
        <5> HIDE DEF typed
        <5>5. ASSUME NEW n \in Int, typed = <<n>> PROVE typed \in Seq(Int) /\ Len(typed) \in 0 .. 1
          BY <5>4, <5>5
        <5>6. CASE typed = <<>>
          BY <5>6, EmptySeq
        <5>7. 10 \in Int /\ 8 \in Int
          OBVIOUS
        <5> QED
          BY <5>2, <5>3, <5>5, <5>6, <5>7, Zenon
      <4>2. inbuf' = inbuf \o typed
        BY <1>10, <3>1 DEF DecodeOther
      <4> HIDE DEF typed
      <4>3. inbuf' \in Seq(Int) /\ Len(inbuf') = Len(inbuf) + Len(typed)
        BY <4>1, <4>2, ConcatProperties DEF ReaderTyped
      <4>4. Len(inbuf) \in Nat
        BY LenProperties DEF ReaderTyped
      <4>5. Len(inbuf) + Len(typed) <= TTY_IN_BYTES
        <5>1. Len(inbuf) < TTY_IN_BYTES /\ TTY_IN_BYTES \in Nat /\ Len(typed) \in 0 .. 1
          BY <3>1, <4>1, KeyboardAssumption
        <5> DEFINE before == Len(inbuf)   more == Len(typed)
        <5>2. before \in Nat /\ before < TTY_IN_BYTES /\ more \in 0 .. 1
          BY <4>4, <5>1
        <5> HIDE DEF before, more
        <5>3. before + more <= TTY_IN_BYTES
          BY <5>1, <5>2
        <5> QED
          BY <5>3 DEF before, more
      <4> QED
        BY <4>3, <4>5
    <3>2. CASE ~(Made /\ Len(inbuf) < TTY_IN_BYTES)
      BY <1>10, <3>2 DEF DecodeOther, ReaderTyped
    <3> QED
      BY <3>1, <3>2
  <2> QED
    BY <1>10, <2>1 DEF DecodeOther, PortTyped, ReaderTyped, wireVars
<1> QED
  BY <1>2, <1>3, <1>4, <1>5, <1>6, <1>7, <1>8, <1>9, <1>10 DEF KeyboardRead

LEMMA ConsoleStutters == ScreenInv /\ UNCHANGED consoleVars => ScreenInv'
  BY DEF ScreenInv, ConsoleTyped, Undisturbed, Within, Resting, LineRows, EndsLine, Busy, consoleVars

LEMMA TerminalInvStep == TerminalInv /\ [TerminalNext]_terminalVars => TerminalInv'
<1> SUFFICES ASSUME TerminalInv, [TerminalNext]_terminalVars PROVE TerminalInv'
  OBVIOUS
<1> USE DEF TerminalInv
<1>1. ASSUME NEW k \in DOMAIN Codes, UserPresses(k)
      PROVE  TerminalInv'
  <2>1. PortTyped' /\ ReaderTyped' /\ ScreenInv'
    BY <1>1, KeysTyped, ConsoleStutters DEF UserPresses
  <2>2. todo' = [todo EXCEPT !.keys = todo.keys - 1] /\ todo.keys > 0
    BY <1>1 DEF UserPresses
  <2>3. \A t \in Scenario : t.keys \in Nat /\ \A n \in Nat : [t EXCEPT !.keys = n] \in Scenario
    BY DEF Scenario
  <2>4. todo.keys - 1 \in Nat
    BY <2>2, <2>3
  <2>5. todo' \in Scenario
    BY <2>2, <2>3, <2>4
  <2> QED
    BY <2>1, <2>5
<1>2. ASSUME NEW k \in DOMAIN Codes, UserReleases(k)
      PROVE  TerminalInv'
  BY <1>2, KeysTyped, ConsoleStutters DEF UserReleases, ghosts
<1>3. CASE Hardware
  BY <1>3, InterruptTyped, ConsoleStutters DEF Hardware, ghosts
<1>4. CASE TakeInterrupt
  BY <1>4, InterruptTyped, ConsoleStutters DEF TakeInterrupt, ghosts
<1>5. CASE TtyRead
  BY <1>5, ReadTyped, ConsoleStutters DEF TtyRead, ghosts
<1>6. CASE TtyWrite
  <2>1. PortTyped'
    BY <1>6 DEF TtyWrite, PortTyped, wireVars
  <2>2. inbuf \in Seq(Int) /\ Len(inbuf) \in Nat /\ Len(inbuf) <= TTY_IN_BYTES
    BY LenProperties DEF ReaderTyped
  <2>3. inbuf' \in Seq(Int) /\ Len(inbuf') <= TTY_IN_BYTES
    <3>1. CASE inbuf = <<>>
      BY <1>6, <2>2, <3>1 DEF TtyWrite
    <3>2. CASE inbuf # <<>>
      <4>1. inbuf' = Tail(inbuf)
        BY <1>6, <3>2 DEF TtyWrite
      <4>2. Tail(inbuf) \in Seq(Int) /\ Len(Tail(inbuf)) = Len(inbuf) - 1
        BY <2>2, <3>2, HeadTailProperties
      <4> QED
        BY <2>2, <4>1, <4>2, KeyboardAssumption
    <3> QED
      BY <3>1, <3>2
  <2>4. ReaderTyped'
    BY <1>6, <2>3 DEF TtyWrite, ReaderTyped, wireVars
  <2>5. ScreenInv'
    <3>1. CASE inbuf = <<>>
      BY <1>6, <3>1, ConsoleStutters DEF TtyWrite
    <3>2. CASE inbuf # <<>>
      <4>1. Head(inbuf) \in Int
        BY <2>2, <3>2, HeadTailProperties
      <4> DEFINE s == <<Head(inbuf)>>
      <4>2. s \in Seq(Int)
        BY <4>1
      <4>3. Kprintf(Tty, s)
        BY <1>6, <3>2 DEF TtyWrite
      <4> HIDE DEF s
      <4> QED
        BY <4>2, <4>3, KprintfShows, TerminalAssumption
    <3> QED
      BY <3>1, <3>2
  <2> QED
    BY <1>6, <2>1, <2>4, <2>5 DEF TtyWrite, ghosts
<1>7. ASSUME NEW p \in Printers, OtherPrints(p)
      PROVE  TerminalInv'
  <2>1. /\ p \in Printers \ {Tty} /\ todo.jobs[p] # <<>>
        /\ Kprintf(p, Format(Head(todo.jobs[p])))
        /\ todo' = [todo EXCEPT !.jobs = [todo.jobs EXCEPT ![p] = Tail(todo.jobs[p])]]
    BY <1>7 DEF OtherPrints
  <2>2. todo.jobs \in [Printers \ {Tty} -> Seq(Jobs)] /\ todo.jobs[p] \in Seq(Jobs)
    BY <2>1 DEF Scenario
  <2>3. Head(todo.jobs[p]) \in Jobs /\ Tail(todo.jobs[p]) \in Seq(Jobs)
    BY <2>1, <2>2, HeadTailProperties
  <2>4. ScreenInv'
    BY <2>1, <2>3, KprintfShows, JobsAreText
  <2>5. [todo.jobs EXCEPT ![p] = Tail(todo.jobs[p])] \in [Printers \ {Tty} -> Seq(Jobs)]
    BY <2>1, <2>2, <2>3
  <2>6. todo' \in Scenario
    BY <2>1, <2>5 DEF Scenario
  <2>7. PortTyped' /\ ReaderTyped'
    BY <1>7 DEF OtherPrints, keyboardVars, wireVars, readVars, PortTyped, ReaderTyped
  <2> QED
    BY <2>4, <2>6, <2>7
<1>8. ASSUME NEW p \in Printers, Printing(p)
      PROVE  TerminalInv'
  <2>1. ScreenInv'
    BY <1>8, PrintShows DEF Printing
  <2>2. PortTyped' /\ ReaderTyped' /\ todo' = todo
    BY <1>8 DEF Printing, ghosts, keyboardVars, wireVars, readVars, PortTyped, ReaderTyped
  <2> QED
    BY <2>1, <2>2
<1>9. CASE UNCHANGED terminalVars
  <2>1. ScreenInv'
    BY <1>9, ConsoleStutters DEF terminalVars
  <2> QED
    BY <1>9, <2>1 DEF terminalVars, keyboardVars, wireVars, readVars, PortTyped, ReaderTyped
<1> QED
  BY <1>1, <1>2, <1>3, <1>4, <1>5, <1>6, <1>7, <1>8, <1>9 DEF TerminalNext

-----------------------------------------------------------------------------
(* The results.                                                            *)

(* What is known of the keyboard, the port and the screen in every         *)
(* reachable state, also while a printer is in put_char or scroll_frame.   *)
THEOREM TerminalInvInductive == TerminalSpec => []TerminalInv
<1> QED
  BY InitTerminalInv, TerminalInvStep, PTL DEF TerminalSpec

(* What is printed is on the screen, whoever prints (put_char,             *)
(* scroll_frame and put_cursor of kernel/vga.c), in frames of every size   *)
(* and for every text, as long as nobody prints between another one's      *)
(* reading of the caret and his writing it.                                *)
THEOREM ScreenIsRight == TerminalSpec => []ScreenShowsPage
<1>1. TerminalInv => ScreenShowsPage
  BY DEF TerminalInv, ScreenInv, Undisturbed, Resting, LastRow, ScreenShowsPage
<1> QED
  BY <1>1, TerminalInvInductive, PTL

(* kb_in is filled and emptied as KbSpec says, by an interrupt that falls  *)
(* anywhere into task_tty.                                                 *)
LEMMA TerminalUsesRing == TerminalSpec => KbSpec
<1>1. TerminalInit => KbInit
  BY DEF TerminalInit, KeyboardInit
<1>2. TerminalInv /\ [TerminalNext]_terminalVars => [KbNext]_kbVars
  <2> SUFFICES ASSUME TerminalInv, [TerminalNext]_terminalVars PROVE KbNext \/ UNCHANGED kbVars
    OBVIOUS
  <2>1. latch \in Bytes
    BY DEF TerminalInv, PortTyped
  <2>2. ASSUME NEW k \in DOMAIN Codes, UserPresses(k) \/ UserReleases(k)
        PROVE  UNCHANGED kbVars
    BY <2>2 DEF UserPresses, UserReleases, Press, Release
  <2>3. CASE Hardware
    BY <2>3 DEF Hardware, Deliver
  <2>4. CASE TakeInterrupt
    BY <2>1, <2>4 DEF TakeInterrupt, Interrupt, KbNext
  <2>5. CASE TtyRead
    <3>1. KeyboardRead
      BY <2>5 DEF TtyRead
    <3>2. CASE TakeByte
      BY <3>2 DEF TakeByte, KbNext
    <3>3. CASE ~TakeByte
      BY <3>1, <3>3 DEF KeyboardRead, InitKeyboard, KbAck, PutIrqHandler, Hang, DecodeSpecial,
         DecodeModifier, DecodeLock, DecodeOther
    <3> QED
      BY <3>2, <3>3
  <2>6. CASE TtyWrite
    BY <2>6 DEF TtyWrite
  <2>7. ASSUME NEW p \in Printers, OtherPrints(p) \/ Printing(p)
        PROVE  UNCHANGED kbVars
    BY <2>7 DEF OtherPrints, Printing, keyboardVars
  <2>8. CASE UNCHANGED terminalVars
    BY <2>8 DEF terminalVars, keyboardVars
  <2> QED
    BY <2>2, <2>3, <2>4, <2>5, <2>6, <2>7, <2>8 DEF TerminalNext
<1> QED
  BY <1>1, <1>2, TerminalInvInductive, PTL DEF TerminalSpec, KbSpec

(* The ring is a bounded queue in the whole system: between interrupt and  *)
(* terminal no scan code is invented, doubled or overtaken.                *)
THEOREM TerminalRingIsQueue == TerminalSpec => RingIsQueue
<1> QED
  BY TerminalUsesRing, RingRefinesQueue

(* The types of the keyboard's and the terminal's data: kb_in stays within *)
(* its bounds, in_buf within its own (put_key of kernel/tty.c), and only   *)
(* flags of modifier and lock keys are ever set.                           *)
THEOREM TerminalTypeCorrect == TerminalSpec => []TerminalTypeInv
<1>1. TerminalInv /\ RingInv => TerminalTypeInv
  <2> SUFFICES ASSUME TerminalInv, RingInv PROVE TerminalTypeInv
    OBVIOUS
  <2>1. \A n \in DOMAIN wire : wire[n] \in Bytes
    BY ElementOfSeq, LenProperties DEF TerminalInv, PortTyped
  <2>2. \A p \in Printers : stage[p] \in Stages
    BY DEF TerminalInv, ScreenInv, ConsoleTyped
  <2> QED
    BY <2>1, <2>2 DEF TerminalInv, PortTyped, ReaderTyped, Stages, TerminalTypeInv
<1>2. TerminalSpec => []RingInv
  BY TerminalUsesRing, RingCorrect
<1> QED
  BY <1>1, <1>2, TerminalInvInductive, PTL

(* A number that a process has kprintf print reads back as that number,    *)
(* the most negative one too (ultoa of lib/util.c, kprintf), for every     *)
(* width of int and every value of that width.                             *)
THEOREM NumbersAreRead == TerminalSpec => []NumbersReadBack
<1>1. TerminalInv => NumbersReadBack
  <2> SUFFICES ASSUME TerminalInv, NEW p \in DOMAIN todo.jobs, NEW n \in DOMAIN todo.jobs[p],
                      NEW item \in ToSet(todo.jobs[p][n])
               PROVE  /\ item[1] = "d" => ValueOf(Conversion(item)) = item[2]
                      /\ item[1] \in {"x", "X"} => ValueOf(Conversion(item)) = Unsigned(item[2])
    BY DEF NumbersReadBack
  <2>1. todo.jobs \in [Printers \ {Tty} -> Seq(Jobs)]
    BY DEF TerminalInv, Scenario
  <2>2. p \in Printers \ {Tty} /\ todo.jobs[p] \in Seq(Jobs)
    BY <2>1
  <2> DEFINE jobs == todo.jobs[p]
             items == jobs[n]
  <2> HIDE DEF jobs
  <2>3. jobs \in Seq(Jobs) /\ n \in DOMAIN jobs
    BY <2>2 DEF jobs
  <2>4. n \in 1 .. Len(jobs)
    BY <2>3, LenProperties
  <2>5. items \in Jobs
    BY <2>3, <2>4, ElementOfSeq
  <2>6. items \in Seq(Items)
    BY <2>5, TerminalAssumption
  <2>7. item \in ToSet(items)
    BY DEF jobs
  <2> HIDE DEF items
  <2>8. item \in Items
    <3>1. PICK k \in DOMAIN items : item = items[k]
      BY <2>7 DEF ToSet
    <3>2. k \in 1 .. Len(items)
      BY <2>6, <3>1, LenProperties
    <3> QED
      BY <2>6, <3>1, <3>2, ElementOfSeq
  <2>9. CASE item \in {"d", "x", "X"} \X Ints
    <3>1. PICK type \in {"d", "x", "X"}, v \in Ints : item = <<type, v>>
      BY <2>9
    <3>2. item[1] = type /\ item[2] = v
      BY <3>1
    <3>3. type = "d" => ValueOf(Conversion(item)) = v
      BY <3>1, SignedReads
    <3>4. type \in {"x", "X"} => ValueOf(Conversion(item)) = Unsigned(v)
      BY <3>1, UnsignedReads
    <3> QED
      BY <3>2, <3>3, <3>4, Zenon
  <2>10. CASE item \notin {"d", "x", "X"} \X Ints
    <3>1. item[1] \in {"c", "s"}
      BY <2>8, <2>10 DEF Items
    <3> QED
      BY <3>1
  <2> QED
    BY <2>9, <2>10
<1> QED
  BY <1>1, TerminalInvInductive, PTL
=============================================================================
