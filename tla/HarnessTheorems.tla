-------------------------- MODULE HarnessTheorems --------------------------
(***************************************************************************)
(* Theorems about Harness for any lessons, sessions, statuses and noise.   *)
(***************************************************************************)
EXTENDS Harness, SequenceTheorems, WellFoundedInduction, TLAPS

-----------------------------------------------------------------------------
(* What a session's buffer and its stdout pipe hold together.              *)

(* A marker, a digit of a status, or noise.                                *)
Pieces == {"step", "digit", "noise"} \X Nat

(* Every marker is that of a step that has run, and the digits right       *)
(* behind it are its status, from the first one on.                        *)
StreamOK(t, rn, md) ==
    \A k \in 1 .. Len(t) : t[k][1] = "step" =>
        /\ t[k][2] \in DOMAIN rn
        /\ md = "shell" =>
             \A d \in 1 .. Len(t) - k :
                (\A j \in 1 .. d : t[k + j][1] = "digit") =>
                    d <= Len(rn[t[k][2]]) /\ t[k + d][2] = rn[t[k][2]][d]

(* Before anything is printed there is nothing to go wrong.                *)
LEMMA EmptyStream == \A rn, md : StreamOK(<<>>, rn, md)
BY DEF StreamOK

(* Concatenation of pieces is associative.                                 *)
LEMMA Associative ==
    ASSUME NEW b \in Seq(Pieces), NEW left \in Seq(Pieces), NEW right \in Seq(Pieces)
    PROVE  (b \o left) \o right = b \o (left \o right)
<1> DEFINE bl == b \o left
           lr == left \o right
           x == bl \o right
           y == b \o lr
<1>1. /\ bl \in Seq(Pieces) /\ Len(bl) = Len(b) + Len(left)
      /\ \A i \in 1 .. Len(b) + Len(left) :
            bl[i] = IF i <= Len(b) THEN b[i] ELSE left[i - Len(b)]
  BY ConcatProperties
<1>2. /\ lr \in Seq(Pieces) /\ Len(lr) = Len(left) + Len(right)
      /\ \A i \in 1 .. Len(left) + Len(right) :
            lr[i] = IF i <= Len(left) THEN left[i] ELSE right[i - Len(left)]
  BY ConcatProperties
<1> HIDE DEF bl, lr
<1>0. /\ b \in Seq(Pieces) /\ bl \in Seq(Pieces)
      /\ right \in Seq(Pieces) /\ lr \in Seq(Pieces)
  BY <1>1, <1>2
<1>3. /\ x \in Seq(Pieces) /\ Len(x) = Len(bl) + Len(right)
      /\ \A i \in 1 .. Len(bl) + Len(right) :
            x[i] = IF i <= Len(bl) THEN bl[i] ELSE right[i - Len(bl)]
  BY <1>0, ConcatProperties, Zenon
<1>4. /\ y \in Seq(Pieces) /\ Len(y) = Len(b) + Len(lr)
      /\ \A i \in 1 .. Len(b) + Len(lr) :
            y[i] = IF i <= Len(b) THEN b[i] ELSE lr[i - Len(b)]
  BY <1>0, ConcatProperties, Zenon
<1> HIDE DEF x, y
<1>5. Len(b) \in Nat /\ Len(left) \in Nat /\ Len(right) \in Nat
  BY LenProperties
<1>6. Len(x) = Len(y)
  BY <1>1, <1>2, <1>3, <1>4, <1>5
<1>7. ASSUME NEW i \in 1 .. Len(x) PROVE x[i] = y[i]
  <2>1. CASE i <= Len(b)
    <3>1. x[i] = bl[i] /\ bl[i] = b[i]
      BY <2>1, <1>1, <1>3, <1>5
    <3>2. y[i] = b[i]
      BY <2>1, <1>4, <1>6
    <3> QED
      BY <3>1, <3>2
  <2>2. CASE i > Len(b) /\ i <= Len(b) + Len(left)
    <3>1. i - Len(b) \in 1 .. Len(left) + Len(right) /\ i - Len(b) <= Len(left)
      BY <2>2, <1>5
    <3>2. x[i] = left[i - Len(b)]
      BY <2>2, <1>1, <1>3, <1>5
    <3>3. y[i] = lr[i - Len(b)]
      BY <2>2, <1>4, <1>5, <1>6
    <3> QED
      BY <3>1, <3>2, <3>3, <1>2
  <2>3. CASE i > Len(b) + Len(left)
    <3>1. /\ i - Len(b) \in 1 .. Len(left) + Len(right) /\ ~(i - Len(b) <= Len(left))
          /\ (i - Len(b)) - Len(left) = i - (Len(b) + Len(left))
      BY <2>3, <1>1, <1>3, <1>5
    <3>2. x[i] = right[i - (Len(b) + Len(left))]
      BY <2>3, <1>1, <1>3, <1>5
    <3>3. y[i] = lr[i - Len(b)]
      BY <2>3, <1>4, <1>5, <1>6
    <3> QED
      BY <3>1, <3>2, <3>3, <1>2
  <2> QED
    BY <2>1, <2>2, <2>3, <1>5, <1>3
<1>8. x = y
  BY <1>3, <1>4, <1>6, <1>7, SeqEqual
<1> QED
  BY <1>8 DEF x, y, bl, lr

(* A read that moves text from stdout to the buffer changes nothing.       *)
LEMMA ReadStdout ==
    ASSUME NEW b \in Seq(Pieces), NEW o \in Seq(Pieces), NEW m \in 1 .. Len(o)
    PROVE  /\ SubSeq(o, 1, m) \in Seq(Pieces) /\ SubSeq(o, m + 1, Len(o)) \in Seq(Pieces)
           /\ (b \o SubSeq(o, 1, m)) \o SubSeq(o, m + 1, Len(o)) = b \o o
<1>1. Len(o) \in Nat /\ m \in Nat /\ m <= Len(o) /\ \A i \in 1 .. Len(o) : o[i] \in Pieces
  BY LenProperties, ElementOfSeq
<1>2. SubSeq(o, 1, m) \in Seq(Pieces) /\ SubSeq(o, m + 1, Len(o)) \in Seq(Pieces)
  <2>1. \A i \in 1 .. m : o[i] \in Pieces
    BY <1>1
  <2>2. \A i \in m + 1 .. Len(o) : o[i] \in Pieces
    BY <1>1
  <2> QED
    BY <1>1, <2>1, <2>2, SubSeqProperties
<1>3. SubSeq(o, 1, m) \o SubSeq(o, m + 1, Len(o)) = o
  <2>1. 1 \in 1 .. Len(o) + 1 /\ m \in 1 - 1 .. Len(o) /\ Len(o) \in m .. Len(o)
    BY <1>1
  <2>2. SubSeq(o, 1, m) \o SubSeq(o, m + 1, Len(o)) = SubSeq(o, 1, Len(o))
    BY <2>1, ConcatAdjacentSubSeq
  <2>3. SubSeq(o, 1, Len(o)) = o
    BY SubSeqFull
  <2> QED
    BY <2>2, <2>3
<1> DEFINE left == SubSeq(o, 1, m)
           right == SubSeq(o, m + 1, Len(o))
<1> HIDE DEF left, right
<1>4. left \in Seq(Pieces) /\ right \in Seq(Pieces) /\ left \o right = o
  BY <1>2, <1>3 DEF left, right
<1>5. (b \o left) \o right = b \o (left \o right)
  BY <1>4, Associative
<1>6. (b \o left) \o right = b \o o
  BY <1>4, <1>5
<1> QED
  BY <1>4, <1>6 DEF left, right

(* Noise that comes in between can only cut off digits.                    *)
LEMMA InsertNoise ==
    ASSUME NEW t, NEW u, NEW n \in Nat, NEW m \in Nat \ {0}, NEW l \in Nat, n <= l,
           Len(t) = l, Len(u) = l + m,
           \A i \in 1 .. n : u[i] = t[i],
           \A i \in n + 1 .. n + m : u[i][1] = "noise",
           \A i \in n + m + 1 .. l + m : u[i] = t[i - m],
           NEW rn, NEW md, StreamOK(t, rn, md)
    PROVE  StreamOK(u, rn, md)
<1> DEFINE Good(k) ==
             /\ u[k][2] \in DOMAIN rn
             /\ md = "shell" =>
                  \A d \in 1 .. (l + m) - k :
                     (\A j \in 1 .. d : u[k + j][1] = "digit") =>
                         d <= Len(rn[u[k][2]]) /\ u[k + d][2] = rn[u[k][2]][d]
<1>0. (\A k \in 1 .. l + m : u[k][1] = "step" => Good(k)) <=> StreamOK(u, rn, md)
  BY DEF StreamOK
<1> SUFFICES ASSUME NEW k \in 1 .. l + m, u[k][1] = "step"
             PROVE  Good(k)
  BY <1>0
<1>1. ASSUME NEW i \in 1 .. l, t[i][1] = "step"
      PROVE  /\ t[i][2] \in DOMAIN rn
             /\ md = "shell" =>
                  \A d \in 1 .. l - i :
                     (\A j \in 1 .. d : t[i + j][1] = "digit") =>
                         d <= Len(rn[t[i][2]]) /\ t[i + d][2] = rn[t[i][2]][d]
  BY <1>1 DEF StreamOK
<1>2. CASE k <= n
  <2>1. k \in 1 .. l /\ u[k] = t[k]
    BY <1>2
  <2>2. ASSUME md = "shell", NEW d \in 1 .. (l + m) - k,
               \A j \in 1 .. d : u[k + j][1] = "digit"
        PROVE  d <= Len(rn[u[k][2]]) /\ u[k + d][2] = rn[u[k][2]][d]
    <3>1. k + d <= n
      <4>1. SUFFICES ASSUME k + d > n PROVE FALSE
        OBVIOUS
      <4>2. n + 1 - k \in 1 .. d /\ k + (n + 1 - k) = n + 1 /\ n + 1 \in n + 1 .. n + m
        BY <1>2, <4>1
      <4>3. u[k + (n + 1 - k)][1] = "digit"
        BY <2>2, <4>2
      <4> QED
        BY <4>2, <4>3
    <3>2. d \in 1 .. l - k
      BY <3>1
    <3>3. ASSUME NEW j \in 1 .. d PROVE t[k + j] = u[k + j]
      <4>1. k + j \in 1 .. n
        BY <3>1
      <4> QED
        BY <4>1
    <3>4. \A j \in 1 .. d : t[k + j][1] = "digit"
      BY <2>2, <3>3
    <3>5. d <= Len(rn[t[k][2]]) /\ t[k + d][2] = rn[t[k][2]][d]
      BY <1>1, <2>1, <2>2, <3>2, <3>4
    <3>6. t[k + d] = u[k + d]
      BY <3>3
    <3> QED
      BY <2>1, <3>5, <3>6
  <2> QED
    BY <1>1, <2>1, <2>2
<1>3. CASE k > n + m
  <2> DEFINE i == k - m
  <2>1. i \in 1 .. l /\ u[k] = t[i]
    BY <1>3
  <2>2. ASSUME md = "shell", NEW d \in 1 .. (l + m) - k,
               \A j \in 1 .. d : u[k + j][1] = "digit"
        PROVE  d <= Len(rn[u[k][2]]) /\ u[k + d][2] = rn[u[k][2]][d]
    <3>1. d \in 1 .. l - i
      OBVIOUS
    <3>2. ASSUME NEW j \in 1 .. d PROVE t[i + j] = u[k + j]
      <4>1. k + j \in n + m + 1 .. l + m /\ (k + j) - m = i + j
        BY <1>3
      <4> QED
        BY <4>1
    <3>3. \A j \in 1 .. d : t[i + j][1] = "digit"
      BY <2>2, <3>2
    <3> HIDE DEF i
    <3>4. d <= Len(rn[t[i][2]]) /\ t[i + d][2] = rn[t[i][2]][d]
      BY <1>1, <2>1, <2>2, <3>1, <3>3
    <3> QED
      BY <2>1, <3>2, <3>4
  <2> HIDE DEF i
  <2> QED
    BY <1>1, <2>1, <2>2
<1> QED
  BY <1>2, <1>3

(* A read of stderr puts noise between buffer and stdout.                  *)
LEMMA ReadStderr ==
    ASSUME NEW b \in Seq(Pieces), NEW o \in Seq(Pieces), NEW e \in Seq({Noise}), e # <<>>,
           NEW rn, NEW md, StreamOK(b \o o, rn, md)
    PROVE  b \o e \in Seq(Pieces) /\ StreamOK((b \o e) \o o, rn, md)
<1> DEFINE t == b \o o
           v == b \o e
           u == v \o o
           n == Len(b)
           m == Len(e)
<1>1. e \in Seq(Pieces) /\ \A i \in 1 .. m : e[i] = Noise
  <2>1. Noise \in Pieces
    BY DEF Noise, Pieces
  <2>2. \A i \in 1 .. Len(e) : e[i] \in {Noise}
    BY ElementOfSeq
  <2>3. \A i \in 1 .. Len(e) : e[i] \in Pieces
    BY <2>1, <2>2
  <2> QED
    BY <2>2, <2>3, LenProperties
<1>2. /\ n \in Nat /\ m \in Nat \ {0} /\ Len(o) \in Nat
      /\ v \in Seq(Pieces) /\ Len(v) = n + m
      /\ Len(t) = n + Len(o) /\ Len(u) = n + m + Len(o)
  BY <1>1, LenProperties, ConcatProperties, EmptySeq
<1>3. \A i \in 1 .. n + m : v[i] = IF i <= n THEN b[i] ELSE e[i - n]
  BY <1>1, ConcatProperties
<1>4. \A i \in 1 .. n + Len(o) : t[i] = IF i <= n THEN b[i] ELSE o[i - n]
  BY ConcatProperties
<1>5. \A i \in 1 .. n + m + Len(o) :
         u[i] = IF i <= n + m THEN v[i] ELSE o[i - (n + m)]
  <2> HIDE DEF v
  <2>1. \A i \in 1 .. Len(v) + Len(o) :
           u[i] = IF i <= Len(v) THEN v[i] ELSE o[i - Len(v)]
    BY <1>2, ConcatProperties
  <2> QED
    BY <1>2, <2>1
<1> HIDE DEF t, u, v, n, m
<1>6. ASSUME NEW i \in 1 .. n PROVE u[i] = t[i]
  <2>1. i \in 1 .. n + m /\ i \in 1 .. n + Len(o) /\ i \in 1 .. n + m + Len(o)
    BY <1>2
  <2>2. u[i] = v[i]
    BY <1>5, <2>1
  <2> QED
    BY <1>3, <1>4, <2>1, <2>2
<1>7. ASSUME NEW i \in n + 1 .. n + m PROVE u[i][1] = "noise"
  <2>1. i - n \in 1 .. m
    BY <1>2
  <2>2. i \in 1 .. n + m /\ i \in 1 .. n + m + Len(o) /\ i > n
    BY <1>2
  <2>3. u[i] = v[i]
    BY <1>5, <2>2
  <2>4. u[i] = e[i - n]
    BY <1>2, <1>3, <2>2, <2>3
  <2> QED
    BY <1>1, <2>1, <2>4 DEF Noise
<1>8. ASSUME NEW i \in n + m + 1 .. (n + Len(o)) + m PROVE u[i] = t[i - m]
  <2>1. i - m \in 1 .. n + Len(o) /\ i - m > n /\ (i - m) - n = i - (n + m)
    BY <1>2
  <2> QED
    BY <1>2, <1>4, <1>5, <2>1
<1>9. StreamOK(t, rn, md)
  BY DEF t
<1>10. n + Len(o) \in Nat /\ n <= n + Len(o) /\ Len(u) = (n + Len(o)) + m
  BY <1>2
<1>11. StreamOK(u, rn, md)
  BY <1>2, <1>6, <1>7, <1>8, <1>9, <1>10, InsertNoise
<1> QED
  BY <1>2, <1>11 DEF u, v

(* What a process prints after a step.                                     *)
MarkerText(n, status, md) ==
    IF md = "shell" THEN <<Token(n)>> \o Digits(status) ELSE <<Token(n)>>

(* It is a marker, followed in shell mode by the digits of the status.     *)
LEMMA MarkerTextElements ==
    ASSUME NEW n \in Nat, NEW status \in Seq(0 .. 9), NEW md
    PROVE  /\ MarkerText(n, status, md) \in Seq(Pieces)
           /\ Len(MarkerText(n, status, md)) = 1 + IF md = "shell" THEN Len(status) ELSE 0
           /\ MarkerText(n, status, md)[1] = Token(n)
           /\ \A j \in 1 .. Len(MarkerText(n, status, md)) - 1 :
                 MarkerText(n, status, md)[1 + j] = Digits(status)[j]
<1>1. /\ Len(status) \in Nat /\ DOMAIN status = 1 .. Len(status)
      /\ \A j \in 1 .. Len(status) : status[j] \in 0 .. 9
  BY LenProperties, ElementOfSeq
<1>2. Token(n) \in Pieces /\ \A j \in 1 .. Len(status) : <<"digit", status[j]>> \in Pieces
  BY <1>1 DEF Token, Pieces
<1>3. /\ Digits(status) \in Seq(Pieces) /\ Len(Digits(status)) = Len(status)
      /\ \A j \in 1 .. Len(status) : Digits(status)[j] = <<"digit", status[j]>>
  BY <1>1, <1>2 DEF Digits
<1> DEFINE head == <<Token(n)>>
<1>4. head \in Seq(Pieces) /\ Len(head) = 1 /\ head[1] = Token(n)
  BY <1>2
<1> HIDE DEF head
<1> DEFINE dg == Digits(status)
<1>5. dg \in Seq(Pieces) /\ Len(dg) = Len(status)
  BY <1>3
<1> HIDE DEF dg
<1> DEFINE x == head \o dg
<1>6. /\ x \in Seq(Pieces) /\ Len(x) = Len(head) + Len(dg)
      /\ \A i \in 1 .. Len(head) + Len(dg) :
            x[i] = IF i <= Len(head) THEN head[i] ELSE dg[i - Len(head)]
  BY <1>4, <1>5, ConcatProperties
<1> HIDE DEF x
<1>7. /\ Len(x) = 1 + Len(status) /\ x[1] = Token(n)
      /\ \A j \in 1 .. Len(status) : x[1 + j] = dg[j]
  BY <1>1, <1>4, <1>5, <1>6
<1>8. MarkerText(n, status, md) = IF md = "shell" THEN x ELSE head
  BY DEF MarkerText, x, head, dg
<1> DEFINE text == MarkerText(n, status, md)
<1>9. CASE md = "shell"
  <2>1. text = x
    BY <1>8, <1>9
  <2>2. \A j \in 1 .. Len(status) : text[1 + j] = dg[j]
    BY <1>7, <2>1
  <2>3. Len(text) - 1 = Len(status) /\ text \in Seq(Pieces) /\ text[1] = Token(n)
    BY <1>1, <1>6, <1>7, <2>1
  <2> HIDE DEF text
  <2> QED
    BY <1>1, <1>7, <1>9, <2>1, <2>2, <2>3 DEF text, dg
<1>10. CASE md # "shell"
  <2>1. text = head
    BY <1>8, <1>10
  <2> HIDE DEF text
  <2>2. Len(text) = 1 /\ text \in Seq(Pieces) /\ text[1] = Token(n)
    BY <1>4, <2>1
  <2>3. \A j \in 1 .. Len(text) - 1 : FALSE
    BY <2>2
  <2> QED
    BY <1>10, <2>2, <2>3 DEF text
<1> QED
  BY <1>9, <1>10

(* Another step has run: what the text says of the others stays true.      *)
RanAfter(rn, n, status) == [k \in DOMAIN rn \cup {n} |-> IF k = n THEN status ELSE rn[k]]

(* A text without the step's marker says as much after the step as before. *)
LEMMA OthersRan ==
    ASSUME NEW t, NEW rn, NEW md, StreamOK(t, rn, md), NEW n, n \notin DOMAIN rn, NEW status
    PROVE  StreamOK(t, RanAfter(rn, n, status), md)
BY DEF StreamOK, RanAfter

(* A step's marker and status, printed behind whatever is there.           *)
LEMMA AppendMarker ==
    ASSUME NEW t \in Seq(Pieces), NEW rn, NEW md, StreamOK(t, rn, md),
           NEW n \in Nat, n \notin DOMAIN rn, NEW status \in Seq(0 .. 9)
    PROVE  StreamOK(t \o MarkerText(n, status, md), RanAfter(rn, n, status), md)
<1> DEFINE l == Len(t)
           text == MarkerText(n, status, md)
           q == Len(text) - 1
           after == RanAfter(rn, n, status)
<1>1. /\ text \in Seq(Pieces) /\ q \in Nat /\ Len(text) = 1 + q /\ text[1] = Token(n)
      /\ \A j \in 1 .. q : text[1 + j] = <<"digit", status[j]>>
      /\ md = "shell" => q = Len(status)
      /\ l \in Nat
  <2>1. l \in Nat /\ Len(status) \in Nat
    BY LenProperties
  <2>2. /\ text \in Seq(Pieces) /\ text[1] = Token(n)
        /\ Len(text) = 1 + IF md = "shell" THEN Len(status) ELSE 0
    BY MarkerTextElements
  <2>4. \A j \in 1 .. q : text[1 + j] = Digits(status)[j]
    BY MarkerTextElements
  <2> HIDE DEF text
  <2>3. q \in Nat /\ Len(text) = 1 + q /\ (md = "shell" => q = Len(status))
    BY <2>1, <2>2
  <2>5. md # "shell" => q = 0
    BY <2>2
  <2>6. \A j \in DOMAIN status : Digits(status)[j] = <<"digit", status[j]>>
    BY DEF Digits
  <2>7. DOMAIN status = 1 .. Len(status)
    BY LenProperties
  <2> HIDE DEF q
  <2>8. q = Len(status) \/ q = 0
    BY <2>3, <2>5
  <2>9. \A j \in 1 .. q : j \in DOMAIN status
    BY <2>1, <2>7, <2>8
  <2> QED
    BY <2>1, <2>2, <2>3, <2>4, <2>6, <2>9
<1> HIDE DEF text, q
<1> DEFINE u == t \o text
<1>2. /\ Len(u) = l + Len(text)
      /\ \A i \in 1 .. l + Len(text) : u[i] = IF i <= l THEN t[i] ELSE text[i - l]
  BY <1>1, ConcatProperties
<1> HIDE DEF l, u, after
<1>3. /\ Len(u) = l + 1 + q
      /\ \A i \in 1 .. l : u[i] = t[i]
      /\ u[l + 1] = <<"step", n>>
      /\ \A j \in 1 .. q : u[(l + 1) + j] = <<"digit", status[j]>>
  <2>1. \A i \in 1 .. l : u[i] = t[i]
    BY <1>1, <1>2
  <2>2. u[l + 1] = text[1]
    BY <1>1, <1>2
  <2>3. ASSUME NEW j \in 1 .. q PROVE u[(l + 1) + j] = text[1 + j]
    <3>1. (l + 1) + j \in 1 .. l + Len(text) /\ ~((l + 1) + j <= l)
             /\ ((l + 1) + j) - l = 1 + j
      BY <1>1
    <3> QED
      BY <1>2, <3>1
  <2> QED
    BY <1>1, <1>2, <2>1, <2>2, <2>3 DEF Token
<1>4. /\ n \in DOMAIN after /\ after[n] = status
      /\ \A k \in DOMAIN rn : k \in DOMAIN after /\ after[k] = rn[k]
  BY DEF after, RanAfter
<1> DEFINE Good(k) ==
             /\ u[k][2] \in DOMAIN after
             /\ md = "shell" =>
                  \A d \in 1 .. (l + 1 + q) - k :
                     (\A j \in 1 .. d : u[k + j][1] = "digit") =>
                         d <= Len(after[u[k][2]]) /\ u[k + d][2] = after[u[k][2]][d]
<1>0. (\A k \in 1 .. l + 1 + q : u[k][1] = "step" => Good(k)) <=> StreamOK(u, after, md)
  BY <1>3 DEF StreamOK
<1>5. ASSUME NEW k \in 1 .. l + 1 + q, u[k][1] = "step" PROVE Good(k)
  <2>1. CASE k <= l
    <3>1. k \in 1 .. l /\ u[k] = t[k] /\ t[k][1] = "step"
      BY <1>1, <1>3, <1>5, <2>1
    <3>2. /\ t[k][2] \in DOMAIN rn
          /\ md = "shell" =>
               \A d \in 1 .. l - k :
                  (\A j \in 1 .. d : t[k + j][1] = "digit") =>
                      d <= Len(rn[t[k][2]]) /\ t[k + d][2] = rn[t[k][2]][d]
      BY <3>1 DEF StreamOK, l
    <3>3. ASSUME md = "shell", NEW d \in 1 .. (l + 1 + q) - k,
                 \A j \in 1 .. d : u[k + j][1] = "digit"
          PROVE  d <= Len(after[u[k][2]]) /\ u[k + d][2] = after[u[k][2]][d]
      <4>1. k + d <= l
        <5>1. SUFFICES ASSUME k + d > l PROVE FALSE
          BY <1>1
        <5>2. l + 1 - k \in 1 .. d /\ k + (l + 1 - k) = l + 1
          BY <1>1, <2>1, <5>1
        <5>3. u[l + 1][1] = "digit"
          BY <3>3, <5>2
        <5> QED
          BY <1>3, <5>3
      <4>2. d \in 1 .. l - k /\ \A j \in 1 .. d : k + j \in 1 .. l
        BY <1>1, <4>1
      <4>3. \A j \in 1 .. d : t[k + j] = u[k + j]
        BY <1>3, <4>2
      <4>4. d <= Len(rn[t[k][2]]) /\ t[k + d][2] = rn[t[k][2]][d]
        BY <3>2, <3>3, <4>2, <4>3
      <4>5. t[k + d] = u[k + d]
        BY <4>3
      <4> QED
        BY <1>4, <3>1, <3>2, <4>4, <4>5
    <3> QED
      BY <1>4, <3>1, <3>2, <3>3
  <2>2. CASE k = l + 1
    <3>1. ASSUME md = "shell", NEW d \in 1 .. (l + 1 + q) - k
          PROVE  d <= Len(after[u[k][2]]) /\ u[k + d][2] = after[u[k][2]][d]
      <4>1. d \in 1 .. q
        BY <1>1, <2>2
      <4> QED
        BY <1>1, <1>3, <1>4, <2>2, <3>1, <4>1
    <3> QED
      BY <1>3, <1>4, <2>2, <3>1
  <2>3. CASE k > l + 1
    <3>1. k - (l + 1) \in 1 .. q /\ (l + 1) + (k - (l + 1)) = k
      BY <1>1, <2>3
    <3>2. u[k][1] = "digit"
      BY <1>3, <3>1
    <3> QED
      BY <1>5, <3>2
  <2> HIDE DEF Good
  <2> QED
    BY <1>1, <2>1, <2>2, <2>3
<1> QED
  BY <1>0, <1>5 DEF u, text, after

-----------------------------------------------------------------------------
(* What consume makes of a buffer.                                         *)

(* What has been read of a stream is as good as the stream.                *)
LEMMA StreamPrefix ==
    ASSUME NEW b \in Seq(Pieces), NEW o \in Seq(Pieces), NEW rn, NEW md,
           StreamOK(b \o o, rn, md)
    PROVE  StreamOK(b, rn, md)
<1> DEFINE l == Len(b)
           u == b \o o
<1>1. /\ Len(u) = l + Len(o) /\ \A i \in 1 .. l + Len(o) : u[i] = IF i <= l THEN b[i] ELSE o[i - l]
  BY ConcatProperties
<1>2. l \in Nat /\ Len(o) \in Nat
  BY LenProperties
<1>3. StreamOK(u, rn, md)
  OBVIOUS
<1> HIDE DEF l, u
<1>4. \A i \in 1 .. l : i \in 1 .. Len(u) /\ u[i] = b[i]
  BY <1>1, <1>2
<1> SUFFICES ASSUME NEW k \in 1 .. l, b[k][1] = "step"
             PROVE  /\ b[k][2] \in DOMAIN rn
                    /\ md = "shell" =>
                         \A d \in 1 .. l - k :
                            (\A j \in 1 .. d : b[k + j][1] = "digit") =>
                                d <= Len(rn[b[k][2]]) /\ b[k + d][2] = rn[b[k][2]][d]
  BY DEF StreamOK, l
<1>5. /\ b[k][2] \in DOMAIN rn
      /\ md = "shell" =>
           \A d \in 1 .. Len(u) - k :
              (\A j \in 1 .. d : u[k + j][1] = "digit") =>
                  d <= Len(rn[b[k][2]]) /\ u[k + d][2] = rn[b[k][2]][d]
  <2>1. k \in 1 .. Len(u) /\ u[k] = b[k] /\ u[k][1] = "step"
    BY <1>4
  <2>2. /\ u[k][2] \in DOMAIN rn
        /\ md = "shell" =>
             \A d \in 1 .. Len(u) - k :
                (\A j \in 1 .. d : u[k + j][1] = "digit") =>
                    d <= Len(rn[u[k][2]]) /\ u[k + d][2] = rn[u[k][2]][d]
    BY <1>3, <2>1 DEF StreamOK
  <2> QED
    BY <2>1, <2>2
<1>6. ASSUME md = "shell", NEW d \in 1 .. l - k, \A j \in 1 .. d : b[k + j][1] = "digit"
      PROVE  d <= Len(rn[b[k][2]]) /\ b[k + d][2] = rn[b[k][2]][d]
  <2>1. d \in 1 .. Len(u) - k /\ d \in 1 .. d /\ \A j \in 1 .. d : k + j \in 1 .. l
    BY <1>1, <1>2
  <2>2. \A j \in 1 .. d : u[k + j] = b[k + j]
    BY <1>4, <2>1
  <2>3. d <= Len(rn[b[k][2]]) /\ u[k + d][2] = rn[b[k][2]][d]
    BY <1>5, <1>6, <2>1, <2>2
  <2>4. u[k + d] = b[k + d]
    BY <2>1, <2>2
  <2> QED
    BY <2>3, <2>4
<1> QED
  BY <1>5, <1>6

(* A nonempty set of naturals with a bound has a greatest member.          *)
LEMMA HasGreatest ==
    ASSUME NEW S \in SUBSET Nat, S # {}, NEW n \in Nat, \A x \in S : x <= n
    PROVE  \E m \in S : \A k \in S : k <= m
<1> DEFINE Bounds == {m \in Nat : \A x \in S : x <= m}
<1>1. PICK m \in Bounds : \A k \in Bounds : <<k, m>> \notin OpToRel(<, Nat)
  <2>1. n \in Bounds /\ Bounds \subseteq Nat
    OBVIOUS
  <2> HIDE DEF Bounds
  <2> QED
    BY <2>1, NatLessThanWellFounded, WFMin
<1>2. \A k \in Bounds : ~(k < m)
  BY <1>1 DEF OpToRel
<1>3. m \in S
  <2>1. SUFFICES ASSUME m \notin S PROVE FALSE
    OBVIOUS
  <2>2. \A x \in S : x \in Nat /\ x < m
    BY <2>1
  <2>3. m - 1 \in Nat /\ m - 1 < m
    <3>1. PICK x \in S : TRUE
      OBVIOUS
    <3> QED
      BY <2>2, <3>1
  <2>4. m - 1 \in Bounds
    BY <2>2, <2>3
  <2> QED
    BY <1>2, <2>3, <2>4
<1> QED
  BY <1>3

(* A marker is only ever that of a step that has run.                      *)
LEMMA PrintedHasRun ==
    ASSUME NEW b \in Seq(Pieces), NEW rn, NEW md, StreamOK(b, rn, md), NEW n, Printed(b, n)
    PROVE  n \in DOMAIN rn
BY DEF Printed, Contains, Token, StreamOK

(* The digits behind it are not the whole status, if a read ended or noise *)
(* came in between; but they are zero just if the status is.               *)
LEMMA StatusIsZero ==
    ASSUME NEW b \in Seq(Pieces), NEW rn, StreamOK(b, rn, "shell"), NEW n, Printed(b, n),
           \A k \in DOMAIN rn : rn[k] \in Statuses,
           MarkerStatus(b, n) # NoStatus
    PROVE  /\ MarkerStatus(b, n) \in Seq(Nat)
           /\ MarkerStatus(b, n) = Zero <=> rn[n] = Zero
<1> DEFINE at == CHOOSE k \in DOMAIN b : b[k] = Token(n)
           run == {m \in at .. Len(b) : \A k \in at + 1 .. m : b[k][1] = "digit"}
           end == CHOOSE m \in run : \A k \in run : k <= m
           st == MarkerStatus(b, n)
<1>1. Len(b) \in Nat /\ DOMAIN b = 1 .. Len(b)
  BY LenProperties
<1>2. at \in 1 .. Len(b) /\ b[at] = <<"step", n>>
  <2>1. \E k \in DOMAIN b : b[k] = Token(n)
    BY <1>1 DEF Printed, Contains
  <2> QED
    BY <1>1, <2>1 DEF Token
<1> HIDE DEF at
<1>3. end \in run
  <2>1. at \in run /\ run \in SUBSET Nat /\ \A x \in run : x <= Len(b)
    BY <1>1, <1>2
  <2> HIDE DEF run
  <2>2. \E m \in run : \A k \in run : k <= m
    BY <1>1, <2>1, HasGreatest
  <2> QED
    BY <2>2
<1> DEFINE e == end - at
<1>4. st = [k \in 1 .. e |-> b[at + k][2]]
  BY DEF MarkerStatus, at
<1>5. end \in at .. Len(b) /\ \A k \in at + 1 .. end : b[k][1] = "digit"
  BY <1>3
<1> HIDE DEF end, st
<1>6. /\ e \in Nat /\ at + e = end /\ e <= Len(b) - at
      /\ \A j \in 1 .. e : b[at + j][1] = "digit"
  <2>1. e \in Nat /\ at + e = end /\ e <= Len(b) - at
    BY <1>1, <1>2, <1>5
  <2>2. \A j \in 1 .. e : at + j \in at + 1 .. end
    BY <1>2, <1>5
  <2> QED
    BY <1>5, <2>1, <2>2
<1> HIDE DEF e
<1>7. n \in DOMAIN rn /\ rn[n] \in Statuses
  BY PrintedHasRun
<1>8. \A d \in 1 .. e : d <= Len(rn[n]) /\ st[d] = rn[n][d]
  <2> SUFFICES ASSUME NEW d \in 1 .. e PROVE d <= Len(rn[n]) /\ st[d] = rn[n][d]
    OBVIOUS
  <2>1. d \in 1 .. Len(b) - at /\ \A j \in 1 .. d : b[at + j][1] = "digit"
    BY <1>1, <1>2, <1>6
  <2>2. b[at][1] = "step" /\ b[at][2] = n
    BY <1>2
  <2>3. d <= Len(rn[n]) /\ b[at + d][2] = rn[n][d]
    BY <1>2, <2>1, <2>2 DEF StreamOK
  <2> QED
    BY <1>4, <2>3
<1>9. e # 0
  <2> SUFFICES ASSUME e = 0 PROVE st = <<>>
    BY DEF NoStatus, st
  <2> QED
    BY <1>4
<1>10. /\ rn[n] \in Seq(0 .. 9) /\ Len(rn[n]) \in Nat
       /\ rn[n][1] = 0 => rn[n] = <<0>>
  BY <1>7, StatusesAssumption, LenProperties
<1>11. ASSUME st = Zero PROVE rn[n] = Zero
  <2>1. st[1] = 0
    BY <1>11 DEF Zero
  <2> QED
    BY <1>6, <1>8, <1>9, <1>10, <2>1 DEF Zero
<1>12. ASSUME rn[n] = Zero PROVE st = Zero
  <2>1. Len(rn[n]) = 1 /\ rn[n][1] = 0
    BY <1>12 DEF Zero
  <2>2. e = 1
    BY <1>6, <1>8, <1>9, <2>1
  <2>3. b[at + 1][2] = 0
    BY <1>4, <1>8, <2>1, <2>2
  <2>4. st = [k \in 1 .. 1 |-> 0]
    BY <1>4, <2>2, <2>3
  <2> QED
    BY <2>4 DEF Zero
<1>13. st \in Seq(Nat)
  <2>1. \A k \in 1 .. e : at + k \in 1 .. Len(b)
    BY <1>1, <1>2, <1>6
  <2>2. \A k \in 1 .. e : b[at + k][2] \in Nat
    BY <2>1, ElementOfSeq DEF Pieces
  <2> QED
    BY <1>4, <1>6, <2>2
<1> QED
  BY <1>11, <1>12, <1>13 DEF st

-----------------------------------------------------------------------------
(* The inductive invariant.                                                *)

Places == {"next", "write", "await", "close", "quit", "reap", "end"}
Statements == UNION {[D -> Seq(Nat)] : D \in SUBSET Nat}
SessionSet ==
    [started : BOOLEAN, buffer : Seq(Pieces), waiters : SUBSET Nat, done : Statements,
     pending : Seq(Nat), failed : BOOLEAN]
ProcessSet ==
    [alive : BOOLEAN, running : Nat, stdin : Seq(Nat), eof : BOOLEAN, stdout : Seq(Pieces),
     stderr : Seq({Noise}), child : BOOLEAN, noise : Nat]

Types ==
    /\ lesson \in Lessons /\ mode \in {"shell", "tool"}
    /\ main \in [at : Places, step : 0 .. Len(lesson), ok : BOOLEAN, open : Seq(Sessions)]
    /\ session \in [Sessions -> SessionSet] /\ repl \in [Sessions -> ProcessSet]
    /\ \A n \in DOMAIN ran : ran[n] \in Statuses

(* A step can run only after it was written, once, in the order of the     *)
(* steps of its session.                                                   *)
Sent(mn) == IF mn.at = "write" THEN mn.step - 1 ELSE mn.step
RanOK == DOMAIN ran \subseteq 1 .. Sent(main)
ToRun(n, s, sent, rn) == n \in 1 .. sent /\ lesson[n].session = s /\ n \notin DOMAIN rn
QueueOK(p, s, sent, rn) ==
    /\ \A i \in 1 .. Len(p.stdin) :
          ToRun(p.stdin[i], s, sent, rn) /\ p.running < p.stdin[i]
    /\ \A i, j \in 1 .. Len(p.stdin) : i < j => p.stdin[i] < p.stdin[j]
    /\ p.running # 0 => ToRun(p.running, s, sent, rn)

(* A status that was handed over is that of the step, as far as zero goes; *)
(* one that is not zero has marked the session.                            *)
Agrees(status, n, rn, md) ==
    IF md = "shell" THEN status # NoStatus /\ (status = Zero <=> rn[n] = Zero)
                    ELSE status = NoStatus
DoneOK(c, rn, md) ==
    \A n \in DOMAIN c.done :
        n \in DOMAIN rn /\ Agrees(c.done[n], n, rn, md) /\ (Fails(c.done[n]) => c.failed)

WaitersOK(c, s, step) ==
    /\ c.waiters \cap DOMAIN c.done = {}
    /\ \A n \in c.waiters \cup ToSet(c.pending) : n \in 1 .. step /\ lesson[n].session = s
    /\ \A n \in ToSet(c.pending) : lesson[n].blocks

(* Where main is, and which sessions it still has to close.                *)
ControlOK(mn) ==
    /\ mn.at \in {"write", "await"} =>
         mn.step > 0 /\ mn.ok /\ lesson[mn.step].session \in ToSet(mn.open)
    /\ mn.at \in {"quit", "reap"} => mn.open # << >>
    /\ mn.at \in {"close", "quit", "reap", "end"} /\ mn.ok => mn.step = Len(lesson)
    /\ mn.at = "end" => mn.open = << >>
OpenOK(mn, ss) ==
    /\ \A s \in ToSet(mn.open) : ss[s].started
    /\ mn.at \in {"next", "write", "await"} =>
         \A s \in Sessions : ss[s].started => s \in ToSet(mn.open)
    /\ mn.at \in {"quit", "reap"} =>
         ss[mn.open[1]].pending = << >> \/ ss[mn.open[1]].failed

(* While the lesson may still pass, every step behind main has run with    *)
(* status zero, or its session is open and will look at it or fail.        *)
Settled(mn) == IF mn.at \in {"write", "await"} THEN mn.step - 1 ELSE mn.step
RanWell(n, rn, md) == n \in DOMAIN rn /\ (md = "shell" => rn[n] = Zero)
Owed(n, mn, ss) ==
    LET s == lesson[n].session IN
    s \in ToSet(mn.open) /\ (n \in ToSet(ss[s].pending) \/ ss[s].failed)
PassOK(mn, ss, rn, md) ==
    mn.ok => \A n \in 1 .. Settled(mn) : RanWell(n, rn, md) \/ Owed(n, mn, ss)

(* Nothing fails without a cause.                                          *)
Cause(cs, rn, md) == cs # {} \/ (md = "shell" /\ \E n \in DOMAIN rn : rn[n] # Zero)
CauseOK(mn, ss, cs, rn, md) ==
    ~mn.ok \/ (\E s \in Sessions : ss[s].failed) => Cause(cs, rn, md)

Inv ==
    /\ Types /\ RanOK
    /\ \A s \in Sessions : StreamOK(session[s].buffer \o repl[s].stdout, ran, mode)
    /\ \A s \in Sessions : QueueOK(repl[s], s, Sent(main), ran)
    /\ \A s \in Sessions : DoneOK(session[s], ran, mode)
    /\ \A s \in Sessions : WaitersOK(session[s], s, main.step)
    /\ ControlOK(main) /\ OpenOK(main, session)
    /\ PassOK(main, session, ran, mode)
    /\ CauseOK(main, session, causes, ran, mode)

(* The elements of a sequence that grows at its end or shrinks at its head. *)
LEMMA ElementsAppend ==
    ASSUME NEW S, NEW q \in Seq(S), NEW e \in S
    PROVE  ToSet(Append(q, e)) = ToSet(q) \cup {e}
<1>1. /\ Len(q) \in Nat /\ DOMAIN q = 1 .. Len(q)
      /\ DOMAIN Append(q, e) = 1 .. Len(q) + 1
      /\ Append(q, e)[Len(q) + 1] = e /\ \A i \in 1 .. Len(q) : Append(q, e)[i] = q[i]
  BY LenProperties, AppendProperties
<1> QED
  BY <1>1 DEF ToSet

(* ... and of one that loses its head.                                     *)
LEMMA ElementsTail ==
    ASSUME NEW S, NEW q \in Seq(S), q # << >>
    PROVE  /\ q[1] \in S /\ Head(q) = q[1] /\ Tail(q) \in Seq(S)
           /\ Len(q) \in Nat \ {0} /\ Len(Tail(q)) = Len(q) - 1
           /\ \A i \in 1 .. Len(Tail(q)) : Tail(q)[i] = q[i + 1]
           /\ ToSet(q) = {q[1]} \cup ToSet(Tail(q))
<1>1. /\ Len(q) \in Nat \ {0} /\ DOMAIN q = 1 .. Len(q)
      /\ Tail(q) \in Seq(S) /\ Len(Tail(q)) = Len(q) - 1
      /\ \A i \in 1 .. Len(Tail(q)) : Tail(q)[i] = q[i + 1]
  BY LenProperties, EmptySeq, HeadTailProperties
<1>2. q[1] \in S
  BY <1>1, ElementOfSeq
<1>3. DOMAIN Tail(q) = 1 .. Len(q) - 1
  BY <1>1, LenProperties
<1>4. \A x \in ToSet(q) : x = q[1] \/ x \in ToSet(Tail(q))
  <2> SUFFICES ASSUME NEW i \in 1 .. Len(q), i # 1 PROVE q[i] \in ToSet(Tail(q))
    BY <1>1 DEF ToSet
  <2>1. i - 1 \in 1 .. Len(q) - 1 /\ (i - 1) + 1 = i
    BY <1>1
  <2>2. Tail(q)[i - 1] = q[i]
    BY <1>1, <2>1
  <2> QED
    BY <1>3, <2>1, <2>2 DEF ToSet
<1>5. \A x \in ToSet(Tail(q)) : x \in ToSet(q)
  <2> SUFFICES ASSUME NEW i \in 1 .. Len(q) - 1 PROVE Tail(q)[i] \in ToSet(q)
    BY <1>3 DEF ToSet
  <2>1. i + 1 \in 1 .. Len(q) /\ Tail(q)[i] = q[i + 1]
    BY <1>1
  <2> QED
    BY <1>1, <2>1 DEF ToSet
<1>6. q[1] \in ToSet(q)
  BY <1>1 DEF ToSet
<1>7. Head(q) = q[1]
  BY <1>1
<1> QED
  BY <1>1, <1>2, <1>4, <1>5, <1>6, <1>7

(* Nothing is in the empty sequence.                                       *)
LEMMA NoElements == ToSet(<< >>) = {}
BY DEF ToSet

-----------------------------------------------------------------------------
(* Init, and the steps of the processes.                                   *)

(* A skipped lesson starts nothing and has no next step.                   *)
Skipped ==
    /\ mode = "skip" /\ main = [at |-> "end", step |-> 0, ok |-> TRUE, open |-> << >>]
    /\ lesson \in Lessons
    /\ session = [s \in Sessions |-> NotStarted] /\ repl = [s \in Sessions |-> NoProcess]

(* A lesson is skipped or run.                                             *)
LEMMA InitModes == Init => Skipped \/ mode \in {"shell", "tool"}
<1> SUFFICES ASSUME Init, mode \notin {"shell", "tool"} PROVE Skipped
  OBVIOUS
<1>1. mode = "skip"
  BY DEF Init, ReplFor
<1> QED
  BY <1>1 DEF Init, Skipped

(* It stays skipped.                                                       *)
LEMMA SkippedStays ==
    ASSUME Skipped, [Next]_vars
    PROVE  Skipped'
<1>1. main.at = "end"
  BY DEF Skipped
<1>2. ASSUME NEW s \in Sessions
      PROVE  /\ ~repl[s].alive /\ repl[s].running = 0 /\ ~repl[s].child
             /\ repl[s].stdout = << >> /\ repl[s].stderr = << >>
  BY DEF Skipped, NoProcess, NewProcess
<1>3. ~Main
  BY <1>1 DEF Main, Register, CannotStart, WriteStep, Receive, TimeOut, LastStep, Collect,
     Deadline, Quit, Kill, Reap, Verdict
<1>4. ASSUME NEW s \in Sessions PROVE ~Process(s) /\ ~ChildEnds(s)
  BY <1>2 DEF Process, ReadStep, Complain, Fork, Exit, Finish, ChildEnds
<1>5. ASSUME NEW s \in Sessions PROVE ~Pump(s, "stdout") /\ ~Pump(s, "stderr")
  <2>1. 1 .. Len(<< >>) = {}
    OBVIOUS
  <2> QED
    BY <1>2, <2>1 DEF Pump
<1>6. UNCHANGED vars
  BY <1>3, <1>4, <1>5 DEF Next, Ended
<1> QED
  BY <1>6 DEF vars, Skipped

(* Nothing has been started.                                               *)
LEMMA InitInv == Init /\ mode \in {"shell", "tool"} => Inv
<1> SUFFICES ASSUME Init, mode \in {"shell", "tool"} PROVE Inv
  OBVIOUS
<1>1. /\ main.at = "next" /\ main.step = 0 /\ main.ok = TRUE /\ main.open = << >>
      /\ ran = << >> /\ causes = {}
      /\ main = [at |-> "next", step |-> 0, ok |-> TRUE, open |-> << >>]
  BY DEF Init
<1>2. /\ << >> \in Seq(Pieces) /\ << >> \in Seq(Nat) /\ << >> \in Seq({Noise})
      /\ << >> \in Seq(Sessions) /\ << >> \in Statements /\ DOMAIN << >> = {}
      /\ Len(<< >>) = 0 /\ << >> \o << >> = << >>
  <2>1. << >> \in [{} -> Seq(Nat)] /\ {} \in SUBSET Nat
    OBVIOUS
  <2>2. << >> \in Statements
    BY <2>1 DEF Statements
  <2> QED
    BY <2>2
<1>3. /\ NotStarted \in SessionSet /\ NotStarted.started = FALSE
      /\ NotStarted.buffer = << >> /\ NotStarted.waiters = {} /\ NotStarted.done = << >>
      /\ NotStarted.pending = << >> /\ NotStarted.failed = FALSE
  BY <1>2 DEF NotStarted, NewSession, SessionSet
<1>4. /\ NoProcess \in ProcessSet /\ NoProcess.stdin = << >> /\ NoProcess.running = 0
      /\ NoProcess.stdout = << >>
  BY <1>2 DEF NoProcess, NewProcess, ProcessSet
<1>5. \A s \in Sessions : session[s] = NotStarted /\ repl[s] = NoProcess
  BY DEF Init
<1>6. Len(lesson) \in Nat
  BY LessonsAssumption, LenProperties DEF Init
<1>7. Types
  BY <1>1, <1>2, <1>3, <1>4, <1>6 DEF Types, Init, Places
<1>8. \A s \in Sessions : StreamOK(session[s].buffer \o repl[s].stdout, ran, mode)
  <2>1. \A s \in Sessions : session[s].buffer \o repl[s].stdout = << >>
    BY <1>2, <1>3, <1>4, <1>5
  <2>2. StreamOK(<< >>, ran, mode)
    BY EmptyStream
  <2> QED
    BY <2>1, <2>2
<1>9. \A s \in Sessions : QueueOK(repl[s], s, Sent(main), ran)
  BY <1>2, <1>4, <1>5 DEF QueueOK
<1>10. \A s \in Sessions : DoneOK(session[s], ran, mode) /\ WaitersOK(session[s], s, main.step)
  BY <1>2, <1>3, <1>5, NoElements DEF DoneOK, WaitersOK
<1>11. ControlOK(main) /\ OpenOK(main, session)
  BY <1>1, <1>3, <1>5, NoElements DEF ControlOK, OpenOK
<1>12. PassOK(main, session, ran, mode) /\ CauseOK(main, session, causes, ran, mode)
  BY <1>1, <1>3, <1>5 DEF PassOK, CauseOK, Settled
<1>13. RanOK
  BY <1>1, <1>2 DEF RanOK
<1> QED
  BY <1>7, <1>8, <1>9, <1>10, <1>11, <1>12, <1>13 DEF Inv

(* What a process does to itself other than finishing a step.              *)
LEMMA ProcessStep ==
    ASSUME Inv, NEW s \in Sessions, NEW p \in ProcessSet,
           repl' = [repl EXCEPT ![s] = p], p.stdout = repl[s].stdout,
           QueueOK(p, s, Sent(main), ran),
           UNCHANGED <<lesson, mode, main, session, ran, causes>>
    PROVE  Inv'
<1>1. Types'
  BY DEF Inv, Types
<1>2. \A r \in Sessions : repl'[r].stdout = repl[r].stdout
  BY DEF Inv, Types
<1>3. \A r \in Sessions : QueueOK(repl'[r], r, Sent(main), ran)
  BY DEF Inv, Types
<1>4. \A r \in Sessions : StreamOK(session[r].buffer \o repl'[r].stdout, ran, mode)
  BY <1>2 DEF Inv
<1>5. (\A r \in Sessions : QueueOK(repl[r], r, Sent(main), ran))'
  BY <1>3 DEF QueueOK, ToRun, Sent
<1>6. (\A r \in Sessions : WaitersOK(session[r], r, main.step))'
  BY DEF Inv, WaitersOK
<1>7. (\A r \in Sessions : DoneOK(session[r], ran, mode))'
  BY DEF Inv
<1>8. (ControlOK(main) /\ OpenOK(main, session))'
  BY DEF Inv, ControlOK
<1>9. (PassOK(main, session, ran, mode) /\ CauseOK(main, session, causes, ran, mode))'
  BY DEF Inv, PassOK, Owed
<1>10. RanOK'
  BY DEF Inv, RanOK
<1> QED
  BY <1>1, <1>4, <1>5, <1>6, <1>7, <1>8, <1>9, <1>10 DEF Inv

(* A process that stops reading has less to run.                           *)
LEMMA NotRunning ==
    ASSUME NEW s, NEW sent, NEW rn, NEW p \in ProcessSet, QueueOK(p, s, sent, rn),
           NEW q, q.stdin = p.stdin, q.running = 0
    PROVE  QueueOK(q, s, sent, rn)
<1>1. /\ Len(p.stdin) \in Nat
      /\ \A i \in 1 .. Len(p.stdin) : p.stdin[i] \in Nat /\ p.running < p.stdin[i]
      /\ p.running \in Nat
  BY LenProperties, ElementOfSeq DEF ProcessSet, QueueOK
<1>2. \A i \in 1 .. Len(p.stdin) : 0 < p.stdin[i]
  BY <1>1
<1> QED
  BY <1>2 DEF QueueOK

(* A process takes the next step from its input.                           *)
LEMMA ReadStepInv ==
    ASSUME Inv, NEW s \in Sessions, ReadStep(s)
    PROVE  Inv'
<1> DEFINE p == repl[s]
           q == [p EXCEPT !.running = Head(p.stdin), !.stdin = Tail(@)]
<1>1. p \in ProcessSet /\ QueueOK(p, s, Sent(main), ran) /\ p.stdin # << >> /\ p.stdin \in Seq(Nat)
  BY DEF Inv, Types, ProcessSet, ReadStep
<1>2. repl' = [repl EXCEPT ![s] = q] /\ UNCHANGED <<lesson, mode, main, session, ran, causes>>
  BY DEF ReadStep
<1> HIDE DEF p
<1>3. /\ p.stdin[1] \in Nat /\ Head(p.stdin) = p.stdin[1] /\ Tail(p.stdin) \in Seq(Nat)
      /\ Len(p.stdin) \in Nat \ {0} /\ Len(Tail(p.stdin)) = Len(p.stdin) - 1
      /\ \A i \in 1 .. Len(Tail(p.stdin)) : Tail(p.stdin)[i] = p.stdin[i + 1]
  BY <1>1, ElementsTail
<1>4. /\ q \in ProcessSet /\ q.stdout = p.stdout /\ q.running = p.stdin[1]
      /\ q.stdin = Tail(p.stdin)
  BY <1>1, <1>3 DEF ProcessSet
<1> HIDE DEF q
<1>5. QueueOK(q, s, Sent(main), ran)
  <2>1. /\ \A i \in 1 .. Len(p.stdin) : ToRun(p.stdin[i], s, Sent(main), ran)
        /\ \A i, j \in 1 .. Len(p.stdin) : i < j => p.stdin[i] < p.stdin[j]
    BY <1>1 DEF QueueOK
  <2>2. 1 \in 1 .. Len(p.stdin) /\ \A i \in 1 .. Len(q.stdin) : i + 1 \in 1 .. Len(p.stdin)
    BY <1>3, <1>4
  <2>3. \A i \in 1 .. Len(q.stdin) : ToRun(q.stdin[i], s, Sent(main), ran)
    BY <1>3, <1>4, <2>1, <2>2
  <2>4. ASSUME NEW i \in 1 .. Len(q.stdin) PROVE q.running < q.stdin[i]
    <3>1. 1 < i + 1 /\ q.stdin[i] = p.stdin[i + 1]
      BY <1>3, <1>4
    <3> QED
      BY <1>4, <2>1, <2>2, <3>1
  <2>5. ASSUME NEW i \in 1 .. Len(q.stdin), NEW j \in 1 .. Len(q.stdin), i < j
        PROVE  q.stdin[i] < q.stdin[j]
    <3>1. i + 1 < j + 1 /\ q.stdin[i] = p.stdin[i + 1] /\ q.stdin[j] = p.stdin[j + 1]
      BY <1>3, <1>4, <2>5
    <3> QED
      BY <2>1, <2>2, <3>1
  <2>6. ToRun(q.running, s, Sent(main), ran)
    BY <1>4, <2>1, <2>2
  <2> QED
    BY <2>3, <2>4, <2>5, <2>6 DEF QueueOK
<1> QED
  BY <1>2, <1>4, <1>5, ProcessStep DEF p

(* A REPL that is gone runs nothing more, whatever it leaves behind.       *)
LEMMA GoneInv ==
    ASSUME Inv, NEW s \in Sessions, Gone(s),
           UNCHANGED <<lesson, mode, main, session, ran, causes>>
    PROVE  Inv'
<1> DEFINE p == repl[s]
<1>1. p \in ProcessSet /\ QueueOK(p, s, Sent(main), ran)
  BY DEF Inv, Types
<1>2. PICK b \in BOOLEAN :
         repl' = [repl EXCEPT ![s] = [p EXCEPT !.alive = FALSE, !.running = 0, !.child = b]]
  <2>1. PICK left \in {FALSE, p.running # 0} :
           repl' = [repl EXCEPT ![s].alive = FALSE, ![s].running = 0, ![s].child = @ \/ left]
    BY DEF Gone
  <2> DEFINE b == p.child \/ left
  <2>2. repl' = [repl EXCEPT ![s] = [p EXCEPT !.alive = FALSE, !.running = 0, !.child = b]]
    BY <2>1 DEF Inv, Types
  <2> QED
    BY <2>2
<1> DEFINE q == [p EXCEPT !.alive = FALSE, !.running = 0, !.child = b]
<1>3. q \in ProcessSet /\ q.stdout = p.stdout /\ q.stdin = p.stdin /\ q.running = 0
  BY <1>1, Zenon DEF ProcessSet
<1>4. repl' = [repl EXCEPT ![s] = q]
  BY <1>2
<1> HIDE DEF q
<1>5. QueueOK(q, s, Sent(main), ran)
  BY <1>1, <1>3, NotRunning
<1> QED
  BY <1>3, <1>4, <1>5, ProcessStep

(* Noise, children, and an end at any time.                                *)
LEMMA OtherProcessInv ==
    ASSUME Inv, NEW s \in Sessions, Complain(s) \/ Fork(s) \/ ChildEnds(s) \/ Exit(s)
    PROVE  Inv'
<1> DEFINE p == repl[s]
<1>1. p \in ProcessSet /\ QueueOK(p, s, Sent(main), ran)
  BY DEF Inv, Types
<1>2. CASE Complain(s)
  <2> DEFINE e == Append(p.stderr, Noise)
             k == p.noise + 1
             q == [p EXCEPT !.stderr = e, !.noise = k]
  <2>1. e \in Seq({Noise}) /\ k \in Nat
    BY <1>1, AppendProperties DEF ProcessSet
  <2> HIDE DEF e, k
  <2>2. q \in ProcessSet
    BY <1>1, <2>1 DEF ProcessSet
  <2>3. q.stdout = p.stdout /\ q.stdin = p.stdin /\ q.running = p.running
    BY <1>1 DEF ProcessSet
  <2>4. repl' = [repl EXCEPT ![s] = q] /\ UNCHANGED <<lesson, mode, main, session, ran, causes>>
    BY <1>2 DEF Complain, e, k
  <2>5. QueueOK(q, s, Sent(main), ran)
    BY <1>1, <2>3 DEF QueueOK
  <2> HIDE DEF q
  <2> QED
    BY <2>2, <2>3, <2>4, <2>5, ProcessStep
<1>3. CASE Fork(s) \/ ChildEnds(s)
  <2>1. PICK b \in BOOLEAN : repl' = [repl EXCEPT ![s] = [p EXCEPT !.child = b]]
    BY <1>3 DEF Fork, ChildEnds
  <2> DEFINE q == [p EXCEPT !.child = b]
  <2>2. q \in ProcessSet /\ q.stdout = p.stdout /\ q.stdin = p.stdin /\ q.running = p.running
    <3>1. b \in BOOLEAN
      BY <2>1
    <3> QED
      BY <1>1, <3>1, Zenon DEF ProcessSet
  <2>3. UNCHANGED <<lesson, mode, main, session, ran, causes>>
    BY <1>3 DEF Fork, ChildEnds
  <2>4. QueueOK(q, s, Sent(main), ran)
    BY <1>1, <2>2 DEF QueueOK
  <2> HIDE DEF q
  <2> QED
    BY <2>1, <2>2, <2>3, <2>4, ProcessStep DEF q
<1>4. CASE Exit(s)
  <2>1. Gone(s) /\ UNCHANGED <<lesson, mode, main, session, ran, causes>>
    BY <1>4 DEF Exit
  <2> QED
    BY <2>1, GoneInv
<1> QED
  BY <1>2, <1>3, <1>4

(* A step ends: from now on it has run, and its marker is on its way.      *)
LEMMA FinishInv ==
    ASSUME Inv, NEW s \in Sessions, NEW status \in Statuses, Finish(s, status)
    PROVE  Inv'
<1> DEFINE p == repl[s]
           n == p.running
           text == MarkerText(n, status, mode)
           q == [p EXCEPT !.running = 0, !.stdout = @ \o text]
           after == RanAfter(ran, n, status)
<1>1. /\ p \in ProcessSet /\ QueueOK(p, s, Sent(main), ran)
      /\ n \in Nat /\ n # 0 /\ p.stdout \in Seq(Pieces)
      /\ session \in [Sessions -> SessionSet] /\ repl \in [Sessions -> ProcessSet]
      /\ \A r \in Sessions : session[r].buffer \in Seq(Pieces) /\ repl[r].stdout \in Seq(Pieces)
  BY DEF Inv, Types, ProcessSet, SessionSet, Finish
<1>2. /\ repl' = [repl EXCEPT ![s] = q] /\ ran' = after
      /\ UNCHANGED <<lesson, mode, main, session, causes>>
  BY DEF Finish, RanAfter, MarkerText
<1>3. status \in Seq(0 .. 9)
  BY StatusesAssumption
<1>4. text \in Seq(Pieces)
  BY <1>1, <1>3, MarkerTextElements
<1>5. ToRun(n, s, Sent(main), ran)
  BY <1>1 DEF QueueOK
<1>6. /\ DOMAIN after = DOMAIN ran \cup {n} /\ after[n] = status
      /\ \A k \in DOMAIN ran : after[k] = ran[k]
  BY <1>5 DEF ToRun, RanAfter
<1> HIDE DEF p, n, text, after
<1>7. /\ q \in ProcessSet /\ q.running = 0 /\ q.stdout = p.stdout \o text
      /\ q.stdin = p.stdin
  <2> DEFINE out == p.stdout \o text
  <2>1. out \in Seq(Pieces)
    BY <1>1, <1>4, ConcatProperties
  <2> HIDE DEF out
  <2>2. q = [p EXCEPT !.running = 0, !.stdout = out]
    BY DEF out
  <2> HIDE DEF q
  <2>3. q \in ProcessSet /\ q.running = 0 /\ q.stdout = out /\ q.stdin = p.stdin
    BY <1>1, <2>1, <2>2 DEF ProcessSet
  <2> QED
    BY <2>3 DEF out
<1> HIDE DEF q
<1>8. Types'
  BY <1>1, <1>2, <1>6, <1>7 DEF Inv, Types
<1>9. RanOK'
  BY <1>2, <1>5, <1>6 DEF Inv, RanOK, ToRun, Sent
<1>10. repl'[s] = q /\ \A r \in Sessions \ {s} : repl'[r] = repl[r]
  BY <1>1, <1>2
<1>11. ASSUME NEW r \in Sessions
       PROVE  StreamOK(session[r].buffer \o repl'[r].stdout, after, mode)
  <2>1. StreamOK(session[r].buffer \o repl[r].stdout, ran, mode)
    BY DEF Inv
  <2>2. CASE r # s
    BY <1>5, <1>10, <2>1, <2>2, OthersRan DEF ToRun, after
  <2>3. CASE r = s
    <3> DEFINE b == session[s].buffer
               o == p.stdout
               t == b \o o
    <3>1. b \in Seq(Pieces) /\ o \in Seq(Pieces)
      BY <1>1
    <3>2. StreamOK(t, ran, mode)
      BY <2>1, <2>3 DEF p
    <3> HIDE DEF b, o
    <3>3. t \in Seq(Pieces)
      BY <3>1, ConcatProperties
    <3> HIDE DEF t
    <3>4. StreamOK(t \o text, after, mode)
      BY <1>1, <1>3, <1>5, <3>2, <3>3, AppendMarker DEF ToRun, text, after
    <3>5. t \o text = b \o (o \o text)
      BY <1>4, <3>1, Associative DEF t
    <3> QED
      BY <1>7, <1>10, <2>3, <3>4, <3>5 DEF b, o
  <2> QED
    BY <2>2, <2>3
<1>12. ASSUME NEW r \in Sessions PROVE QueueOK(repl'[r], r, Sent(main), after)
  <2>1. QueueOK(repl[r], r, Sent(main), ran)
    BY DEF Inv
  <2>2. CASE r # s
    <3>1. \A k : ToRun(k, r, Sent(main), ran) => ToRun(k, r, Sent(main), after)
      BY <1>5, <1>6, <2>2 DEF ToRun
    <3> QED
      BY <1>10, <2>1, <2>2, <3>1 DEF QueueOK
  <2>3. CASE r = s
    <3>1. QueueOK(q, s, Sent(main), ran)
      BY <1>1, <1>7, NotRunning
    <3>2. \A i \in 1 .. Len(q.stdin) : q.stdin[i] # n
      <4>1. \A i \in 1 .. Len(p.stdin) : p.stdin[i] \in Nat /\ n < p.stdin[i]
        BY <1>1, ElementOfSeq DEF ProcessSet, QueueOK, n
      <4> QED
        BY <1>1, <1>7, <4>1
    <3>3. \A k : k # n /\ ToRun(k, s, Sent(main), ran) => ToRun(k, s, Sent(main), after)
      BY <1>6 DEF ToRun
    <3> QED
      BY <1>7, <1>10, <2>3, <3>1, <3>2, <3>3 DEF QueueOK
  <2> QED
    BY <2>2, <2>3
<1>13. ASSUME NEW r \in Sessions PROVE DoneOK(session[r], after, mode)
  <2>1. DoneOK(session[r], ran, mode)
    BY DEF Inv
  <2> QED
    BY <1>6, <2>1 DEF DoneOK, Agrees
<1>14. PassOK(main, session, after, mode)
  <2>1. PassOK(main, session, ran, mode)
    BY DEF Inv
  <2>2. \A k : RanWell(k, ran, mode) => RanWell(k, after, mode)
    BY <1>6 DEF RanWell
  <2> QED
    BY <2>1, <2>2 DEF PassOK
<1>15. CauseOK(main, session, causes, after, mode)
  <2>1. CauseOK(main, session, causes, ran, mode)
    BY DEF Inv
  <2>2. Cause(causes, ran, mode) => Cause(causes, after, mode)
    BY <1>6 DEF Cause
  <2> QED
    BY <2>1, <2>2 DEF CauseOK
<1>16. (\A r \in Sessions : StreamOK(session[r].buffer \o repl[r].stdout, ran, mode))'
  BY <1>2, <1>11
<1>17. (\A r \in Sessions : QueueOK(repl[r], r, Sent(main), ran))'
  BY <1>2, <1>12 DEF QueueOK, ToRun, Sent
<1>18. (\A r \in Sessions : DoneOK(session[r], ran, mode) /\ WaitersOK(session[r], r, main.step))'
  BY <1>2, <1>13 DEF Inv, WaitersOK
<1>19. (ControlOK(main) /\ OpenOK(main, session))'
  BY <1>2 DEF Inv, ControlOK
<1>20. (PassOK(main, session, ran, mode) /\ CauseOK(main, session, causes, ran, mode))'
  BY <1>2, <1>14, <1>15 DEF PassOK, Owed
<1> QED
  BY <1>8, <1>9, <1>16, <1>17, <1>18, <1>19, <1>20 DEF Inv

-----------------------------------------------------------------------------
(* A read of a pump, and what consume hands over.                          *)

(* Whoever is served gets a status that agrees with the step's.            *)
LEMMA ServedOK ==
    ASSUME Types, NEW b \in Seq(Pieces), StreamOK(b, ran, mode), NEW n, Arrived(b, n)
    PROVE  /\ n \in DOMAIN ran /\ StatusOf(b, n) \in Seq(Nat)
           /\ Agrees(StatusOf(b, n), n, ran, mode)
           /\ Fails(StatusOf(b, n)) => Cause(causes, ran, mode)
<1>1. n \in DOMAIN ran
  BY PrintedHasRun DEF Arrived
<1>2. CASE mode = "shell"
  <2>1. StatusOf(b, n) = MarkerStatus(b, n) /\ MarkerStatus(b, n) # NoStatus
    BY <1>2 DEF StatusOf, Arrived
  <2>2. /\ MarkerStatus(b, n) \in Seq(Nat)
        /\ MarkerStatus(b, n) = Zero <=> ran[n] = Zero
    BY <1>2, <2>1, StatusIsZero DEF Arrived, Types
  <2> QED
    BY <1>1, <1>2, <2>1, <2>2 DEF Agrees, Fails, Cause
<1>3. CASE mode # "shell"
  BY <1>1, <1>3 DEF StatusOf, Agrees, Fails, NoStatus
<1> QED
  BY <1>2, <1>3

(* Text that a pump delivers hands over statuses that agree with what ran. *)
LEMMA DeliverStep ==
    ASSUME Inv, NEW s \in Sessions, NEW text \in Seq(Pieces), Deliver(s, text),
           NEW q \in ProcessSet, repl' = [repl EXCEPT ![s] = q],
           q.stdin = repl[s].stdin, q.running = repl[s].running,
           StreamOK((session[s].buffer \o text) \o q.stdout, ran, mode),
           UNCHANGED <<lesson, mode, main, ran, causes>>
    PROVE  Inv'
<1> DEFINE c == session[s]
           b == c.buffer \o text
           served == {n \in c.waiters : Arrived(b, n)}
           d == [n \in served \cup DOMAIN c.done |->
                   IF n \in served THEN StatusOf(b, n) ELSE c.done[n]]
           w == c.waiters \ served
           f == c.failed \/ \E n \in served : Fails(StatusOf(b, n))
           e == [c EXCEPT !.buffer = b, !.waiters = w, !.done = d, !.failed = f]
<1>1. /\ Types /\ session \in [Sessions -> SessionSet] /\ repl \in [Sessions -> ProcessSet]
      /\ c \in SessionSet
      /\ DoneOK(c, ran, mode) /\ WaitersOK(c, s, main.step)
  BY DEF Inv, Types
<1>2. session' = [session EXCEPT ![s] = e]
  BY <1>1 DEF Deliver, WaitersAfter, SessionSet
<1>3. b \in Seq(Pieces) /\ q.stdout \in Seq(Pieces)
  BY <1>1, ConcatProperties DEF SessionSet, ProcessSet
<1>4. StreamOK(b \o q.stdout, ran, mode)
  OBVIOUS
<1>5. served \in SUBSET c.waiters /\ \A n \in served : Arrived(b, n)
  OBVIOUS
<1> HIDE DEF c, b, served
<1>6. StreamOK(b, ran, mode)
  BY <1>3, <1>4, StreamPrefix
<1>7. ASSUME NEW n \in served
      PROVE  /\ n \in DOMAIN ran /\ StatusOf(b, n) \in Seq(Nat)
             /\ Agrees(StatusOf(b, n), n, ran, mode)
             /\ Fails(StatusOf(b, n)) => Cause(causes, ran, mode)
  BY <1>1, <1>3, <1>5, <1>6, ServedOK
<1>8. /\ DOMAIN d = served \cup DOMAIN c.done
      /\ \A n \in served : d[n] = StatusOf(b, n)
      /\ \A n \in DOMAIN c.done \ served : d[n] = c.done[n]
  OBVIOUS
<1>9. d \in Statements
  <2>1. c.done \in Statements /\ c.waiters \in SUBSET Nat
    BY <1>1 DEF SessionSet
  <2>2. PICK D \in SUBSET Nat : c.done \in [D -> Seq(Nat)]
    BY <2>1 DEF Statements
  <2>3. \A n \in served \cup D : (IF n \in served THEN StatusOf(b, n) ELSE c.done[n]) \in Seq(Nat)
    BY <1>7, <2>2
  <2>4. d \in [served \cup D -> Seq(Nat)] /\ served \cup D \in SUBSET Nat
    BY <1>5, <2>1, <2>2, <2>3
  <2> QED
    BY <2>4 DEF Statements
<1>10. /\ f \in BOOLEAN
       /\ c.failed => f
       /\ \A n \in served : Fails(StatusOf(b, n)) => f
       /\ f => c.failed \/ Cause(causes, ran, mode)
  <2>1. c.failed \in BOOLEAN
    BY <1>1 DEF SessionSet
  <2> QED
    BY <1>7, <2>1, Zenon
<1>11. w \in SUBSET c.waiters /\ w \cap served = {} /\ w \in SUBSET Nat
  BY <1>1 DEF SessionSet
<1> HIDE DEF d, w, f
<1>12. /\ e \in SessionSet /\ e.started = c.started /\ e.buffer = b /\ e.waiters = w
       /\ e.done = d /\ e.pending = c.pending /\ e.failed = f
  BY <1>1, <1>3, <1>9, <1>10, <1>11, Zenon DEF SessionSet
<1> HIDE DEF e
<1>13. /\ session'[s] = e /\ \A r \in Sessions \ {s} : session'[r] = session[r]
       /\ repl'[s] = q /\ \A r \in Sessions \ {s} : repl'[r] = repl[r]
       /\ \A r \in Sessions : /\ session'[r].started = session[r].started
                              /\ session'[r].pending = session[r].pending
                              /\ session[r].failed => session'[r].failed
       /\ \A r \in Sessions : session'[r].failed => session[r].failed \/ Cause(causes, ran, mode)
  BY <1>1, <1>2, <1>10, <1>12 DEF c
<1>14. Types'
  BY <1>1, <1>2, <1>12 DEF Types
<1>15. DoneOK(e, ran, mode)
  <2> SUFFICES ASSUME NEW n \in DOMAIN d
               PROVE  n \in DOMAIN ran /\ Agrees(d[n], n, ran, mode) /\ (Fails(d[n]) => f)
    BY <1>12 DEF DoneOK
  <2>1. CASE n \in served
    BY <1>7, <1>8, <1>10, <2>1
  <2>2. CASE n \notin served
    BY <1>1, <1>8, <1>10, <2>2 DEF DoneOK
  <2> QED
    BY <2>1, <2>2
<1>16. WaitersOK(e, s, main.step)
  BY <1>1, <1>8, <1>11, <1>12 DEF WaitersOK
<1>17. RanOK'
  BY DEF Inv, RanOK
<1>18. (\A r \in Sessions : StreamOK(session[r].buffer \o repl[r].stdout, ran, mode))'
  BY <1>4, <1>12, <1>13 DEF Inv
<1>19. \A r \in Sessions : QueueOK(repl'[r], r, Sent(main), ran)
  BY <1>13 DEF Inv, QueueOK
<1>20. (\A r \in Sessions : QueueOK(repl[r], r, Sent(main), ran))'
  BY <1>19 DEF QueueOK, ToRun, Sent
<1>21. (\A r \in Sessions : DoneOK(session[r], ran, mode))'
  BY <1>13, <1>15 DEF Inv
<1>22. \A r \in Sessions : WaitersOK(session'[r], r, main.step)
  BY <1>13, <1>16 DEF Inv
<1>23. (\A r \in Sessions : WaitersOK(session[r], r, main.step))'
  BY <1>22 DEF WaitersOK
<1>24. ControlOK(main)'
  BY DEF Inv, ControlOK
<1>25. OpenOK(main, session')
  <2>1. main.at \in {"quit", "reap"} => main.open[1] \in Sessions
    <3>1. main.open \in Seq(Sessions) /\ (main.at \in {"quit", "reap"} => main.open # << >>)
      BY DEF Inv, Types, ControlOK
    <3> QED
      BY <3>1, ElementsTail
  <2>2. ToSet(main.open) \subseteq Sessions
    <3>1. main.open \in Seq(Sessions)
      BY DEF Inv, Types
    <3> QED
      BY <3>1, LenProperties, ElementOfSeq DEF ToSet
  <2>3. OpenOK(main, session)
    BY DEF Inv
  <2>4. \A r \in ToSet(main.open) : session'[r].started
    BY <1>13, <2>2, <2>3 DEF OpenOK
  <2>5. main.at \in {"next", "write", "await"} =>
           \A r \in Sessions : session'[r].started => r \in ToSet(main.open)
    BY <1>13, <2>3 DEF OpenOK
  <2>6. main.at \in {"quit", "reap"} =>
           session'[main.open[1]].pending = << >> \/ session'[main.open[1]].failed
    BY <1>13, <2>1, <2>3 DEF OpenOK
  <2> QED
    BY <2>4, <2>5, <2>6 DEF OpenOK
<1>26. PassOK(main, session', ran, mode)
  <2>1. ToSet(main.open) \subseteq Sessions
    <3>1. main.open \in Seq(Sessions)
      BY DEF Inv, Types
    <3> QED
      BY <3>1, LenProperties, ElementOfSeq DEF ToSet
  <2>2. \A n : Owed(n, main, session) => Owed(n, main, session')
    <3> SUFFICES ASSUME NEW n, Owed(n, main, session) PROVE Owed(n, main, session')
      OBVIOUS
    <3> DEFINE r == lesson[n].session
    <3>1. r \in Sessions /\ r \in ToSet(main.open)
      BY <2>1 DEF Owed
    <3>2. n \in ToSet(session[r].pending) \/ session[r].failed
      BY DEF Owed
    <3> HIDE DEF r
    <3>3. n \in ToSet(session'[r].pending) \/ session'[r].failed
      BY <1>13, <3>1, <3>2
    <3> QED
      BY <3>1, <3>3 DEF Owed, r
  <2> QED
    BY <2>2 DEF Inv, PassOK
<1>27. CauseOK(main, session', causes, ran, mode)
  BY <1>13 DEF Inv, CauseOK
<1>28. (OpenOK(main, session) /\ PassOK(main, session, ran, mode)
          /\ CauseOK(main, session, causes, ran, mode))'
  BY <1>25, <1>26, <1>27 DEF PassOK, Owed
<1> QED
  BY <1>14, <1>17, <1>18, <1>20, <1>21, <1>23, <1>24, <1>28 DEF Inv

(* One read of stdout moves text, one of stderr brings noise.              *)
LEMMA PumpInv ==
    ASSUME Inv, NEW s \in Sessions, Pump(s, "stdout") \/ Pump(s, "stderr")
    PROVE  Inv'
<1> DEFINE p == repl[s]
           b == session[s].buffer
           o == p.stdout
           e == p.stderr
<1>1. /\ p \in ProcessSet /\ b \in Seq(Pieces) /\ o \in Seq(Pieces) /\ e \in Seq({Noise})
      /\ StreamOK(b \o o, ran, mode)
  BY DEF Inv, Types, ProcessSet, SessionSet
<1>2. CASE Pump(s, "stdout")
  <2>1. PICK m \in 1 .. Len(o) :
           /\ Deliver(s, SubSeq(o, 1, m))
           /\ repl' = [repl EXCEPT ![s].stdout = SubSeq(@, m + 1, Len(@))]
           /\ UNCHANGED <<lesson, mode, main, ran, causes>>
    BY <1>2 DEF Pump
  <2> DEFINE text == SubSeq(o, 1, m)
             rest == SubSeq(o, m + 1, Len(o))
             q == [p EXCEPT !.stdout = rest]
  <2>2. text \in Seq(Pieces) /\ rest \in Seq(Pieces) /\ (b \o text) \o rest = b \o o
    BY <1>1, ReadStdout
  <2>3. Deliver(s, text) /\ repl' = [repl EXCEPT ![s] = q]
           /\ UNCHANGED <<lesson, mode, main, ran, causes>>
    BY <2>1 DEF Inv, Types
  <2> HIDE DEF text, rest
  <2>4. q \in ProcessSet /\ q.stdin = p.stdin /\ q.running = p.running /\ q.stdout = rest
    BY <1>1, <2>2 DEF ProcessSet
  <2> HIDE DEF q
  <2>5. StreamOK((b \o text) \o q.stdout, ran, mode)
    BY <1>1, <2>2, <2>4
  <2> QED
    BY <2>2, <2>3, <2>4, <2>5, DeliverStep
<1>3. CASE Pump(s, "stderr")
  <2>1. PICK m \in 1 .. Len(e) :
           /\ Deliver(s, SubSeq(e, 1, m))
           /\ repl' = [repl EXCEPT ![s].stderr = SubSeq(@, m + 1, Len(@))]
           /\ UNCHANGED <<lesson, mode, main, ran, causes>>
    BY <1>3 DEF Pump
  <2> DEFINE text == SubSeq(e, 1, m)
             rest == SubSeq(e, m + 1, Len(e))
             q == [p EXCEPT !.stderr = rest]
  <2>2. text \in Seq({Noise}) /\ text # << >> /\ rest \in Seq({Noise})
    <3>1. Len(e) \in Nat /\ \A i \in 1 .. Len(e) : e[i] \in {Noise}
      BY <1>1, LenProperties, ElementOfSeq
    <3>2. /\ m \in Int /\ m + 1 \in Int /\ Len(e) \in Int /\ 1 <= m
          /\ \A i \in 1 .. m : e[i] \in {Noise}
          /\ \A i \in m + 1 .. Len(e) : e[i] \in {Noise}
      BY <3>1
    <3>3. text \in Seq({Noise}) /\ Len(text) = m /\ rest \in Seq({Noise})
      BY <3>2, SubSeqProperties
    <3> HIDE DEF text, rest
    <3> QED
      BY <3>2, <3>3, EmptySeq
  <2>3. Deliver(s, text) /\ repl' = [repl EXCEPT ![s] = q]
           /\ UNCHANGED <<lesson, mode, main, ran, causes>>
    BY <2>1 DEF Inv, Types
  <2> HIDE DEF text, rest
  <2>4. /\ q \in ProcessSet /\ q.stdin = p.stdin /\ q.running = p.running /\ q.stdout = o
    BY <1>1, <2>2 DEF ProcessSet
  <2> HIDE DEF q
  <2>5. b \o text \in Seq(Pieces) /\ StreamOK((b \o text) \o o, ran, mode)
    BY <1>1, <2>2, ReadStderr
  <2>6. text \in Seq(Pieces)
    <3>1. {Noise} \subseteq Pieces
      BY DEF Noise, Pieces
    <3> QED
      BY <2>2, <3>1, SeqMonotonic
  <2> QED
    BY <2>3, <2>4, <2>5, <2>6, DeliverStep
<1> QED
  BY <1>2, <1>3

-----------------------------------------------------------------------------
(* Steps of the main goroutine.                                            *)

MainSet(l) == [at : Places, step : 0 .. Len(l), ok : BOOLEAN, open : Seq(Sessions)]

(* What was sent stays sent.                                               *)
LEMMA QueueGrows ==
    ASSUME NEW p, NEW s, NEW sent \in Int, NEW more \in Int, sent <= more, NEW rn,
           QueueOK(p, s, sent, rn)
    PROVE  QueueOK(p, s, more, rn)
<1>1. \A n : n \in 1 .. sent => n \in 1 .. more
  OBVIOUS
<1> QED
  BY <1>1 DEF QueueOK, ToRun

(* ... nor does a later step disturb who is waiting for an earlier one.    *)
LEMMA WaitersGrow ==
    ASSUME NEW c, NEW s, NEW step \in Int, NEW more \in Int, step <= more,
           WaitersOK(c, s, step)
    PROVE  WaitersOK(c, s, more)
<1>1. \A n : n \in 1 .. step => n \in 1 .. more
  OBVIOUS
<1> QED
  BY <1>1 DEF WaitersOK

(* What has to be shown of a step of main.                                 *)
LEMMA MainStep ==
    ASSUME Inv, UNCHANGED <<lesson, mode, ran>>, main' \in MainSet(lesson),
           session' \in [Sessions -> SessionSet], repl' \in [Sessions -> ProcessSet],
           Sent(main) <= Sent(main'),
           \A r \in Sessions : StreamOK(session'[r].buffer \o repl'[r].stdout, ran, mode),
           \A r \in Sessions : QueueOK(repl'[r], r, Sent(main'), ran),
           \A r \in Sessions : DoneOK(session'[r], ran, mode),
           \A r \in Sessions : WaitersOK(session'[r], r, main'.step),
           ControlOK(main'), OpenOK(main', session'), PassOK(main', session', ran, mode),
           CauseOK(main', session', causes', ran, mode)
    PROVE  Inv'
<1>1. Types'
  BY DEF Inv, Types, MainSet
<1>2. RanOK'
  <2>1. /\ Sent(main) \in Int /\ Sent(main') \in Int
        /\ Len(lesson) \in Nat
    BY LessonsAssumption, LenProperties DEF Inv, Types, MainSet, Sent
  <2>2. DOMAIN ran \subseteq 1 .. Sent(main')
    <3>1. DOMAIN ran \subseteq 1 .. Sent(main)
      BY DEF Inv, RanOK
    <3> HIDE DEF Sent
    <3> QED
      BY <2>1, <3>1
  <2> QED
    BY <2>2 DEF RanOK, Sent
<1>3. (\A r \in Sessions : QueueOK(repl[r], r, Sent(main), ran))'
  BY DEF QueueOK, ToRun, Sent
<1>4. (\A r \in Sessions : WaitersOK(session[r], r, main.step))'
  BY DEF WaitersOK
<1>5. ControlOK(main)'
  BY DEF ControlOK
<1>6. (OpenOK(main, session) /\ PassOK(main, session, ran, mode)
          /\ CauseOK(main, session, causes, ran, mode))'
  BY DEF PassOK, Owed
<1> QED
  BY <1>1, <1>2, <1>3, <1>4, <1>5, <1>6 DEF Inv

(* A step of main that leaves sessions and processes alone.                *)
LEMMA MainMoves ==
    ASSUME Inv, UNCHANGED <<lesson, mode, ran, session, repl>>, main' \in MainSet(lesson),
           Sent(main) <= Sent(main'), main.step <= main'.step,
           ControlOK(main'), OpenOK(main', session), PassOK(main', session, ran, mode),
           CauseOK(main', session, causes', ran, mode)
    PROVE  Inv'
<1>1. /\ Sent(main) \in Int /\ Sent(main') \in Int /\ main.step \in Int /\ main'.step \in Int
  BY LessonsAssumption, LenProperties DEF Inv, Types, MainSet, Sent
<1>2. \A r \in Sessions : QueueOK(repl[r], r, Sent(main'), ran)
  <2> HIDE DEF Sent
  <2> QED
    BY <1>1, QueueGrows DEF Inv
<1>3. \A r \in Sessions : WaitersOK(session[r], r, main'.step)
  BY <1>1, WaitersGrow DEF Inv
<1>4. session' = session /\ repl' = repl
  OBVIOUS
<1> QED
  BY <1>2, <1>3, <1>4, MainStep DEF Inv, Types

(* What is known of main and of the lesson.                                *)
LEMMA MainFacts ==
    ASSUME Inv
    PROVE  /\ main \in MainSet(lesson) /\ Len(lesson) \in Nat
           /\ main.step \in 0 .. Len(lesson) /\ main.ok \in BOOLEAN
           /\ main.open \in Seq(Sessions) /\ ToSet(main.open) \subseteq Sessions
           /\ \A n \in 1 .. Len(lesson) :
                 lesson[n].session \in Sessions /\ lesson[n].blocks \in BOOLEAN
<1>1. lesson \in Seq([session : Sessions, blocks : BOOLEAN])
  BY LessonsAssumption DEF Inv, Types
<1>2. main \in MainSet(lesson) /\ Len(lesson) \in Nat
  BY <1>1, LenProperties DEF Inv, Types, MainSet
<1>3. \A n \in 1 .. Len(lesson) : lesson[n] \in [session : Sessions, blocks : BOOLEAN]
  BY <1>1, ElementOfSeq
<1>4. main.open \in Seq(Sessions) /\ main.step \in 0 .. Len(lesson) /\ main.ok \in BOOLEAN
  BY <1>2 DEF MainSet
<1>5. ToSet(main.open) \subseteq Sessions
  BY <1>4, LenProperties, ElementOfSeq DEF ToSet
<1> QED
  BY <1>2, <1>3, <1>4, <1>5

(* A session that cannot be started ends the lesson.                       *)
LEMMA CannotStartInv ==
    ASSUME Inv, CannotStart
    PROVE  Inv'
<1>1. /\ main.at = "next" /\ main.step < Len(lesson)
      /\ main' = [main EXCEPT !.at = "close", !.step = @ + 1, !.ok = FALSE]
      /\ causes' = causes \cup {"start"} /\ UNCHANGED <<lesson, mode, session, repl, ran>>
  BY DEF CannotStart, Blame
<1> DEFINE k == main.step + 1
<1>k. k \in 0 .. Len(lesson)
  BY <1>1, MainFacts
<1> HIDE DEF k
<1>2. /\ main' \in MainSet(lesson) /\ main'.at = "close" /\ main'.step = main.step + 1
      /\ main'.ok = FALSE /\ main'.open = main.open
  <2>1. main' = [main EXCEPT !.at = "close", !.step = k, !.ok = FALSE]
    BY <1>1 DEF k
  <2>2. /\ main' \in MainSet(lesson) /\ main'.at = "close" /\ main'.step = k
        /\ main'.ok = FALSE /\ main'.open = main.open
    BY <1>k, <2>1, MainFacts DEF MainSet, Places
  <2> QED
    BY <2>2 DEF k
<1>3. Sent(main) <= Sent(main') /\ main.step <= main'.step
  BY <1>1, <1>2, MainFacts DEF Sent
<1>4. ControlOK(main') /\ OpenOK(main', session)
  BY <1>1, <1>2 DEF Inv, ControlOK, OpenOK
<1>5. PassOK(main', session, ran, mode) /\ CauseOK(main', session, causes', ran, mode)
  BY <1>1, <1>2 DEF PassOK, CauseOK, Cause
<1> QED
  BY <1>1, <1>2, <1>3, <1>4, <1>5, MainMoves

(* The end of the steps.                                                   *)
LEMMA LastStepInv ==
    ASSUME Inv, LastStep
    PROVE  Inv'
<1>1. /\ main.at = "next" /\ (~main.ok \/ main.step = Len(lesson))
      /\ main' = [main EXCEPT !.at = "close"]
      /\ UNCHANGED <<lesson, mode, session, repl, ran, causes>>
  BY DEF LastStep, Go
<1>2. /\ main' \in MainSet(lesson) /\ main'.at = "close" /\ main'.step = main.step
      /\ main'.ok = main.ok /\ main'.open = main.open
  BY <1>1, MainFacts DEF MainSet, Places
<1>3. Sent(main) <= Sent(main') /\ main.step <= main'.step
  BY <1>1, <1>2, MainFacts DEF Sent
<1>4. ControlOK(main') /\ OpenOK(main', session)
  BY <1>1, <1>2 DEF Inv, ControlOK, OpenOK
<1>5. PassOK(main', session, ran, mode)
  BY <1>1, <1>2 DEF Inv, PassOK, Settled, Owed
<1>6. CauseOK(main', session, causes', ran, mode)
  BY <1>1, <1>2 DEF Inv, CauseOK
<1> QED
  BY <1>1, <1>2, <1>3, <1>4, <1>5, <1>6, MainMoves

(* All sessions are closed.                                                *)
LEMMA VerdictInv ==
    ASSUME Inv, Verdict
    PROVE  Inv'
<1>1. /\ main.at = "close" /\ main.open = << >> /\ main' = [main EXCEPT !.at = "end"]
      /\ UNCHANGED <<lesson, mode, session, repl, ran, causes>>
  BY DEF Verdict, Go
<1>2. /\ main' \in MainSet(lesson) /\ main'.at = "end" /\ main'.step = main.step
      /\ main'.ok = main.ok /\ main'.open = main.open
  BY <1>1, MainFacts DEF MainSet, Places
<1>3. Sent(main) <= Sent(main') /\ main.step <= main'.step
  BY <1>1, <1>2, MainFacts DEF Sent
<1>4. ControlOK(main') /\ OpenOK(main', session)
  BY <1>1, <1>2 DEF Inv, ControlOK, OpenOK
<1>5. PassOK(main', session, ran, mode)
  BY <1>1, <1>2 DEF Inv, PassOK, Settled, Owed
<1>6. CauseOK(main', session, causes', ran, mode)
  BY <1>1, <1>2 DEF Inv, CauseOK
<1> QED
  BY <1>1, <1>2, <1>3, <1>4, <1>5, <1>6, MainMoves

(* The status of the current step arrives in time.                         *)
LEMMA ReceiveInv ==
    ASSUME Inv, Receive
    PROVE  Inv'
<1> DEFINE n == main.step
           c == session[Current]
           good == c.done[n] \in {Zero, NoStatus}
<1>1. /\ main.at = "await" /\ n \in DOMAIN c.done
      /\ main' = [main EXCEPT !.at = "next", !.ok = good]
      /\ UNCHANGED <<lesson, mode, session, repl, ran, causes>>
  BY DEF Receive
<1>2. /\ n \in 1 .. Len(lesson) /\ Current \in Sessions /\ main.ok
  BY <1>1, MainFacts DEF Inv, ControlOK, Current
<1> HIDE DEF good
<1>3. good \in BOOLEAN
  BY DEF good
<1>4. /\ main' \in MainSet(lesson) /\ main'.at = "next" /\ main'.step = main.step
      /\ main'.ok = good /\ main'.open = main.open
  BY <1>1, <1>3, MainFacts, Zenon DEF MainSet, Places
<1>5. Sent(main) <= Sent(main') /\ main.step <= main'.step
  BY <1>1, <1>4, MainFacts DEF Sent
<1>6. ControlOK(main') /\ OpenOK(main', session)
  BY <1>1, <1>4 DEF Inv, ControlOK, OpenOK
<1>7. /\ n \in DOMAIN ran /\ Agrees(c.done[n], n, ran, mode)
  BY <1>1, <1>2 DEF Inv, DoneOK
<1>8. good => RanWell(n, ran, mode)
  BY <1>7 DEF good, Agrees, RanWell
<1>9. ~good => Cause(causes, ran, mode)
  BY <1>7 DEF good, Agrees, Cause
<1> HIDE DEF c
<1>10. PassOK(main', session, ran, mode)
  <2>1. Settled(main) = n - 1 /\ Settled(main') = n
    BY <1>1, <1>4 DEF Settled
  <2>2. \A k \in 1 .. n - 1 : RanWell(k, ran, mode) \/ Owed(k, main, session)
    BY <1>2, <2>1 DEF Inv, PassOK
  <2>3. \A k : Owed(k, main, session) => Owed(k, main', session)
    BY <1>4 DEF Owed
  <2>4. \A k \in 1 .. n : k \in 1 .. n - 1 \/ k = n
    BY <1>2
  <2> QED
    BY <1>4, <1>8, <2>1, <2>2, <2>3, <2>4 DEF PassOK
<1>11. CauseOK(main', session, causes', ran, mode)
  BY <1>1, <1>4, <1>9 DEF Inv, CauseOK
<1> QED
  BY <1>1, <1>4, <1>5, <1>6, <1>10, <1>11, MainMoves

(* A session has gone; whether it had failed decides on the lesson.        *)
LEMMA ReapInv ==
    ASSUME Inv, Reap
    PROVE  Inv'
<1> DEFINE s == main.open[1]
           good == main.ok /\ ~session[s].failed
<1>1. /\ main.at = "reap" /\ UNCHANGED <<lesson, mode, session, repl, ran, causes>>
      /\ main' = [main EXCEPT !.at = "close", !.open = Tail(@), !.ok = good]
  BY DEF Reap, Closing
<1>2. /\ main.open \in Seq(Sessions) /\ main.open # << >>
  BY <1>1, MainFacts DEF Inv, ControlOK
<1>3. /\ s \in Sessions /\ Tail(main.open) \in Seq(Sessions)
      /\ ToSet(main.open) = {s} \cup ToSet(Tail(main.open))
  BY <1>2, ElementsTail
<1> HIDE DEF s, good
<1>4. good \in BOOLEAN
  BY DEF good
<1>5. /\ main' \in MainSet(lesson) /\ main'.at = "close" /\ main'.step = main.step
      /\ main'.ok = good /\ main'.open = Tail(main.open)
  BY <1>1, <1>3, <1>4, MainFacts, Zenon DEF MainSet, Places
<1>6. Sent(main) <= Sent(main') /\ main.step <= main'.step
  BY <1>1, <1>5, MainFacts DEF Sent
<1>7. ControlOK(main')
  BY <1>1, <1>5 DEF Inv, ControlOK, good
<1>8. OpenOK(main', session)
  BY <1>1, <1>3, <1>5 DEF Inv, OpenOK
<1>9. good => session[s].pending = << >> /\ ~session[s].failed
  BY <1>1 DEF Inv, OpenOK, good, s
<1>10. PassOK(main', session, ran, mode)
  <2> SUFFICES ASSUME good, NEW k \in 1 .. Settled(main')
               PROVE  RanWell(k, ran, mode) \/ Owed(k, main', session)
    BY <1>5 DEF PassOK
  <2>1. Settled(main') = Settled(main)
    BY <1>1, <1>5 DEF Settled
  <2>2. RanWell(k, ran, mode) \/ Owed(k, main, session)
    BY <2>1 DEF Inv, PassOK, good
  <2>3. Owed(k, main, session) => lesson[k].session # s
    BY <1>9, NoElements DEF Owed
  <2> QED
    BY <1>3, <1>5, <2>2, <2>3 DEF Owed
<1>11. CauseOK(main', session, causes', ran, mode)
  BY <1>1, <1>3, <1>5 DEF Inv, CauseOK, good
<1> QED
  BY <1>1, <1>5, <1>6, <1>7, <1>8, <1>10, <1>11, MainMoves

(* A step of main on one session; its processes are left alone.            *)
LEMMA SessionMoves ==
    ASSUME Inv, NEW s \in Sessions, NEW e \in SessionSet, session' = [session EXCEPT ![s] = e],
           e.buffer = session[s].buffer, e.done = session[s].done,
           session[s].failed => e.failed, WaitersOK(e, s, main'.step),
           UNCHANGED <<lesson, mode, ran, repl>>, main' \in MainSet(lesson),
           Sent(main) <= Sent(main'), main.step <= main'.step,
           ControlOK(main'), OpenOK(main', session'), PassOK(main', session', ran, mode),
           CauseOK(main', session', causes', ran, mode)
    PROVE  Inv'
<1>1. /\ Sent(main) \in Int /\ Sent(main') \in Int /\ main.step \in Int /\ main'.step \in Int
  BY LessonsAssumption, LenProperties DEF Inv, Types, MainSet, Sent
<1>2. \A r \in Sessions : QueueOK(repl[r], r, Sent(main'), ran)
  <2> HIDE DEF Sent
  <2> QED
    BY <1>1, QueueGrows DEF Inv
<1>3. session' \in [Sessions -> SessionSet] /\ session'[s] = e
        /\ \A r \in Sessions \ {s} : session'[r] = session[r]
  BY DEF Inv, Types
<1>4. \A r \in Sessions : WaitersOK(session'[r], r, main'.step)
  BY <1>1, <1>3, WaitersGrow DEF Inv
<1>5. \A r \in Sessions : StreamOK(session'[r].buffer \o repl[r].stdout, ran, mode)
  BY <1>3 DEF Inv
<1>6. DoneOK(e, ran, mode)
  BY DEF Inv, DoneOK
<1>7. \A r \in Sessions : DoneOK(session'[r], ran, mode)
  BY <1>3, <1>6 DEF Inv
<1>8. repl' = repl /\ repl \in [Sessions -> ProcessSet]
  BY DEF Inv, Types
<1> QED
  BY <1>2, <1>3, <1>4, <1>5, <1>7, <1>8, MainStep

(* The time limit passes: the waiter is taken back, the lesson has failed. *)
LEMMA TimeOutInv ==
    ASSUME Inv, TimeOut
    PROVE  Inv'
<1> DEFINE s == Current
           c == session[s]
           e == [c EXCEPT !.waiters = @ \ {main.step}]
<1>1. /\ main.at = "await" /\ session' = [session EXCEPT ![s] = e]
      /\ main' = [main EXCEPT !.at = "next", !.ok = FALSE]
      /\ causes' = causes \cup {"timeout"} /\ UNCHANGED <<lesson, mode, ran, repl>>
  BY DEF TimeOut, Blame, Inv, Types
<1>2. s \in Sessions
  BY <1>1, MainFacts DEF Inv, ControlOK, Current
<1>3. c \in SessionSet /\ WaitersOK(c, s, main.step)
  BY <1>2 DEF Inv, Types
<1>4. /\ main' \in MainSet(lesson) /\ main'.at = "next" /\ main'.step = main.step
      /\ main'.ok = FALSE /\ main'.open = main.open
  BY <1>1, MainFacts DEF MainSet, Places
<1>5. /\ e \in SessionSet /\ e.buffer = c.buffer /\ e.done = c.done /\ e.started = c.started
      /\ e.failed = c.failed /\ e.pending = c.pending /\ e.waiters = c.waiters \ {main.step}
  BY <1>3 DEF SessionSet
<1> HIDE DEF e
<1>6. WaitersOK(e, s, main'.step)
  BY <1>3, <1>4, <1>5 DEF WaitersOK
<1>7. Sent(main) <= Sent(main') /\ main.step <= main'.step
  BY <1>1, <1>4, MainFacts DEF Sent
<1>8. ControlOK(main')
  BY <1>4 DEF ControlOK
<1>9. OpenOK(main', session')
  <2>1. \A r \in Sessions : session'[r].started = session[r].started
    BY <1>1, <1>5 DEF Inv, Types
  <2> QED
    BY <1>1, <1>4, <2>1, MainFacts DEF Inv, OpenOK
<1>10. PassOK(main', session', ran, mode) /\ CauseOK(main', session', causes', ran, mode)
  BY <1>1, <1>4 DEF PassOK, CauseOK, Cause
<1> HIDE DEF s
<1> QED
  BY <1>1, <1>2, <1>4, <1>5, <1>6, <1>7, <1>8, <1>9, <1>10, SessionMoves

(* Close reads what has come of the blocking steps.                        *)
LEMMA CollectInv ==
    ASSUME Inv, Collect
    PROVE  Inv'
<1> DEFINE s == main.open[1]
           c == session[s]
           e == [c EXCEPT !.pending = Tail(@)]
<1>1. /\ main.at = "close" /\ main.open # << >> /\ UNCHANGED <<lesson, mode, repl, ran, causes>>
  BY DEF Collect
<1>2. s \in Sessions /\ s \in ToSet(main.open)
  BY <1>1, MainFacts, ElementsTail
<1>3. c \in SessionSet /\ WaitersOK(c, s, main.step) /\ DoneOK(c, ran, mode)
  BY <1>2 DEF Inv, Types
<1>4. CASE /\ c.pending # << >> /\ Head(c.pending) \in DOMAIN c.done
           /\ session' = [session EXCEPT ![s].pending = Tail(@)] /\ UNCHANGED main
  <2>1. /\ Tail(c.pending) \in Seq(Nat) /\ Head(c.pending) = c.pending[1]
        /\ ToSet(c.pending) = {c.pending[1]} \cup ToSet(Tail(c.pending))
    BY <1>3, <1>4, ElementsTail DEF SessionSet
  <2>2. session' = [session EXCEPT ![s] = e]
    BY <1>4 DEF Inv, Types
  <2>3. /\ e \in SessionSet /\ e.buffer = c.buffer /\ e.done = c.done /\ e.started = c.started
        /\ e.failed = c.failed /\ e.pending = Tail(c.pending) /\ e.waiters = c.waiters
    BY <1>3, <2>1 DEF SessionSet
  <2> HIDE DEF e
  <2>4. main' = main
    BY <1>4
  <2>5. WaitersOK(e, s, main.step)
    BY <1>3, <2>1, <2>3 DEF WaitersOK
  <2>6. ControlOK(main) /\ main \in MainSet(lesson) /\ main.step \in Int /\ Sent(main) <= Sent(main)
    BY MainFacts DEF Inv, Sent
  <2>7. /\ session'[s] = e /\ \A r \in Sessions \ {s} : session'[r] = session[r]
        /\ \A r \in Sessions : /\ session'[r].started = session[r].started
                               /\ session'[r].failed = session[r].failed
    <3>1. session'[s] = e /\ \A r \in Sessions \ {s} : session'[r] = session[r]
      BY <1>2, <2>2 DEF Inv, Types
    <3>2. e.started = session[s].started /\ e.failed = session[s].failed
      BY <2>3
    <3> QED
      BY <3>1, <3>2
  <2>8. OpenOK(main, session')
    BY <1>1, <2>7, MainFacts DEF Inv, OpenOK
  <2>9. PassOK(main, session', ran, mode)
    <3> DEFINE n == c.pending[1]
    <3>1. n \in DOMAIN ran /\ Agrees(c.done[n], n, ran, mode) /\ (Fails(c.done[n]) => c.failed)
      BY <1>3, <1>4, <2>1 DEF DoneOK
    <3> SUFFICES ASSUME main.ok, NEW k \in 1 .. Settled(main)
                 PROVE  RanWell(k, ran, mode) \/ Owed(k, main, session')
      BY DEF PassOK
    <3>2. RanWell(k, ran, mode) \/ Owed(k, main, session)
      BY DEF Inv, PassOK
    <3>3. CASE lesson[k].session # s
      BY <2>7, <3>2, <3>3, MainFacts DEF Owed
    <3>4. CASE lesson[k].session = s /\ k # n
      <4>1. Owed(k, main, session) => k \in ToSet(e.pending) \/ e.failed
        BY <2>1, <2>3, <3>4 DEF Owed
      <4> QED
        BY <1>2, <2>7, <3>2, <3>4, <4>1 DEF Owed
    <3>5. CASE lesson[k].session = s /\ k = n
      <4>1. RanWell(n, ran, mode) \/ Fails(c.done[n])
        BY <3>1 DEF Agrees, RanWell, Fails
      <4>2. c.failed => e.failed
        BY <2>3
      <4> QED
        BY <1>2, <2>7, <3>1, <3>5, <4>1, <4>2 DEF Owed
    <3> QED
      BY <3>3, <3>4, <3>5
  <2>10. CauseOK(main, session', causes, ran, mode)
    BY <2>7 DEF Inv, CauseOK
  <2> HIDE DEF s
  <2>11. /\ causes' = causes /\ ControlOK(main') /\ main' \in MainSet(lesson)
         /\ main.step <= main'.step /\ Sent(main) <= Sent(main') /\ WaitersOK(e, s, main'.step)
         /\ OpenOK(main', session') /\ PassOK(main', session', ran, mode)
         /\ CauseOK(main', session', causes', ran, mode)
    BY <1>1, <2>4, <2>5, <2>6, <2>8, <2>9, <2>10
  <2>12. session[s].failed => e.failed
    BY <2>3
  <2> QED
    BY <1>1, <1>2, <2>2, <2>3, <2>11, <2>12, SessionMoves
<1>5. CASE c.pending = << >> /\ main' = [main EXCEPT !.at = "quit"] /\ UNCHANGED session
  <2>1. /\ main' \in MainSet(lesson) /\ main'.at = "quit" /\ main'.step = main.step
        /\ main'.ok = main.ok /\ main'.open = main.open
    BY <1>5, MainFacts DEF MainSet, Places
  <2>2. Sent(main) <= Sent(main') /\ main.step <= main'.step
    BY <1>1, <2>1, MainFacts DEF Sent
  <2>3. ControlOK(main') /\ OpenOK(main', session)
    BY <1>1, <1>5, <2>1 DEF Inv, ControlOK, OpenOK
  <2>4. PassOK(main', session, ran, mode)
    BY <1>1, <2>1 DEF Inv, PassOK, Settled, Owed
  <2>5. CauseOK(main', session, causes', ran, mode)
    BY <1>1, <2>1 DEF Inv, CauseOK
  <2> QED
    BY <1>1, <1>5, <2>1, <2>2, <2>3, <2>4, <2>5, MainMoves
<1> QED
  BY <1>4, <1>5 DEF Collect, Closing, Go

(* The deadline of Close passes: the session has failed.                   *)
LEMMA DeadlineInv ==
    ASSUME Inv, Deadline
    PROVE  Inv'
<1> DEFINE s == main.open[1]
           c == session[s]
           e == [c EXCEPT !.failed = TRUE]
<1>1. /\ main.at = "close" /\ main.open # << >> /\ UNCHANGED <<lesson, mode, ran, repl>>
      /\ session' = [session EXCEPT ![s] = e] /\ main' = [main EXCEPT !.at = "quit"]
      /\ causes' = causes \cup {"timeout"}
  BY DEF Deadline, Closing, Go, Blame, Inv, Types
<1>2. s \in Sessions
  BY <1>1, MainFacts, ElementsTail
<1>3. c \in SessionSet /\ WaitersOK(c, s, main.step)
  BY <1>2 DEF Inv, Types
<1>4. /\ main' \in MainSet(lesson) /\ main'.at = "quit" /\ main'.step = main.step
      /\ main'.ok = main.ok /\ main'.open = main.open
  BY <1>1, MainFacts DEF MainSet, Places
<1>5. /\ e \in SessionSet /\ e.buffer = c.buffer /\ e.done = c.done /\ e.started = c.started
      /\ e.failed = TRUE /\ e.pending = c.pending /\ e.waiters = c.waiters
  BY <1>3 DEF SessionSet
<1> HIDE DEF e
<1>6. WaitersOK(e, s, main'.step)
  BY <1>3, <1>4, <1>5 DEF WaitersOK
<1>7. Sent(main) <= Sent(main') /\ main.step <= main'.step
  BY <1>1, <1>4, MainFacts DEF Sent
<1>8. ControlOK(main')
  BY <1>1, <1>4 DEF Inv, ControlOK
<1>9. /\ session'[s] = e /\ \A r \in Sessions \ {s} : session'[r] = session[r]
      /\ \A r \in Sessions : /\ session'[r].started = session[r].started
                             /\ session'[r].pending = session[r].pending
                             /\ session[r].failed => session'[r].failed
  BY <1>1, <1>5 DEF Inv, Types
<1>10. OpenOK(main', session')
  BY <1>1, <1>4, <1>5, <1>9, MainFacts DEF Inv, OpenOK
<1>11. PassOK(main', session', ran, mode)
  <2>1. ASSUME NEW k, Owed(k, main, session) PROVE Owed(k, main', session')
    <3>1. lesson[k].session \in Sessions
      BY <2>1, MainFacts DEF Owed
    <3> QED
      BY <1>4, <1>9, <2>1, <3>1 DEF Owed
  <2> QED
    BY <1>1, <1>4, <2>1 DEF Inv, PassOK, Settled
<1>12. CauseOK(main', session', causes', ran, mode)
  BY <1>1 DEF CauseOK, Cause
<1> HIDE DEF s
<1>13. session[s].failed => e.failed
  BY <1>5
<1> QED
  BY <1>1, <1>2, <1>4, <1>5, <1>6, <1>7, <1>8, <1>10, <1>11, <1>12, <1>13, SessionMoves

(* The quit command is the end of the input.                               *)
LEMMA QuitInv ==
    ASSUME Inv, Quit
    PROVE  Inv'
<1> DEFINE s == main.open[1]
           p == repl[s]
           q == [p EXCEPT !.eof = TRUE]
<1>1. /\ main.at = "quit" /\ UNCHANGED <<lesson, mode, session, ran, causes>>
      /\ repl' = [repl EXCEPT ![s] = q] /\ main' = [main EXCEPT !.at = "reap"]
  BY DEF Quit, Closing, Go, Inv, Types
<1>2. s \in Sessions
  BY <1>1, MainFacts, ElementsTail DEF Inv, ControlOK
<1>3. /\ p \in ProcessSet /\ q \in ProcessSet /\ q.stdout = p.stdout /\ q.stdin = p.stdin
      /\ q.running = p.running
  BY <1>2 DEF Inv, Types, ProcessSet
<1> HIDE DEF q
<1>4. /\ main' \in MainSet(lesson) /\ main'.at = "reap" /\ main'.step = main.step
      /\ main'.ok = main.ok /\ main'.open = main.open
  BY <1>1, MainFacts DEF MainSet, Places
<1>5. Sent(main) = Sent(main') /\ Sent(main) <= Sent(main')
  BY <1>1, <1>4, MainFacts DEF Sent
<1>6. /\ repl' \in [Sessions -> ProcessSet]
      /\ \A r \in Sessions : /\ repl'[r].stdout = repl[r].stdout
                             /\ repl'[r].stdin = repl[r].stdin
                             /\ repl'[r].running = repl[r].running
  BY <1>1, <1>3 DEF Inv, Types
<1>7. \A r \in Sessions : StreamOK(session[r].buffer \o repl'[r].stdout, ran, mode)
  BY <1>6 DEF Inv
<1>8. \A r \in Sessions : QueueOK(repl'[r], r, Sent(main'), ran)
  BY <1>5, <1>6 DEF Inv, QueueOK
<1>9. \A r \in Sessions : DoneOK(session[r], ran, mode) /\ WaitersOK(session[r], r, main'.step)
  BY <1>4 DEF Inv
<1>10. ControlOK(main') /\ OpenOK(main', session)
  BY <1>1, <1>4 DEF Inv, ControlOK, OpenOK
<1>11. PassOK(main', session, ran, mode)
  BY <1>1, <1>4 DEF Inv, PassOK, Settled, Owed
<1>12. CauseOK(main', session, causes', ran, mode)
  BY <1>1, <1>4 DEF Inv, CauseOK
<1>13. session' = session /\ session \in [Sessions -> SessionSet]
  BY <1>1 DEF Inv, Types
<1> QED
  BY <1>1, <1>4, <1>5, <1>6, <1>7, <1>8, <1>9, <1>10, <1>11, <1>12, <1>13, MainStep

(* Two seconds later the process is killed.                                *)
LEMMA KillInv ==
    ASSUME Inv, Kill
    PROVE  Inv'
<1>1. /\ main.at = "reap" /\ Gone(Closing)
      /\ UNCHANGED <<lesson, mode, main, session, ran, causes>>
  BY DEF Kill
<1>2. Closing \in Sessions
  BY <1>1, MainFacts, ElementsTail DEF Inv, ControlOK, Closing
<1> QED
  BY <1>1, <1>2, GoneInv

(* The next step's session is started if need be, its waiter registered.   *)
LEMMA RegisterInv ==
    ASSUME Inv, Register
    PROVE  Inv'
<1> DEFINE n == main.step + 1
           s == lesson[n].session
           new == ~session[s].started
           base == IF new THEN NewSession ELSE session[s]
           w == base.waiters \cup {n}
           e == [base EXCEPT !.waiters = w]
           open == IF new THEN Append(main.open, s) ELSE main.open
           p == IF new THEN NewProcess ELSE repl[s]
<1>1. /\ main.at = "next" /\ main.ok /\ n \in 1 .. Len(lesson) /\ n - 1 = main.step
      /\ UNCHANGED <<lesson, mode, ran, causes>>
  BY MainFacts DEF Register
<1>2. s \in Sessions
  BY <1>1, MainFacts
<1>3. /\ main' = [main EXCEPT !.at = "write", !.step = n, !.open = open]
      /\ session' = [session EXCEPT ![s] = e]
      /\ repl' = [repl EXCEPT ![s] = p]
  <2>1. session \in [Sessions -> SessionSet] /\ repl \in [Sessions -> ProcessSet]
    BY DEF Inv, Types
  <2>2. main' = [main EXCEPT !.at = "write", !.step = n, !.open = open]
    BY DEF Register
  <2>3. session' = [session EXCEPT ![s] = e]
    BY DEF Register
  <2>4. repl' = [repl EXCEPT ![s] = p]
    <3>1. CASE new
      BY <3>1 DEF Register
    <3>2. CASE ~new
      <4>1. repl' = repl
        BY <3>2 DEF Register
      <4> QED
        BY <1>2, <2>1, <3>2, <4>1
    <3> QED
      BY <3>1, <3>2
  <2> QED
    BY <2>2, <2>3, <2>4
<1>4. Sent(main) = main.step /\ main.step \in Nat
  BY <1>1, MainFacts DEF Sent
<1>5. /\ base \in SessionSet /\ base.started = TRUE
      /\ DoneOK(base, ran, mode) /\ WaitersOK(base, s, main.step)
      /\ p \in ProcessSet /\ QueueOK(p, s, main.step, ran)
      /\ StreamOK(base.buffer \o p.stdout, ran, mode)
      /\ base.failed => session[s].failed
  <2>1. CASE new
    <3>1. /\ << >> \in Seq(Pieces) /\ << >> \in Seq(Nat) /\ << >> \in Seq({Noise})
          /\ << >> \in Statements /\ DOMAIN << >> = {}
          /\ Len(<< >>) = 0 /\ << >> \o << >> = << >>
      <4>1. << >> \in [{} -> Seq(Nat)] /\ {} \in SUBSET Nat
        OBVIOUS
      <4>2. << >> \in Statements
        BY <4>1 DEF Statements
      <4> QED
        BY <4>2
    <3>2. base = NewSession /\ p = NewProcess
      BY <2>1
    <3> HIDE DEF base, p
    <3>3. /\ base \in SessionSet /\ base.started = TRUE
          /\ base.buffer = << >> /\ base.waiters = {} /\ base.done = << >>
          /\ base.pending = << >> /\ base.failed = FALSE
      BY <3>1, <3>2 DEF NewSession, SessionSet
    <3>4. p \in ProcessSet /\ p.stdin = << >> /\ p.running = 0 /\ p.stdout = << >>
      BY <3>1, <3>2 DEF NewProcess, ProcessSet
    <3>5. DoneOK(base, ran, mode) /\ WaitersOK(base, s, main.step)
      BY <3>1, <3>3, NoElements DEF DoneOK, WaitersOK
    <3>6. QueueOK(p, s, main.step, ran)
      BY <3>1, <3>4 DEF QueueOK
    <3>7. StreamOK(base.buffer \o p.stdout, ran, mode)
      BY <3>1, <3>3, <3>4, EmptyStream
    <3> QED
      BY <3>3, <3>4, <3>5, <3>6, <3>7
  <2>2. CASE ~new
    <3>1. base = session[s] /\ p = repl[s]
      BY <2>2
    <3> HIDE DEF base, p
    <3>2. /\ base \in SessionSet /\ p \in ProcessSet
          /\ DoneOK(base, ran, mode) /\ WaitersOK(base, s, main.step)
          /\ QueueOK(p, s, main.step, ran) /\ StreamOK(base.buffer \o p.stdout, ran, mode)
      BY <1>2, <1>4, <3>1 DEF Inv, Types
    <3>3. base.started = TRUE
      <4>1. base.started /\ base.started \in BOOLEAN
        BY <2>2, <3>1, <3>2 DEF SessionSet
      <4> QED
        BY <4>1
    <3> QED
      BY <3>1, <3>2, <3>3
  <2> QED
    BY <2>1, <2>2
<1>6. ~new => base = session[s]
  OBVIOUS
<1>7. /\ open \in Seq(Sessions) /\ s \in ToSet(open)
      /\ ToSet(open) = ToSet(main.open) \cup {s}
      /\ new => s \notin ToSet(main.open)
  <2>1. s \in ToSet(main.open) <=> ~new
    BY <1>1, <1>2 DEF Inv, OpenOK
  <2>2. CASE new
    BY <1>2, <2>1, <2>2, MainFacts, ElementsAppend
  <2>3. CASE ~new
    BY <1>2, <2>1, <2>3, MainFacts
  <2> QED
    BY <2>1, <2>2, <2>3
<1> HIDE DEF base, open, p, new
<1>8. w \in SUBSET Nat
  BY <1>1, <1>4, <1>5 DEF SessionSet
<1>9. n \notin DOMAIN base.done
  <2>1. DOMAIN base.done \subseteq DOMAIN ran
    BY <1>5 DEF DoneOK
  <2>2. DOMAIN ran \subseteq 1 .. main.step
    BY <1>4 DEF Inv, RanOK
  <2>3. n \notin 1 .. main.step
    BY <1>4
  <2> QED
    BY <2>1, <2>2, <2>3
<1> HIDE DEF w
<1>10. /\ e \in SessionSet /\ e.started = TRUE /\ e.buffer = base.buffer /\ e.done = base.done
       /\ e.pending = base.pending /\ e.failed = base.failed /\ e.waiters = w
  BY <1>5, <1>8 DEF SessionSet
<1> HIDE DEF e
<1>11. WaitersOK(e, s, n)
  <2>1. WaitersOK(base, s, n)
    BY <1>1, <1>4, <1>5, WaitersGrow
  <2>2. n \in 1 .. n
    BY <1>1
  <2> QED
    BY <1>9, <1>10, <2>1, <2>2 DEF WaitersOK, w
<1>12. DoneOK(e, ran, mode)
  BY <1>5, <1>10 DEF DoneOK
<1> HIDE DEF n
<1>13. /\ main' \in MainSet(lesson) /\ main'.at = "write" /\ main'.step = n
       /\ main'.ok = main.ok /\ main'.open = open
  <2>1. n \in 0 .. Len(lesson)
    BY <1>1
  <2> QED
    BY <1>3, <1>7, <2>1, MainFacts DEF MainSet, Places
<1>14. Sent(main') = main.step /\ Sent(main) <= Sent(main') /\ main.step \in Int /\ n \in Int
         /\ main.step <= n
  BY <1>1, <1>4, <1>13 DEF Sent
<1> HIDE DEF s
<1>15. /\ session' \in [Sessions -> SessionSet] /\ repl' \in [Sessions -> ProcessSet]
       /\ session'[s] = e /\ \A r \in Sessions \ {s} : session'[r] = session[r]
       /\ repl'[s] = p /\ \A r \in Sessions \ {s} : repl'[r] = repl[r]
  BY <1>2, <1>3, <1>5, <1>10 DEF Inv, Types
<1>16. \A r \in Sessions : StreamOK(session'[r].buffer \o repl'[r].stdout, ran, mode)
  BY <1>5, <1>10, <1>15 DEF Inv
<1>17. \A r \in Sessions : QueueOK(repl'[r], r, Sent(main'), ran)
  BY <1>4, <1>5, <1>14, <1>15 DEF Inv
<1>18. \A r \in Sessions : DoneOK(session'[r], ran, mode)
  BY <1>12, <1>15 DEF Inv
<1>19. \A r \in Sessions : WaitersOK(session'[r], r, main'.step)
  BY <1>11, <1>13, <1>14, <1>15, WaitersGrow DEF Inv
<1>20. ControlOK(main')
  BY <1>1, <1>7, <1>13 DEF ControlOK, s
<1>21. OpenOK(main', session')
  <2>1. /\ \A r \in ToSet(main.open) : session[r].started
        /\ \A r \in Sessions : session[r].started => r \in ToSet(main.open)
    BY <1>1 DEF Inv, OpenOK
  <2>2. \A r \in ToSet(open) : session'[r].started
    <3> SUFFICES ASSUME NEW r \in ToSet(open) PROVE session'[r].started
      OBVIOUS
    <3>1. CASE r = s
      BY <1>10, <1>15, <3>1
    <3>2. CASE r # s
      <4>1. r \in ToSet(main.open) /\ r \in Sessions
        BY <1>7, <3>2, MainFacts
      <4> QED
        BY <1>15, <2>1, <3>2, <4>1
    <3> QED
      BY <3>1, <3>2
  <2>3. \A r \in Sessions : session'[r].started => r \in ToSet(open)
    BY <1>7, <1>15, <2>1
  <2> QED
    BY <1>13, <2>2, <2>3 DEF OpenOK
<1>22. PassOK(main', session', ran, mode)
  <2>1. Settled(main') = main.step /\ Settled(main) = main.step
    BY <1>1, <1>13 DEF Settled
  <2>2. ASSUME NEW k, Owed(k, main, session) PROVE Owed(k, main', session')
    <3> DEFINE r == lesson[k].session
    <3>1. /\ r \in ToSet(main.open) /\ r \in Sessions
          /\ k \in ToSet(session[r].pending) \/ session[r].failed
      BY <2>2, MainFacts DEF Owed
    <3>2. session'[r].pending = session[r].pending /\ session'[r].failed = session[r].failed
      <4>1. CASE r # s
        BY <1>15, <3>1, <4>1
      <4>2. CASE r = s
        <5>1. base = session[s]
          BY <1>6, <1>7, <3>1, <4>2
        <5> QED
          BY <1>10, <1>15, <4>2, <5>1
      <4> QED
        BY <4>1, <4>2
    <3> HIDE DEF r
    <3>3. r \in ToSet(open) /\ (k \in ToSet(session'[r].pending) \/ session'[r].failed)
      BY <1>7, <3>1, <3>2
    <3> QED
      BY <1>13, <3>3 DEF Owed, r
  <2> QED
    BY <1>1, <2>1, <2>2 DEF Inv, PassOK
<1>23. CauseOK(main', session', causes', ran, mode)
  <2>1. \A r \in Sessions : session'[r].failed => session[r].failed
    BY <1>5, <1>10, <1>15
  <2> QED
    BY <1>1, <1>2, <1>13, <2>1 DEF Inv, CauseOK
<1> QED
  BY <1>1, <1>13, <1>14, <1>15, <1>16, <1>17, <1>18, <1>19, <1>20, <1>21, <1>22, <1>23, MainStep

(* A step that is written comes last in the process's input.               *)
LEMMA QueueAppends ==
    ASSUME NEW s, NEW n \in Nat \ {0}, NEW p \in ProcessSet, QueueOK(p, s, n - 1, ran),
           ToRun(n, s, n, ran),
           NEW q, q.stdin = Append(p.stdin, n), q.running = p.running
    PROVE  QueueOK(q, s, n, ran)
<1> DEFINE l == Len(p.stdin)
           t == q.stdin
<1>1. /\ p.stdin \in Seq(Nat) /\ l \in Nat /\ p.running \in Nat
      /\ \A i \in 1 .. l : p.stdin[i] \in Nat
  BY LenProperties, ElementOfSeq DEF ProcessSet
<1>2. /\ Len(t) = l + 1 /\ t[l + 1] = n /\ \A i \in 1 .. l : t[i] = p.stdin[i]
  BY <1>1, AppendProperties
<1>3. QueueOK(p, s, n, ran)
  <2>1. n - 1 \in Int /\ n \in Int /\ n - 1 <= n
    OBVIOUS
  <2> QED
    BY <2>1, QueueGrows
<1>4. /\ \A i \in 1 .. l : ToRun(p.stdin[i], s, n, ran) /\ p.running < p.stdin[i]
      /\ \A i, j \in 1 .. l : i < j => p.stdin[i] < p.stdin[j]
      /\ p.running # 0 => ToRun(p.running, s, n, ran)
  BY <1>3 DEF QueueOK
<1>5. \A i \in 1 .. l : p.stdin[i] < n
  BY <1>1 DEF QueueOK, ToRun
<1>6. p.running < n
  BY <1>1 DEF QueueOK, ToRun
<1> HIDE DEF l, t
<1>7. \A i \in 1 .. l + 1 : i \in 1 .. l \/ i = l + 1
  BY <1>1
<1>8. \A i \in 1 .. l + 1 : ToRun(t[i], s, n, ran) /\ q.running < t[i]
  BY <1>2, <1>4, <1>6, <1>7
<1>9. ASSUME NEW i \in 1 .. l + 1, NEW j \in 1 .. l + 1, i < j PROVE t[i] < t[j]
  <2>1. i \in 1 .. l
    BY <1>1, <1>9
  <2>2. CASE j = l + 1
    BY <1>2, <1>5, <2>1, <2>2
  <2>3. CASE j # l + 1
    BY <1>2, <1>4, <1>7, <1>9, <2>1, <2>3
  <2> QED
    BY <2>2, <2>3
<1>10. q.running # 0 => ToRun(q.running, s, n, ran)
  BY <1>4
<1> QED
  BY <1>2, <1>8, <1>9, <1>10 DEF QueueOK, t

(* The step is written to its session's process, if that still lives; a    *)
(* step that blocks is left for Close.                                     *)
LEMMA WriteStepInv ==
    ASSUME Inv, WriteStep
    PROVE  Inv'
<1> DEFINE n == main.step
           s == Current
           c == session[s]
           p == repl[s]
           grown == Append(p.stdin, n)
           q == IF p.alive THEN [p EXCEPT !.stdin = grown] ELSE p
           blocks == lesson[n].blocks
           e == IF blocks THEN [c EXCEPT !.pending = Append(@, n)] ELSE c
           at == IF blocks THEN "next" ELSE "await"
<1>1. main.at = "write" /\ UNCHANGED <<lesson, mode, ran, causes>>
  BY DEF WriteStep
<1>2. /\ n \in 1 .. Len(lesson) /\ n \in Nat \ {0} /\ n \in Int /\ main.ok = TRUE
      /\ s \in ToSet(main.open) /\ s \in Sessions /\ lesson[n].session = s
      /\ Len(lesson) \in Nat
  BY <1>1, MainFacts DEF Inv, ControlOK, Current
<1>3. Sent(main) = n - 1
  BY <1>1 DEF Sent
<1>4. /\ c \in SessionSet /\ WaitersOK(c, s, n) /\ DoneOK(c, ran, mode)
      /\ p \in ProcessSet /\ QueueOK(p, s, n - 1, ran)
      /\ StreamOK(c.buffer \o p.stdout, ran, mode)
  BY <1>2, <1>3 DEF Inv, Types
<1>5. /\ session \in [Sessions -> SessionSet] /\ repl \in [Sessions -> ProcessSet]
  BY DEF Inv, Types
<1>6. main' = [main EXCEPT !.at = at]
  BY DEF WriteStep, Go
<1>7. repl' = [repl EXCEPT ![s] = q]
  <2>1. CASE p.alive
    BY <2>1 DEF WriteStep
  <2>2. CASE ~p.alive
    <3>1. repl' = repl /\ q = repl[s]
      BY <2>2 DEF WriteStep
    <3> HIDE DEF q, s
    <3> QED
      BY <1>2, <1>5, <3>1
  <2> QED
    BY <2>1, <2>2
<1>8. session' = [session EXCEPT ![s] = e]
  <2>1. CASE blocks
    BY <2>1 DEF WriteStep
  <2>2. CASE ~blocks
    <3>1. session' = session /\ e = session[s]
      BY <2>2 DEF WriteStep
    <3> HIDE DEF e, s
    <3> QED
      BY <1>2, <1>5, <3>1
  <2> QED
    BY <2>1, <2>2
<1>9. q \in ProcessSet /\ q.stdout = p.stdout /\ QueueOK(q, s, n, ran)
  <2>1. ToRun(n, s, n, ran)
    <3>1. DOMAIN ran \subseteq 1 .. n - 1
      BY <1>3 DEF Inv, RanOK
    <3> QED
      BY <1>2, <3>1 DEF ToRun
  <2>2. CASE p.alive
    <3>1. grown \in Seq(Nat)
      BY <1>2, <1>4, AppendProperties DEF ProcessSet
    <3> HIDE DEF grown, n, s
    <3>2. /\ q \in ProcessSet /\ q.stdout = p.stdout /\ q.stdin = grown
          /\ q.running = p.running
      BY <1>4, <2>2, <3>1 DEF ProcessSet
    <3> HIDE DEF q, p
    <3>3. QueueOK(q, s, n, ran)
      BY <1>2, <1>4, <2>1, <3>2, QueueAppends DEF grown
    <3> QED
      BY <3>2, <3>3
  <2>3. CASE ~p.alive
    <3>1. q = p
      BY <2>3
    <3> HIDE DEF q, p, n, s
    <3>2. n - 1 \in Int /\ n - 1 <= n
      BY <1>2
    <3>3. QueueOK(p, s, n, ran)
      BY <1>2, <1>4, <3>2, QueueGrows
    <3> QED
      BY <1>4, <3>1, <3>3
  <2> QED
    BY <2>2, <2>3
<1>10. /\ e \in SessionSet /\ e.buffer = c.buffer /\ e.done = c.done
       /\ e.started = c.started /\ e.failed = c.failed /\ e.waiters = c.waiters
       /\ ToSet(e.pending) = IF blocks THEN ToSet(c.pending) \cup {n} ELSE ToSet(c.pending)
  <2>1. CASE blocks
    <3> DEFINE more == Append(c.pending, n)
    <3>1. c.pending \in Seq(Nat)
      BY <1>4 DEF SessionSet
    <3>2. more \in Seq(Nat) /\ ToSet(more) = ToSet(c.pending) \cup {n}
      BY <1>2, <3>1, AppendProperties, ElementsAppend
    <3>3. e = [c EXCEPT !.pending = more]
      BY <2>1
    <3> HIDE DEF more, e, n, s, c, blocks
    <3>4. /\ e \in SessionSet /\ e.buffer = c.buffer /\ e.done = c.done
          /\ e.started = c.started /\ e.failed = c.failed /\ e.waiters = c.waiters
          /\ e.pending = more
      BY <1>4, <3>2, <3>3 DEF SessionSet
    <3> QED
      BY <2>1, <3>2, <3>4
  <2>2. CASE ~blocks
    <3>1. e = c
      BY <2>2
    <3> HIDE DEF e, n, s, c, blocks
    <3> QED
      BY <1>4, <2>2, <3>1
  <2> QED
    BY <2>1, <2>2
<1>11. at \in {"next", "await"} /\ (at = "next" <=> blocks)
  OBVIOUS
<1> HIDE DEF n, s, q, e, grown, at, p, c
<1>12. /\ main' \in MainSet(lesson) /\ main'.at = at /\ main'.step = n
       /\ main'.ok = TRUE /\ main'.open = main.open
  BY <1>2, <1>6, <1>11, MainFacts DEF MainSet, Places, n
<1>13. Sent(main') = n /\ Sent(main) <= Sent(main')
  BY <1>2, <1>3, <1>11, <1>12 DEF Sent
<1>14. /\ session' \in [Sessions -> SessionSet] /\ repl' \in [Sessions -> ProcessSet]
       /\ session'[s] = e /\ \A r \in Sessions \ {s} : session'[r] = session[r]
       /\ repl'[s] = q /\ \A r \in Sessions \ {s} : repl'[r] = repl[r]
  BY <1>2, <1>5, <1>7, <1>8, <1>9, <1>10
<1>15. \A r \in Sessions : StreamOK(session'[r].buffer \o repl'[r].stdout, ran, mode)
  BY <1>4, <1>9, <1>10, <1>14 DEF Inv
<1>16. \A r \in Sessions : QueueOK(repl'[r], r, Sent(main'), ran)
  <2>1. \A r \in Sessions : QueueOK(repl[r], r, n - 1, ran)
    BY <1>3 DEF Inv
  <2>2. n - 1 \in Int /\ n - 1 <= n
    BY <1>2
  <2>3. \A r \in Sessions : QueueOK(repl[r], r, n, ran)
    BY <1>2, <2>1, <2>2, QueueGrows
  <2> QED
    BY <1>9, <1>13, <1>14, <2>3
<1>17. \A r \in Sessions : DoneOK(session'[r], ran, mode)
  <2>1. DoneOK(e, ran, mode)
    BY <1>4, <1>10 DEF DoneOK
  <2> QED
    BY <1>14, <2>1 DEF Inv
<1>18. \A r \in Sessions : WaitersOK(session'[r], r, main'.step)
  <2>1. WaitersOK(e, s, n)
    BY <1>2, <1>4, <1>10 DEF WaitersOK
  <2> QED
    BY <1>12, <1>14, <2>1 DEF Inv, n
<1>19. ControlOK(main')
  BY <1>2, <1>11, <1>12 DEF ControlOK
<1>20. \A r \in Sessions : /\ session'[r].started = session[r].started
                           /\ session'[r].failed = session[r].failed
                           /\ ToSet(session[r].pending) \subseteq ToSet(session'[r].pending)
  <2>1. /\ e.started = session[s].started /\ e.failed = session[s].failed
        /\ ToSet(session[s].pending) \subseteq ToSet(e.pending)
    BY <1>10 DEF c
  <2> QED
    BY <1>14, <2>1
<1>21. OpenOK(main', session')
  BY <1>1, <1>11, <1>12, <1>20, MainFacts DEF Inv, OpenOK
<1>22. PassOK(main', session', ran, mode)
  <2>1. Settled(main) = n - 1
    BY <1>1 DEF Settled, n
  <2>2. Settled(main') = IF blocks THEN n ELSE n - 1
    BY <1>11, <1>12 DEF Settled
  <2> SUFFICES ASSUME NEW k \in 1 .. Settled(main')
               PROVE  RanWell(k, ran, mode) \/ Owed(k, main', session')
    BY DEF PassOK
  <2>3. CASE k \in 1 .. n - 1
    <3>1. RanWell(k, ran, mode) \/ Owed(k, main, session)
      BY <1>2, <2>1, <2>3 DEF Inv, PassOK
    <3>2. Owed(k, main, session) => Owed(k, main', session')
      BY <1>1, <1>12, <1>20, MainFacts DEF Owed
    <3> QED
      BY <3>1, <3>2
  <2>4. CASE k = n /\ blocks
    BY <1>1, <1>2, <1>10, <1>12, <1>14, <2>4 DEF Owed
  <2> QED
    BY <1>2, <2>2, <2>3, <2>4
<1>23. CauseOK(main', session', causes', ran, mode)
  BY <1>1, <1>2, <1>12, <1>20 DEF Inv, CauseOK
<1> QED
  BY <1>1, <1>12, <1>13, <1>14, <1>15, <1>16, <1>17, <1>18, <1>19, <1>21, <1>22, <1>23, MainStep

(* A step that changes nothing, the last one of all included.              *)
LEMMA StutterInv ==
    ASSUME Inv, UNCHANGED vars
    PROVE  Inv'
<1>1. /\ main \in MainSet(lesson) /\ UNCHANGED <<lesson, mode, ran, session, repl, causes>>
      /\ main' = main
  BY MainFacts DEF vars
<1>2. Sent(main) <= Sent(main') /\ main.step <= main'.step
  BY <1>1, MainFacts DEF Sent
<1> QED
  BY <1>1, <1>2, MainMoves DEF Inv

(* Every step keeps the invariant.                                         *)
LEMMA NextInv ==
    ASSUME Inv, [Next]_vars
    PROVE  Inv'
<1>1. CASE Main
  BY <1>1, RegisterInv, CannotStartInv, WriteStepInv, ReceiveInv, TimeOutInv, LastStepInv,
     CollectInv, DeadlineInv, QuitInv, KillInv, ReapInv, VerdictInv DEF Main
<1>2. CASE Ended
  BY <1>2, StutterInv DEF Ended
<1>3. CASE \E s \in Sessions : Process(s) \/ ChildEnds(s)
  BY <1>3, ReadStepInv, OtherProcessInv, FinishInv DEF Process
<1>4. CASE \E s \in Sessions : Pump(s, "stdout") \/ Pump(s, "stderr")
  BY <1>4, PumpInv
<1>5. CASE UNCHANGED vars
  BY <1>5, StutterInv
<1> QED
  BY <1>1, <1>2, <1>3, <1>4, <1>5 DEF Next

-----------------------------------------------------------------------------
(* What follows for every behaviour.                                       *)

(* The inductive invariant holds throughout, unless the lesson is skipped. *)
THEOREM Invariance == Spec => [](Inv \/ Skipped)
<1>1. Init => Inv \/ Skipped
  BY InitInv, InitModes
<1>2. (Inv \/ Skipped) /\ [Next]_vars => (Inv \/ Skipped)'
  BY NextInv, SkippedStays
<1> QED
  BY <1>1, <1>2, PTL DEF Spec

(* What the goroutines share is consistent: no step is waited for and done *)
(* at once, what a session waits for was sent to it, a pending step blocks.*)
THEOREM TypeCorrectness == Spec => []TypeOK
<1>1. Inv => TypeOK
  <2> SUFFICES ASSUME Inv PROVE TypeOK
    OBVIOUS
  <2>1. main.at \in Places /\ main.step \in 0 .. Len(lesson) /\ main.ok \in BOOLEAN
    BY DEF Inv, Types
  <2>2. ASSUME NEW s \in Sessions
        PROVE  /\ session[s].waiters \cap DOMAIN session[s].done = {}
               /\ \A n \in session[s].waiters \cup ToSet(session[s].pending) :
                     lesson[n].session = s
               /\ \A n \in ToSet(session[s].pending) : lesson[n].blocks
    BY DEF Inv, WaitersOK
  <2>3. ASSUME NEW s \in Sessions PROVE repl[s].running \in {0} \cup Steps
    <3>1. repl[s].running # 0 => repl[s].running \in 1 .. Sent(main)
      BY DEF Inv, QueueOK, ToRun
    <3>2. 1 .. Sent(main) \subseteq Steps
      <4>1. lesson \in Seq([session : Sessions, blocks : BOOLEAN])
        BY LessonsAssumption DEF Inv, Types
      <4>2. Steps = 1 .. Len(lesson) /\ Len(lesson) \in Nat
        BY <4>1, LenProperties DEF Steps
      <4> QED
        BY <2>1, <4>2 DEF Sent
    <3> QED
      BY <3>1, <3>2
  <2> QED
    BY <2>1, <2>2, <2>3 DEF TypeOK, Places
<1>2. Skipped => TypeOK
  <2> SUFFICES ASSUME Skipped PROVE TypeOK
    OBVIOUS
  <2>1. Len(lesson) \in Nat
    BY LessonsAssumption, LenProperties DEF Skipped
  <2>2. main.at = "end" /\ main.step \in 0 .. Len(lesson) /\ main.ok \in BOOLEAN
    BY <2>1 DEF Skipped
  <2>3. ASSUME NEW s \in Sessions
        PROVE  /\ session[s].waiters = {} /\ ToSet(session[s].pending) = {}
               /\ repl[s].running = 0
    BY NoElements DEF Skipped, NotStarted, NewSession, NoProcess, NewProcess
  <2> QED
    BY <2>2, <2>3 DEF TypeOK
<1> QED
  BY <1>1, <1>2, Invariance, PTL

(* A lesson that is run and passes has run every step to its end, in shell *)
(* mode with status zero, however reads are cut and mixed and timers fire. *)
THEOREM PassesRan == Spec => []PassMeansRan
<1>1. Inv => PassMeansRan
  <2> SUFFICES ASSUME Inv, main.at = "end", main.ok, NEW n \in Steps
               PROVE  n \in DOMAIN ran /\ (mode = "shell" => ran[n] = Zero)
    BY DEF PassMeansRan
  <2>1. lesson \in Seq([session : Sessions, blocks : BOOLEAN])
    BY LessonsAssumption DEF Inv, Types
  <2>2. n \in 1 .. Len(lesson)
    BY <2>1, LenProperties DEF Steps
  <2>3. main.open = << >> /\ main.step = Len(lesson)
    BY DEF Inv, ControlOK
  <2>4. Settled(main) = Len(lesson)
    BY <2>3 DEF Settled
  <2>5. RanWell(n, ran, mode) \/ Owed(n, main, session)
    BY <2>2, <2>4 DEF Inv, PassOK
  <2>6. ~Owed(n, main, session)
    BY <2>3, NoElements DEF Owed
  <2> QED
    BY <2>5, <2>6 DEF RanWell
<1>2. Skipped => PassMeansRan
  BY DEF Skipped, PassMeansRan
<1> QED
  BY <1>1, <1>2, Invariance, PTL

(* A lesson fails only for a cause: a time limit, a session that did not   *)
(* start, or a step that ended with a status other than zero.              *)
THEOREM FailuresHaveCauses == Spec => []FailMeansCause
<1>1. Inv => FailMeansCause
  BY DEF Inv, CauseOK, Cause, FailMeansCause
<1>2. Skipped => FailMeansCause
  BY DEF Skipped, FailMeansCause
<1> QED
  BY <1>1, <1>2, Invariance, PTL
=============================================================================
