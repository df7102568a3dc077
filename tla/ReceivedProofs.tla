--------------------------- MODULE ReceivedProofs ---------------------------
(***************************************************************************)
(* Proof that what a component took from the outside world is kept         *)
(* (ReceivedIsKept of Components).                                         *)
(*                                                                         *)
(* The argument: messages are numbered as they are fetched, and travel in  *)
(* unbroken runs.  Each result in the channel carries the run after the    *)
(* one before it, what is held is the run before the channel's, and what   *)
(* was sent the run before that.  Steps move an end of a run: a worker     *)
(* appends to the channel, process() moves its first result to what is     *)
(* held and the first message held to the out-edge.  A server or a file    *)
(* reader may push new data past what it holds, so of its chunks only the  *)
(* set and the number are kept, and the channel alone is a run.            *)
(***************************************************************************)
EXTENDS AnswerProofs, WellFoundedInduction

-----------------------------------------------------------------------------
(* Runs: what is fetched is numbered, and travels in unbroken runs.        *)

\* The messages after the a-th, up to the b-th.
Run(a, b) == [k \in 1..(b - a) |-> <<1, a + k, 1>>]

\* What a run holds.
LEMMA RunAt ==
    ASSUME NEW a \in Nat, NEW b \in Nat, a <= b
    PROVE  /\ Run(a, b) \in Seq(Triple) /\ Len(Run(a, b)) = b - a
           /\ \A k \in 1..(b - a) : Run(a, b)[k] = <<1, a + k, 1>>
<1>1. b - a \in Nat  OBVIOUS
<1>2. \A k \in 1..(b - a) : <<1, a + k, 1>> \in Triple  BY DEF Triple
<1>3. Run(a, b) \in [1..(b - a) -> Triple]  BY <1>2 DEF Run
<1>. QED  BY <1>1, <1>3, LenProperties DEF Run

\* A vector with the items of a run is the run.
LEMMA IsRun ==
    ASSUME NEW a \in Nat, NEW b \in Nat, a <= b, NEW s \in Seq(Triple), Len(s) = b - a,
           \A k \in 1..(b - a) : s[k] = <<1, a + k, 1>>
    PROVE  s = Run(a, b)
<1> DEFINE r == Run(a, b)
<1>1. r \in Seq(Triple) /\ Len(r) = b - a /\ \A k \in 1..(b - a) : r[k] = <<1, a + k, 1>>
  BY RunAt
<1> HIDE DEF r
<1>2. \A k \in 1..Len(s) : s[k] = r[k]  BY <1>1
<1>3. s = r  BY <1>1, <1>2, SeqEqual
<1>. QED  BY <1>3 DEF r

\* Nothing is a run, and a run of nothing is one that ends where it starts.
LEMMA EmptyRun ==
    /\ \A a \in Nat : Run(a, a) = <<>>
    /\ \A a, b \in Nat : a <= b /\ Run(a, b) = <<>> => a = b
<1>1. ASSUME NEW a \in Nat PROVE Run(a, a) = <<>>
  <2>1. Run(a, a) \in Seq(Triple) /\ Len(Run(a, a)) = 0  BY RunAt
  <2>. QED  BY <2>1, EmptySeq
<1>2. ASSUME NEW a \in Nat, NEW b \in Nat, a <= b, Run(a, b) = <<>> PROVE a = b
  <2>1. Len(Run(a, b)) = b - a  BY <1>2, RunAt
  <2>2. Len(<<>>) = 0  OBVIOUS
  <2>3. b - a = 0  BY <1>2, <2>1, <2>2
  <2>. QED  BY <2>3
<1>. QED  BY <1>1, <1>2

\* A run and the one after it.
LEMMA RunConcat ==
    ASSUME NEW a \in Nat, NEW b \in Nat, NEW c \in Nat, a <= b, b <= c
    PROVE  Run(a, b) \o Run(b, c) = Run(a, c)
<1> DEFINE s == Run(a, b)  t == Run(b, c)
<1>1. /\ s \in Seq(Triple) /\ Len(s) = b - a /\ \A k \in 1..(b - a) : s[k] = <<1, a + k, 1>>
      /\ t \in Seq(Triple) /\ Len(t) = c - b /\ \A k \in 1..(c - b) : t[k] = <<1, b + k, 1>>
  BY RunAt
<1> HIDE DEF s, t
<1> DEFINE u == s \o t
<1>2. /\ u \in Seq(Triple) /\ Len(u) = Len(s) + Len(t)
      /\ \A i \in 1..(Len(s) + Len(t)) : u[i] = IF i <= Len(s) THEN s[i] ELSE t[i - Len(s)]
  BY <1>1, ConcatProperties
<1> HIDE DEF u
<1>3. Len(u) = c - a /\ a <= c  BY <1>1, <1>2
<1>4. ASSUME NEW k \in 1..(c - a) PROVE u[k] = <<1, a + k, 1>>
  <2>1. CASE k <= b - a  BY <1>1, <1>2, <2>1
  <2>2. CASE k > b - a
    <3>1. k - (b - a) \in 1..(c - b) /\ b + (k - (b - a)) = a + k  BY <2>2
    <3>2. u[k] = t[k - (b - a)]  BY <1>1, <1>2, <2>2
    <3>. QED  BY <1>1, <3>1, <3>2
  <2>. QED  BY <2>1, <2>2
<1>5. u = Run(a, c)  BY <1>2, <1>3, <1>4, IsRun
<1>. QED  BY <1>5 DEF u, s, t

\* The first message of a run, and the rest.
LEMMA RunTail ==
    ASSUME NEW a \in Nat, NEW b \in Nat, a <= b, Run(a, b) # <<>>
    PROVE  a + 1 <= b /\ Head(Run(a, b)) = <<1, a + 1, 1>> /\ Tail(Run(a, b)) = Run(a + 1, b)
<1> DEFINE s == Run(a, b)
<1>1. s \in Seq(Triple) /\ s # <<>> /\ Len(s) = b - a /\ \A k \in 1..(b - a) : s[k] = <<1, a + k, 1>>
  BY RunAt
<1> HIDE DEF s
<1>2. /\ Len(s) \in Nat \ {0} /\ Head(s) = s[1] /\ Tail(s) \in Seq(Triple) /\ Len(Tail(s)) = Len(s) - 1
      /\ \A i \in 1..Len(Tail(s)) : Tail(s)[i] = s[i + 1] /\ i + 1 \in 1..Len(s)
  BY <1>1, TailAt
<1>3. a + 1 <= b /\ a + 1 \in Nat  BY <1>1, <1>2
<1>4. ASSUME NEW k \in 1..(b - (a + 1)) PROVE Tail(s)[k] = <<1, (a + 1) + k, 1>>
  <2>1. k \in 1..Len(Tail(s)) /\ a + (k + 1) = (a + 1) + k  BY <1>1, <1>2
  <2>. QED  BY <1>1, <1>2, <2>1
<1>5. Len(Tail(s)) = b - (a + 1)  BY <1>1, <1>2
<1>6. Tail(s) = Run(a + 1, b)  BY <1>2, <1>3, <1>4, <1>5, IsRun
<1>7. Head(s) = <<1, a + 1, 1>>  BY <1>1, <1>2, <1>3
<1>. QED  BY <1>3, <1>6, <1>7 DEF s

\* A run with the next message.
LEMMA RunAppend ==
    ASSUME NEW a \in Nat, NEW b \in Nat, a <= b
    PROVE  Append(Run(a, b), <<1, b + 1, 1>>) = Run(a, b + 1)
<1> DEFINE s == Run(a, b)  x == <<1, b + 1, 1>>
<1>1. s \in Seq(Triple) /\ Len(s) = b - a /\ \A k \in 1..(b - a) : s[k] = <<1, a + k, 1>>
  BY RunAt
<1>2. x \in Triple  BY DEF Triple
<1> HIDE DEF s, x
<1> DEFINE u == Append(s, x)
<1>3. /\ u \in Seq(Triple) /\ Len(u) = Len(s) + 1
      /\ \A i \in 1..Len(s) : u[i] = s[i]
      /\ u[Len(s) + 1] = x
  BY <1>1, <1>2, AppendAt
<1> HIDE DEF u
<1>4. Len(u) = (b + 1) - a /\ a <= b + 1 /\ b + 1 \in Nat  BY <1>1, <1>3
<1>5. ASSUME NEW k \in 1..((b + 1) - a) PROVE u[k] = <<1, a + k, 1>>
  <2>1. CASE k <= b - a  BY <1>1, <1>3, <2>1
  <2>2. CASE k > b - a
    <3>1. k = Len(s) + 1 /\ a + k = b + 1  BY <1>1, <2>2
    <3>. QED  BY <1>3, <3>1 DEF x
  <2>. QED  BY <2>1, <2>2
<1>6. u = Run(a, b + 1)  BY <1>3, <1>4, <1>5, IsRun
<1>. QED  BY <1>6 DEF u, s, x

-----------------------------------------------------------------------------
(* A channel of runs.  Least elements stand in for induction on its length. *)

Less == {p \in Nat \X Nat : p[1] < p[2]}

\* The order of the naturals as a set of pairs is well-founded.
LEMMA LessWellFounded == IsWellFoundedOn(Less, Nat)
BY NatLessThanWellFounded, Zenon DEF OpToRel, Less

\* A non-empty set of naturals has a least element.
LEMMA LeastElement ==
    ASSUME NEW T, T \subseteq Nat, T # {}
    PROVE  \E m \in T : \A y \in T : m <= y
<1>1. PICK m \in T : \A y \in T : ~(<<y, m>> \in Less)  BY LessWellFounded, WFMin
<1>2. ASSUME NEW y \in T PROVE m <= y
  <2>1. ASSUME y < m PROVE <<y, m>> \in Less
    <3>1. <<y, m>> \in Nat \X Nat /\ <<y, m>>[1] = y /\ <<y, m>>[2] = m  OBVIOUS
    <3>. QED  BY <2>1, <3>1 DEF Less
  <2>. QED  BY <1>1, <2>1
<1>. QED  BY <1>2

\* FlattenSeq of runs that follow each other is the run of them all.
LEMMA FlattenRuns ==
    ASSUME NEW s, NEW n \in Nat \ {0}, Len(s) = n, NEW first \in [1..(n + 1) -> Nat],
           \A i, j \in 1..(n + 1) : i <= j => first[i] <= first[j],
           \A i \in 1..n : s[i] = Run(first[i], first[i + 1])
    PROVE  SeqExt!FlattenSeq(s) = Run(first[1], first[n + 1])
<1> DEFINE Eq(f) == f = [i \in 1..n |-> IF i = 1 THEN s[i] ELSE f[i - 1] \o s[i]]
           g == [i \in 1..n |-> Run(first[1], first[i + 1])]
<1>1. SeqExt!FlattenSeq(s) = (CHOOSE f : Eq(f))[n]
  BY DEF SeqExt!FlattenSeq
<1>2. \A i \in 1..n : g[i] = Run(first[1], first[i + 1])  OBVIOUS
<1>3. ASSUME NEW i \in 1..n, i # 1 PROVE g[i] = g[i - 1] \o s[i]
  <2>1. i - 1 \in 1..n /\ (i - 1) + 1 = i /\ 1 \in 1..(n + 1) /\ i \in 1..(n + 1) /\ i + 1 \in 1..(n + 1)
    BY <1>3
  <2>2. first[1] <= first[i] /\ first[i] <= first[i + 1]  BY <2>1
  <2>3. g[i - 1] = Run(first[1], first[i]) /\ g[i] = Run(first[1], first[i + 1])  BY <1>2, <2>1
  <2>4. first[1] \in Nat /\ first[i] \in Nat /\ first[i + 1] \in Nat  BY <2>1
  <2>5. Run(first[1], first[i]) \o Run(first[i], first[i + 1]) = Run(first[1], first[i + 1])
    BY <2>2, <2>4, RunConcat
  <2>. QED  BY <2>3, <2>5
<1>4. g[1] = s[1]
  <2>1. 1 \in 1..n /\ 1 + 1 = 2  OBVIOUS
  <2>. QED  BY <1>2, <2>1
<1>5. Eq(g)
  <2>1. \A i \in 1..n : g[i] = IF i = 1 THEN s[i] ELSE g[i - 1] \o s[i]  BY <1>3, <1>4
  <2>2. g = [i \in 1..n |-> g[i]]  OBVIOUS
  <2> HIDE DEF g
  <2>. QED  BY <2>1, <2>2
<1> HIDE DEF g
<1>6. ASSUME NEW f, Eq(f) PROVE f[n] = g[n]
  <2>1. /\ \A i \in 1..n : f[i] = IF i = 1 THEN s[i] ELSE f[i - 1] \o s[i]
    BY <1>6
  <2> HIDE DEF Eq
  <2> DEFINE T == {i \in 1..n : f[i] # g[i]}
  <2>2. SUFFICES ASSUME T # {} PROVE FALSE
    <3>1. n \in 1..n  OBVIOUS
    <3>. QED  BY <2>2, <3>1
  <2>3. PICK m \in T : \A y \in T : m <= y
    <3>1. T \subseteq Nat  OBVIOUS
    <3> HIDE DEF T
    <3>. QED  BY <2>2, <3>1, LeastElement
  <2>4. m # 1  BY <1>4, <2>1
  <2>5. m - 1 \in 1..n /\ m \in 1..n /\ ~(m <= m - 1)  BY <2>4
  <2>6. f[m - 1] = g[m - 1]  BY <2>3, <2>5
  <2>7. f[m] = g[m]  BY <1>3, <2>1, <2>4, <2>5, <2>6
  <2>. QED  BY <2>7
<1>7. (CHOOSE f : Eq(f))[n] = g[n]
  <2> HIDE DEF Eq
  <2>1. Eq(CHOOSE f : Eq(f))  BY <1>5
  <2>. QED  BY <1>6, <2>1
<1>8. n \in 1..n  OBVIOUS
<1>. QED  BY <1>1, <1>2, <1>7, <1>8

\* The results rs carry the messages after the a-th up to the b-th, in order.
Runs(rs, a, b) ==
    \E first \in [1..(Len(rs) + 1) -> Nat] :
        /\ first[1] = a /\ first[Len(rs) + 1] = b
        /\ \A i, j \in 1..(Len(rs) + 1) : i <= j => first[i] <= first[j]
        /\ \A i \in 1..Len(rs) : rs[i][2] = Run(first[i], first[i + 1])

\* One more result, or one less, in the channel.
LEMMA VecAppended ==
    ASSUME NEW s, IsVec(s), NEW x
    PROVE  /\ IsVec(Append(s, x)) /\ Len(s) \in Nat /\ Len(Append(s, x)) = Len(s) + 1
           /\ \A i \in 1..Len(s) : Append(s, x)[i] = s[i]
           /\ Append(s, x)[Len(s) + 1] = x
<1>1. PICK S : s \in Seq(S)  BY DEF IsVec
<1>2. s \in Seq(S \cup {x})
  <2>1. s \in [1..Len(s) -> S] /\ Len(s) \in Nat  BY <1>1
  <2>2. s \in [1..Len(s) -> S \cup {x}]  BY <2>1
  <2>. QED  BY <2>1, <2>2
<1>3. x \in S \cup {x}  OBVIOUS
<1>4. IsVec(Append(s, x))  BY VecAppend
<1>. QED  BY <1>2, <1>3, <1>4, AppendAt

\* A channel without its first result.
LEMMA VecShorter ==
    ASSUME NEW s, IsVec(s), s # <<>>
    PROVE  /\ IsVec(Tail(s)) /\ Len(s) \in Nat \ {0} /\ Len(Tail(s)) = Len(s) - 1 /\ Head(s) = s[1]
           /\ \A i \in 1..Len(Tail(s)) : Tail(s)[i] = s[i + 1]
<1>1. PICK S : s \in Seq(S)  BY DEF IsVec
<1>2. IsVec(Tail(s))  BY VecTail
<1>. QED  BY <1>1, <1>2, TailAt

\* An empty channel.
LEMMA RunsEmpty == \A a, b \in Nat : Runs(<<>>, a, b) <=> a = b
<1>1. Len(<<>>) = 0 /\ 0 + 1 = 1  OBVIOUS
<1>2. ASSUME NEW a \in Nat, NEW b \in Nat, Runs(<<>>, a, b) PROVE a = b
  <2>1. PICK first \in [1..(Len(<<>>) + 1) -> Nat] : first[1] = a /\ first[Len(<<>>) + 1] = b
    BY <1>2 DEF Runs
  <2>. QED  BY <1>1, <2>1
<1>3. ASSUME NEW a \in Nat PROVE Runs(<<>>, a, a)
  <2> DEFINE first == [i \in 1..(Len(<<>>) + 1) |-> a]
  <2>1. /\ first \in [1..(Len(<<>>) + 1) -> Nat] /\ first[1] = a /\ first[Len(<<>>) + 1] = a
        /\ \A i, j \in 1..(Len(<<>>) + 1) : first[i] <= first[j]
    BY <1>1
  <2>2. \A i \in 1..Len(<<>>) : FALSE  BY <1>1
  <2> HIDE DEF first
  <2>. QED  BY <2>1, <2>2 DEF Runs
<1>. QED  BY <1>2, <1>3

\* A result that carries the next messages is sent.
LEMMA RunsAppend ==
    ASSUME NEW rs, IsVec(rs), NEW a \in Nat, NEW b \in Nat, NEW c \in Nat, b <= c, Runs(rs, a, b),
           NEW x, x[2] = Run(b, c)
    PROVE  Runs(Append(rs, x), a, c)
<1> DEFINE t == Append(rs, x)  n == Len(rs)
<1>1. /\ n \in Nat /\ Len(t) = n + 1 /\ t[n + 1] = x
      /\ \A i \in 1..n : t[i] = rs[i]
  BY VecAppended
<1>2. PICK f \in [1..(n + 1) -> Nat] :
        /\ f[1] = a /\ f[n + 1] = b
        /\ \A i, j \in 1..(n + 1) : i <= j => f[i] <= f[j]
        /\ \A i \in 1..n : rs[i][2] = Run(f[i], f[i + 1])
  BY DEF Runs
<1> HIDE DEF t, n
<1> DEFINE first == [i \in 1..((n + 1) + 1) |-> IF i = n + 2 THEN c ELSE f[i]]
<1>3. first \in [1..((n + 1) + 1) -> Nat]
  <2>1. \A i \in 1..((n + 1) + 1) : i # n + 2 => i \in 1..(n + 1)  BY <1>1
  <2>. QED  BY <1>2, <2>1
<1>4. /\ first[n + 2] = c
      /\ \A i \in 1..(n + 1) : first[i] = f[i] /\ i # n + 2 /\ i \in 1..((n + 1) + 1)
  BY <1>1
<1> HIDE DEF first
<1>5. first[1] = a /\ first[(n + 1) + 1] = c
  <2>1. 1 \in 1..(n + 1) /\ (n + 1) + 1 = n + 2  BY <1>1
  <2>. QED  BY <1>2, <1>4, <2>1
<1>6. ASSUME NEW i \in 1..((n + 1) + 1), NEW j \in 1..((n + 1) + 1), i <= j PROVE first[i] <= first[j]
  <2>1. \A k \in 1..(n + 1) : f[k] \in Nat /\ f[k] <= c
    <3>1. n + 1 \in 1..(n + 1)  BY <1>1
    <3>2. \A k \in 1..(n + 1) : f[k] \in Nat /\ f[k] <= f[n + 1]  BY <1>2, <3>1
    <3>. QED  BY <1>2, <3>2
  <2>2. CASE j = n + 2
    <3>1. CASE i = n + 2  BY <1>4, <2>2, <3>1
    <3>2. CASE i # n + 2
      <4>1. i \in 1..(n + 1)  BY <1>1, <3>2
      <4>. QED  BY <1>4, <2>1, <2>2, <4>1
    <3>. QED  BY <3>1, <3>2
  <2>3. CASE j # n + 2
    <3>1. j \in 1..(n + 1) /\ i \in 1..(n + 1)  BY <1>1, <1>6, <2>3
    <3>. QED  BY <1>2, <1>4, <1>6, <3>1
  <2>. QED  BY <2>2, <2>3
<1>7. ASSUME NEW i \in 1..(n + 1) PROVE t[i][2] = Run(first[i], first[i + 1])
  <2>1. CASE i = n + 1
    <3>1. i \in 1..(n + 1) /\ i + 1 = n + 2  BY <1>1, <2>1
    <3>2. first[i] = b /\ first[i + 1] = c  BY <1>2, <1>4, <2>1, <3>1
    <3>. QED  BY <1>1, <2>1, <3>2
  <2>2. CASE i # n + 1
    <3>1. i \in 1..n /\ i + 1 \in 1..(n + 1)  BY <1>1, <2>2
    <3>2. first[i] = f[i] /\ first[i + 1] = f[i + 1]  BY <1>4, <3>1
    <3>. QED  BY <1>1, <1>2, <3>1, <3>2
  <2>. QED  BY <2>1, <2>2
<1>8. Runs(t, a, c)  BY <1>1, <1>3, <1>5, <1>6, <1>7 DEF Runs
<1>. QED  BY <1>8 DEF t

\* The first result is taken.
LEMMA RunsTail ==
    ASSUME NEW rs, IsVec(rs), rs # <<>>, NEW a \in Nat, NEW b \in Nat, Runs(rs, a, b)
    PROVE  \E m \in Nat : a <= m /\ Head(rs)[2] = Run(a, m) /\ Runs(Tail(rs), m, b)
<1> DEFINE t == Tail(rs)  n == Len(rs)
<1>1. /\ n \in Nat \ {0} /\ Len(t) = n - 1 /\ Head(rs) = rs[1]
      /\ \A i \in 1..Len(t) : t[i] = rs[i + 1]
  BY VecShorter
<1>2. PICK f \in [1..(n + 1) -> Nat] :
        /\ f[1] = a /\ f[n + 1] = b
        /\ \A i, j \in 1..(n + 1) : i <= j => f[i] <= f[j]
        /\ \A i \in 1..n : rs[i][2] = Run(f[i], f[i + 1])
  BY DEF Runs
<1> HIDE DEF t, n
<1> DEFINE first == [i \in 1..(Len(t) + 1) |-> f[i + 1]]
<1>3. \A i \in 1..(Len(t) + 1) : i + 1 \in 1..(n + 1) /\ i \in 1..n  BY <1>1
<1>4. first \in [1..(Len(t) + 1) -> Nat] /\ \A i \in 1..(Len(t) + 1) : first[i] = f[i + 1]
  BY <1>2, <1>3
<1> HIDE DEF first
<1>5. 1 \in 1..(Len(t) + 1) /\ 1 + 1 = 2 /\ Len(t) + 1 \in 1..(Len(t) + 1) /\ (Len(t) + 1) + 1 = n + 1
  BY <1>1
<1>6. first[1] = f[2] /\ first[Len(t) + 1] = b  BY <1>2, <1>4, <1>5
<1>7. \A i, j \in 1..(Len(t) + 1) : i <= j => first[i] <= first[j]
  <2> TAKE i, j \in 1..(Len(t) + 1)
  <2>1. i + 1 \in 1..(n + 1) /\ j + 1 \in 1..(n + 1) /\ (i <= j => i + 1 <= j + 1)  BY <1>3
  <2>. QED  BY <1>2, <1>4, <2>1
<1>8. \A i \in 1..Len(t) : t[i][2] = Run(first[i], first[i + 1])
  <2> TAKE i \in 1..Len(t)
  <2>1. i \in 1..(Len(t) + 1) /\ i + 1 \in 1..(Len(t) + 1) /\ i + 1 \in 1..n  BY <1>1
  <2>2. first[i] = f[i + 1] /\ first[i + 1] = f[(i + 1) + 1]  BY <1>4, <2>1
  <2>. QED  BY <1>1, <1>2, <2>1, <2>2
<1>9. Runs(t, f[2], b)  BY <1>4, <1>6, <1>7, <1>8 DEF Runs
<1>10. f[2] \in Nat /\ a <= f[2] /\ Head(rs)[2] = Run(a, f[2])
  <2>1. 1 \in 1..(n + 1) /\ 2 \in 1..(n + 1) /\ 1 \in 1..n /\ 1 <= 2 /\ 1 + 1 = 2  BY <1>1
  <2>. QED  BY <1>1, <1>2, <2>1
<1>. QED  BY <1>9, <1>10 DEF t

\* What is in the channel as a whole.
LEMMA RunsFlat ==
    ASSUME IsVec(resq), NEW a \in Nat, NEW b \in Nat, Runs(resq, a, b)
    PROVE  a <= b /\ InChannel = Run(a, b)
<1> DEFINE n == Len(resq)  s == [i \in 1..n |-> resq[i][2]]
<1>1. n \in Nat  BY VecLen
<1>2. PICK f \in [1..(n + 1) -> Nat] :
        /\ f[1] = a /\ f[n + 1] = b
        /\ \A i, j \in 1..(n + 1) : i <= j => f[i] <= f[j]
        /\ \A i \in 1..n : resq[i][2] = Run(f[i], f[i + 1])
  BY DEF Runs
<1>3. InChannel = SeqExt!FlattenSeq(s)  BY DEF InChannel
<1>4. Len(s) = n /\ \A i \in 1..n : s[i] = resq[i][2]
  <2> HIDE DEF n
  <2>. QED  BY <1>1
<1> HIDE DEF s, n
<1>5. a <= b
  <2>1. 1 \in 1..(n + 1) /\ n + 1 \in 1..(n + 1) /\ 1 <= n + 1  BY <1>1
  <2>. QED  BY <1>2, <2>1
<1>6. CASE n = 0
  <2>1. SeqExt!FlattenSeq(s) = s  BY <1>4, <1>6 DEF SeqExt!FlattenSeq
  <2>2. s = <<>>  BY <1>6 DEF s
  <2>3. a = b  BY <1>2, <1>6
  <2>. QED  BY <1>3, <1>5, <2>1, <2>2, <2>3, EmptyRun
<1>7. CASE n # 0
  <2>1. n \in Nat \ {0}  BY <1>1, <1>7
  <2>2. \A i \in 1..n : s[i] = Run(f[i], f[i + 1])  BY <1>2, <1>4
  <2>3. f \in [1..(n + 1) -> Nat] /\ \A i, j \in 1..(n + 1) : i <= j => f[i] <= f[j]  BY <1>2
  <2>4. Len(s) = n  BY <1>4
  <2>5. SeqExt!FlattenSeq(s) = Run(f[1], f[n + 1])  BY <2>1, <2>2, <2>3, <2>4, FlattenRuns, Zenon
  <2>. QED  BY <1>2, <1>3, <1>5, <2>5
<1>. QED  BY <1>6, <1>7

-----------------------------------------------------------------------------
(* Mail: what a fetcher or a chat component received, from the server to   *)
(* the out-edge, in order.                                                 *)

\* Sent are the messages up to the a-th, held those up to the b-th, and the
\* channel has the rest.
Passing(a, b) ==
    a <= b /\ OutOf(1) = Run(0, a) /\ held = Run(a, b) /\ Runs(resq, b, fetched)

Mail ==
    /\ fetched \in Nat /\ IsVec(resq) /\ TripleEdges
    /\ \E a, b \in Nat : Passing(a, b)

\* A step that receives and sends nothing.
LEMMA MailStays ==
    ASSUME Mail, UNCHANGED <<held, resq, fetched>>, Drain \/ UNCHANGED <<outq, delivered>>
    PROVE  Mail'
<1>1. TripleEdges' /\ OutOf(1)' = OutOf(1)
  <2>1. CASE Drain  BY <2>1, SentDrain DEF Mail
  <2>2. CASE UNCHANGED <<outq, delivered>>  BY <2>2 DEF Mail, TripleEdges, OutOf
  <2>. QED  BY <2>1, <2>2
<1>2. PICK a \in Nat, b \in Nat : Passing(a, b)  BY DEF Mail
<1>3. Passing(a, b)'  BY <1>1, <1>2 DEF Passing
<1>. QED  BY <1>1, <1>3 DEF Mail

\* A result is sent, with the messages it carries.
LEMMA MailAnswers ==
    ASSUME Mail, UNCHANGED <<held, outq, delivered>>, NEW x, NEW n \in Nat,
           resq' = Append(resq, x), x[2] = Run(fetched, fetched + n), fetched' = fetched + n
    PROVE  Mail'
<1>1. TripleEdges' /\ OutOf(1)' = OutOf(1)  BY DEF Mail, TripleEdges, OutOf
<1>2. PICK a \in Nat, b \in Nat : Passing(a, b)  BY DEF Mail
<1>3. fetched \in Nat /\ fetched + n \in Nat /\ fetched <= fetched + n /\ IsVec(resq)  BY DEF Mail
<1>4. Runs(Append(resq, x), b, fetched + n)  BY <1>2, <1>3, RunsAppend DEF Passing
<1>5. Passing(a, b)'  BY <1>1, <1>2, <1>4 DEF Passing
<1>6. IsVec(resq')  BY <1>3, VecAppended
<1>. QED  BY <1>1, <1>3, <1>5, <1>6 DEF Mail

\* A result without messages.
LEMMA MailAnswered ==
    ASSUME Mail, UNCHANGED <<held, outq, delivered, fetched>>, NEW x,
           resq' = Append(resq, x), x[2] = <<>>
    PROVE  Mail'
<1>1. fetched \in Nat  BY DEF Mail
<1>2. x[2] = Run(fetched, fetched + 0) /\ fetched' = fetched + 0  BY <1>1, EmptyRun
<1>. QED  BY <1>2, MailAnswers

\* A result is taken and its messages are held.
LEMMA MailTaken ==
    ASSUME Mail, resq # <<>>, resq' = Tail(resq), UNCHANGED <<outq, delivered, fetched>>,
           held' = held \o Head(resq)[2] \/ (held = <<>> /\ held' = Head(resq)[2])
    PROVE  Mail'
<1>1. TripleEdges' /\ OutOf(1)' = OutOf(1)  BY DEF Mail, TripleEdges, OutOf
<1>2. PICK a \in Nat, b \in Nat : Passing(a, b)  BY DEF Mail
<1>3. fetched \in Nat /\ IsVec(resq)  BY DEF Mail
<1>4. PICK m \in Nat : b <= m /\ Head(resq)[2] = Run(b, m) /\ Runs(Tail(resq), m, fetched)
  BY <1>2, <1>3, RunsTail DEF Passing
<1>5. a <= b /\ held = Run(a, b)  BY <1>2 DEF Passing
<1>6. held' = Run(a, m)
  <2>1. CASE held' = held \o Head(resq)[2]  BY <1>4, <1>5, <2>1, RunConcat
  <2>2. CASE held = <<>> /\ held' = Head(resq)[2]
    <3>1. a = b  BY <1>5, <2>2, EmptyRun
    <3>. QED  BY <1>4, <2>2, <3>1
  <2>. QED  BY <2>1, <2>2
<1>7. Passing(a, m)'  BY <1>1, <1>2, <1>4, <1>5, <1>6 DEF Passing
<1>8. IsVec(resq')  BY <1>3, VecShorter
<1>. QED  BY <1>1, <1>3, <1>7, <1>8 DEF Mail

\* The oldest message held is sent.
LEMMA MailSent ==
    ASSUME Mail, held # <<>>, Push(1, Head(held)), held' = Tail(held),
           UNCHANGED <<delivered, resq, fetched>>
    PROVE  Mail'
<1>1. PICK a \in Nat, b \in Nat : Passing(a, b)  BY DEF Mail
<1>2. /\ a + 1 <= b /\ a + 1 \in Nat
      /\ Head(held) = <<1, a + 1, 1>> /\ held' = Run(a + 1, b)
  BY <1>1, RunTail DEF Passing
<1>3. Head(held) \in Triple  BY <1>2 DEF Triple
<1>4. TripleEdges' /\ OutOf(1)' = Append(OutOf(1), Head(held))
  BY <1>3, SentPush DEF Mail
<1>5. OutOf(1)' = Run(0, a + 1)
  <2>1. 0 \in Nat /\ 0 <= a  OBVIOUS
  <2>2. Append(Run(0, a), <<1, a + 1, 1>>) = Run(0, a + 1)  BY <2>1, RunAppend
  <2>. QED  BY <1>1, <1>2, <1>4, <2>2 DEF Passing
<1>6. Passing(a + 1, b)'  BY <1>1, <1>2, <1>5 DEF Passing
<1>. QED  BY <1>2, <1>4, <1>6 DEF Mail

\* The channel with what was sent and is held is what was received.
LEMMA MailIsKept ==
    ASSUME Mail
    PROVE  delivered[1] \o outq[1] \o held \o InChannel = [k \in 1..fetched |-> <<1, k, 1>>]
<1>1. PICK a \in Nat, b \in Nat : Passing(a, b)  BY DEF Mail
<1>2. a <= b /\ OutOf(1) = Run(0, a) /\ held = Run(a, b) /\ Runs(resq, b, fetched)
  BY <1>1 DEF Passing
<1>3. fetched \in Nat /\ b <= fetched /\ InChannel = Run(b, fetched)
  BY <1>2, RunsFlat DEF Mail
<1>4. OutOf(1) \o held = Run(0, b) /\ 0 \in Nat /\ 0 <= b
  <2>1. 0 \in Nat /\ 0 <= a /\ 0 <= b  OBVIOUS
  <2>2. Run(0, a) \o Run(a, b) = Run(0, b)  BY <1>2, <2>1, RunConcat
  <2>. QED  BY <1>2, <2>1, <2>2
<1>5. (OutOf(1) \o held) \o InChannel = Run(0, fetched)
  <2>1. Run(0, b) \o Run(b, fetched) = Run(0, fetched)  BY <1>3, <1>4, RunConcat
  <2>. QED  BY <1>3, <1>4, <2>1
<1>6. Run(0, fetched) = [k \in 1..fetched |-> <<1, k, 1>>]
  <2>1. fetched - 0 = fetched /\ \A k \in 1..fetched : 0 + k = k  BY <1>3
  <2>. QED  BY <2>1 DEF Run
<1>. QED  BY <1>5, <1>6 DEF OutOf

\* New mail is the run after what was received.
LEMMA NewMailIs ==
    ASSUME fetched \in Nat, NEW n \in Nat
    PROVE  NewMail(n) = Run(fetched, fetched + n) /\ fetched + n \in Nat /\ fetched <= fetched + n
<1>1. (fetched + n) - fetched = n  OBVIOUS
<1>. QED  BY <1>1 DEF NewMail, Run

-----------------------------------------------------------------------------
(* Chunks: what a server or a file reader has read, which may overtake what *)
(* it holds.                                                               *)

\* The first a of them.
First(a) == {<<1, k, 1>> : k \in 1..a}

\* With the next one.
LEMMA FirstNext == ASSUME NEW a \in Nat PROVE First(a + 1) = First(a) \cup {<<1, a + 1, 1>>}
<1>1. 1..(a + 1) = (1..a) \cup {a + 1}  OBVIOUS
<1>. QED  BY <1>1 DEF First

\* A vector's items and those of the vector with one more, ...
LEMMA ItemsAppend ==
    ASSUME NEW s \in Seq(Triple), NEW x \in Triple
    PROVE  /\ Append(s, x) \in Seq(Triple) /\ Len(Append(s, x)) = Len(s) + 1 /\ Len(s) \in Nat
           /\ Items(Append(s, x)) = Items(s) \cup {x}
<1> DEFINE t == Append(s, x)
<1>1. /\ t \in Seq(Triple) /\ Len(s) \in Nat /\ Len(t) = Len(s) + 1
      /\ \A i \in 1..Len(s) : t[i] = s[i]
      /\ t[Len(s) + 1] = x
  BY AppendAt
<1> HIDE DEF t
<1>2. 1..Len(t) = (1..Len(s)) \cup {Len(s) + 1}  BY <1>1
<1>3. Items(t) = Items(s) \cup {x}  BY <1>1, <1>2 DEF Items
<1>. QED  BY <1>1, <1>3 DEF t

\* ... without its first, ...
LEMMA ItemsTail ==
    ASSUME NEW s \in Seq(Triple), s # <<>>
    PROVE  /\ Head(s) \in Triple /\ Tail(s) \in Seq(Triple)
           /\ Len(Tail(s)) \in Nat /\ Len(s) = Len(Tail(s)) + 1
           /\ Items(s) = {Head(s)} \cup Items(Tail(s))
<1> DEFINE t == Tail(s)
<1>1. /\ Len(s) \in Nat \ {0} /\ Head(s) = s[1] /\ s[1] \in Triple
      /\ t \in Seq(Triple) /\ Len(t) = Len(s) - 1
      /\ \A i \in 1..Len(t) : t[i] = s[i + 1] /\ i + 1 \in 1..Len(s)
  BY TailAt
<1> HIDE DEF t
<1>2. ASSUME NEW i \in 1..Len(s), i # 1 PROVE i - 1 \in 1..Len(t) /\ s[i] = t[i - 1]
  <2>1. i - 1 \in 1..Len(t) /\ (i - 1) + 1 = i  BY <1>1, <1>2
  <2>. QED  BY <1>1, <2>1
<1>3. 1 \in 1..Len(s) /\ Len(t) \in Nat /\ Len(s) = Len(t) + 1  BY <1>1
<1>4. Items(s) = {Head(s)} \cup Items(t)  BY <1>1, <1>2, <1>3 DEF Items
<1>. QED  BY <1>1, <1>3, <1>4 DEF t

\* ... and of two, one after the other.
LEMMA ItemsConcat ==
    ASSUME NEW s \in Seq(Triple), NEW t \in Seq(Triple)
    PROVE  /\ s \o t \in Seq(Triple) /\ Len(s \o t) = Len(s) + Len(t)
           /\ Len(s) \in Nat /\ Len(t) \in Nat
           /\ Items(s \o t) = Items(s) \cup Items(t)
<1> DEFINE u == s \o t
<1>1. /\ u \in Seq(Triple) /\ Len(u) = Len(s) + Len(t) /\ Len(s) \in Nat /\ Len(t) \in Nat
      /\ \A i \in 1..(Len(s) + Len(t)) : u[i] = IF i <= Len(s) THEN s[i] ELSE t[i - Len(s)]
  BY ConcatProperties, LenProperties
<1> HIDE DEF u
<1>2. ASSUME NEW i \in 1..Len(s) PROVE i \in 1..Len(u) /\ u[i] = s[i]  BY <1>1
<1>3. ASSUME NEW i \in 1..Len(t) PROVE Len(s) + i \in 1..Len(u) /\ u[Len(s) + i] = t[i]
  <2>1. Len(s) + i \in 1..(Len(s) + Len(t)) /\ ~(Len(s) + i <= Len(s)) /\ (Len(s) + i) - Len(s) = i
    BY <1>1
  <2>. QED  BY <1>1, <2>1
<1>4. ASSUME NEW i \in 1..Len(u)
      PROVE  \/ i \in 1..Len(s) /\ u[i] = s[i]
             \/ i - Len(s) \in 1..Len(t) /\ u[i] = t[i - Len(s)]
  <2>1. CASE i <= Len(s)  BY <1>1, <2>1
  <2>2. CASE ~(i <= Len(s))
    <3>1. i - Len(s) \in 1..Len(t)  BY <1>1, <2>2
    <3>. QED  BY <1>1, <2>2, <3>1
  <2>. QED  BY <2>1, <2>2
<1>5. Items(u) \subseteq Items(s) \cup Items(t)  BY <1>4 DEF Items
<1>6. Items(s) \subseteq Items(u)  BY <1>2 DEF Items
<1>7. Items(t) \subseteq Items(u)  BY <1>3 DEF Items
<1>. QED  BY <1>1, <1>5, <1>6, <1>7 DEF u

\* The first a chunks are sent or held, each of them once, and the channel
\* has the rest.
Stocked(a) ==
    /\ Runs(resq, a, fetched)
    /\ Len(OutOf(1)) + Len(held) = a
    /\ Items(OutOf(1)) \cup Items(held) = First(a)

Chunks ==
    /\ fetched \in Nat /\ IsVec(resq) /\ TripleEdges /\ held \in Seq(Triple)
    /\ \E a \in Nat : Stocked(a)

\* What was sent is a vector.
LEMMA SentIs == ASSUME TripleEdges PROVE OutOf(1) \in Seq(Triple) /\ Len(OutOf(1)) \in Nat
<1>1. delivered[1] \in Seq(Triple) /\ outq[1] \in Seq(Triple)  BY DEF TripleEdges, OutPorts
<1>2. OutOf(1) \in Seq(Triple)  BY <1>1 DEF OutOf
<1>. QED  BY <1>2

\* A step that reads and sends nothing.
LEMMA ChunksStay ==
    ASSUME Chunks, UNCHANGED <<held, resq, fetched>>, Drain \/ UNCHANGED <<outq, delivered>>
    PROVE  Chunks'
<1>1. TripleEdges' /\ OutOf(1)' = OutOf(1)
  <2>1. CASE Drain  BY <2>1, SentDrain DEF Chunks
  <2>2. CASE UNCHANGED <<outq, delivered>>  BY <2>2 DEF Chunks, TripleEdges, OutOf
  <2>. QED  BY <2>1, <2>2
<1>2. PICK a \in Nat : Stocked(a)  BY DEF Chunks
<1>3. Stocked(a)'  BY <1>1, <1>2 DEF Stocked, First
<1>. QED  BY <1>1, <1>3 DEF Chunks

\* The oldest chunk held is sent.
LEMMA ChunkFlushed ==
    ASSUME Chunks, held # <<>>, Push(1, Head(held)), held' = Tail(held),
           UNCHANGED <<delivered, resq, fetched>>
    PROVE  Chunks'
<1>1. PICK a \in Nat : Stocked(a)  BY DEF Chunks
<1> DEFINE x == Head(held)  s == OutOf(1)
<1>2. /\ x \in Triple /\ held' \in Seq(Triple) /\ Len(held') \in Nat /\ Len(held) = Len(held') + 1
      /\ Items(held) = {x} \cup Items(held')
  BY ItemsTail DEF Chunks
<1>3. TripleEdges' /\ s' = Append(s, x) /\ s \in Seq(Triple)  BY <1>2, SentPush DEF Chunks
<1> HIDE DEF x, s
<1>4. Len(s') = Len(s) + 1 /\ Len(s) \in Nat /\ Items(s') = Items(s) \cup {x}
  BY <1>2, <1>3, ItemsAppend
<1>5. Len(s) + Len(held) = a /\ Items(s) \cup Items(held) = First(a) /\ Runs(resq, a, fetched)
  BY <1>1 DEF Stocked, s
<1>6. Len(s') + Len(held') = a  BY <1>2, <1>4, <1>5
<1>7. Items(s') \cup Items(held') = First(a)  BY <1>2, <1>4, <1>5
<1>8. Stocked(a)'  BY <1>5, <1>6, <1>7 DEF Stocked, s, First, Items
<1>. QED  BY <1>2, <1>3, <1>8 DEF Chunks

\* One more is sent or held; the channel has the rest.
LEMMA ChunkAdded ==
    ASSUME Chunks, NEW a \in Nat, Stocked(a), Runs(resq', a + 1, fetched'), IsVec(resq'), fetched' \in Nat,
           \/ Push(1, <<1, a + 1, 1>>) /\ UNCHANGED <<delivered, held>>
           \/ held' = Append(held, <<1, a + 1, 1>>) /\ UNCHANGED <<outq, delivered>>
    PROVE  Chunks'
<1> DEFINE x == <<1, a + 1, 1>>  s == OutOf(1)
<1>1. x \in Triple  BY DEF Triple
<1>2. held \in Seq(Triple) /\ Len(held) \in Nat /\ s \in Seq(Triple) /\ Len(s) \in Nat /\ TripleEdges
  BY SentIs, LenProperties DEF Chunks
<1>3. /\ TripleEdges' /\ held' \in Seq(Triple)
      /\ Len(s') + Len(held') = Len(s) + Len(held) + 1
      /\ Items(s') \cup Items(held') = (Items(s) \cup Items(held)) \cup {x}
  <2>1. CASE Push(1, x) /\ UNCHANGED <<delivered, held>>
    <3>1. TripleEdges' /\ s' = Append(s, x)  BY <1>1, <1>2, <2>1, SentPush
    <3> HIDE DEF x, s
    <3>2. Len(s') = Len(s) + 1 /\ Items(s') = Items(s) \cup {x}  BY <1>1, <1>2, <3>1, ItemsAppend
    <3>. QED  BY <1>2, <2>1, <3>1, <3>2
  <2>2. CASE held' = Append(held, x) /\ UNCHANGED <<outq, delivered>>
    <3>1. TripleEdges' /\ s' = s  BY <1>2, <2>2 DEF TripleEdges, OutOf
    <3> HIDE DEF x, s
    <3>2. held' \in Seq(Triple) /\ Len(held') = Len(held) + 1 /\ Items(held') = Items(held) \cup {x}
      BY <1>1, <1>2, <2>2, ItemsAppend
    <3>. QED  BY <1>2, <3>1, <3>2
  <2>. QED  BY <2>1, <2>2
<1> HIDE DEF s
<1>4. Len(s) + Len(held) = a /\ Items(s) \cup Items(held) = First(a)  BY DEF Stocked, s
<1>5. Len(s') + Len(held') = a + 1  BY <1>2, <1>3, <1>4
<1>6. Items(s') \cup Items(held') = First(a + 1)  BY <1>3, <1>4, FirstNext
<1>7. Stocked(a + 1)'  BY <1>5, <1>6 DEF Stocked, s, First, Items
<1>8. a + 1 \in Nat  OBVIOUS
<1>. QED  BY <1>3, <1>7, <1>8 DEF Chunks

\* The channel with what was sent and is held is what was read.
LEMMA ChunksAreKept ==
    ASSUME Chunks
    PROVE  LET chunks == delivered[1] \o outq[1] \o held \o InChannel
           IN /\ Len(chunks) = fetched
              /\ Items(chunks) = {<<1, k, 1>> : k \in 1..fetched}
<1>1. PICK a \in Nat : Stocked(a)  BY DEF Chunks
<1> DEFINE s == OutOf(1)  c == InChannel
<1>2. s \in Seq(Triple) /\ held \in Seq(Triple)  BY SentIs DEF Chunks
<1>3. fetched \in Nat /\ a <= fetched /\ c = Run(a, fetched)  BY <1>1, RunsFlat DEF Chunks, Stocked
<1>4. c \in Seq(Triple) /\ Len(c) = fetched - a /\ \A k \in 1..(fetched - a) : c[k] = <<1, a + k, 1>>
  BY <1>3, RunAt
<1>5. delivered[1] \o outq[1] \o held \o InChannel = (s \o held) \o c  BY DEF OutOf
<1>6. Len(s) + Len(held) = a /\ Items(s) \cup Items(held) = First(a)  BY <1>1 DEF Stocked
<1> HIDE DEF s, c
<1>7. /\ s \o held \in Seq(Triple) /\ Len(s \o held) = a
      /\ Items(s \o held) = First(a)
  BY <1>2, <1>6, ItemsConcat
<1> DEFINE h == s \o held
<1> HIDE DEF h
<1>8. h \in Seq(Triple) /\ Len(h) = a /\ Items(h) = First(a)  BY <1>7 DEF h
<1>9. Len(h \o c) = fetched /\ Items(h \o c) = First(a) \cup Items(c)
  <2>1. Len(h \o c) = Len(h) + Len(c) /\ Items(h \o c) = Items(h) \cup Items(c)
    BY <1>4, <1>8, ItemsConcat
  <2>. QED  BY <1>3, <1>4, <1>8, <2>1
<1>10. First(a) \cup Items(c) = First(fetched)
  <2>1. Items(c) = {<<1, a + k, 1>> : k \in 1..(fetched - a)}  BY <1>4 DEF Items
  <2>2. ASSUME NEW k \in 1..fetched PROVE k \in 1..a \/ (k - a \in 1..(fetched - a) /\ a + (k - a) = k)
    BY <1>3
  <2>3. First(fetched) \subseteq First(a) \cup Items(c)
    <3>1. ASSUME NEW k \in 1..fetched PROVE <<1, k, 1>> \in First(a) \cup Items(c)
      <4>1. CASE k \in 1..a  BY <4>1 DEF First
      <4>2. CASE k - a \in 1..(fetched - a) /\ a + (k - a) = k  BY <2>1, <4>2
      <4>. QED  BY <2>2, <4>1, <4>2
    <3>. QED  BY <3>1 DEF First
  <2>4. \A k \in 1..(fetched - a) : a + k \in 1..fetched  BY <1>3
  <2>5. \A k \in 1..a : k \in 1..fetched  BY <1>3
  <2>. QED  BY <2>1, <2>3, <2>4, <2>5 DEF First
<1>. QED  BY <1>5, <1>9, <1>10 DEF h, First

-----------------------------------------------------------------------------
(* Fetchers.                                                               *)

\* What a worker thread sends carries the messages after those received.
LEMMA WorkerMail ==
    ASSUME Mail, WorkerStep
    PROVE  Mail'
<1>1. UNCHANGED <<outq, delivered, held>>
  BY DEF WorkerStep, WorkerRecv, WorkerConnect, WorkerLoggedIn, WorkerOperate, WorkerPoll,
     WorkerShutdown, WorkerWake, nodeVars, edges
<1>2. fetched \in Nat /\ \A n \in NewMails : n \in Nat /\ fetched + n # fetched
  <2>1. fetched \in Nat  BY DEF Mail
  <2>2. \A n \in NewMails : n \in Nat \ {0}  BY DEF NewMails
  <2>. QED  BY <2>1, <2>2
<1>3. ASSUME UNCHANGED <<resq, fetched>> PROVE Mail'  BY <1>1, <1>3, MailStays
<1>4. ASSUME NEW x, resq' = Append(resq, x), x[2] = <<>>, UNCHANGED fetched PROVE Mail'
  BY <1>1, <1>4, MailAnswered
<1>5. ASSUME NEW n \in Nat, NEW tag, resq' = Append(resq, <<tag, NewMail(n)>>), fetched' = fetched + n
      PROVE  Mail'
  <2> DEFINE x == <<tag, NewMail(n)>>
  <2>1. resq' = Append(resq, x) /\ x[2] = Run(fetched, fetched + n)  BY <1>2, <1>5, NewMailIs
  <2> HIDE DEF x
  <2>. QED  BY <1>1, <1>5, <2>1, MailAnswers
<1>6. CASE WorkerRecv \/ WorkerShutdown \/ WorkerWake
  BY <1>3, <1>6 DEF WorkerRecv, WorkerShutdown, WorkerWake, history
<1>7. CASE WorkerLoggedIn \/ WorkerOperate
  <2>1. UNCHANGED fetched  BY <1>7 DEF WorkerLoggedIn, WorkerOperate, history
  <2>2. \E t : resq' = Append(resq, <<t, <<>>>>)  BY <1>7 DEF WorkerLoggedIn, WorkerOperate, Answer
  <2>3. PICK t : resq' = Append(resq, <<t, <<>>>>)  BY <2>2
  <2>. QED  BY <1>4, <2>1, <2>3
<1>8. CASE WorkerConnect
  <2>1. CASE UNCHANGED fetched
    <3>1. \/ \E t : resq' = Append(resq, <<t, <<>>>>)
          \/ \E n \in NewMails : fetched' = fetched + n
      BY <1>8 DEF WorkerConnect, Answer
    <3>2. \A n \in NewMails : fetched' # fetched + n  BY <1>2, <2>1
    <3>3. PICK t : resq' = Append(resq, <<t, <<>>>>)  BY <3>1, <3>2
    <3>. QED  BY <1>4, <2>1, <3>3
  <2>2. CASE fetched' # fetched
    <3>1. PICK n \in NewMails :
            resq' = Append(resq, <<"initial", NewMail(n)>>) /\ fetched' = fetched + n
      BY <1>8, <2>2 DEF WorkerConnect
    <3>2. n \in Nat  BY <1>2, <3>1
    <3>. QED  BY <1>5, <3>1, <3>2
  <2>. QED  BY <2>1, <2>2
<1>9. CASE WorkerPoll
  <2>1. CASE \E n \in NewMails \cup {0} :
               resq' = Append(resq, <<"messages", NewMail(n)>>) /\ fetched' = fetched + n
    <3>1. PICK n \in NewMails \cup {0} :
            resq' = Append(resq, <<"messages", NewMail(n)>>) /\ fetched' = fetched + n
      BY <2>1
    <3>2. n \in Nat  BY <1>2, <3>1
    <3>. QED  BY <1>5, <3>1, <3>2
  <2>2. CASE UNCHANGED fetched /\ \E t : resq' = Append(resq, <<t, <<>>>>)
    <3>1. PICK t : resq' = Append(resq, <<t, <<>>>>)  BY <2>2
    <3>. QED  BY <1>4, <2>2, <3>1
  <2>. QED  BY <1>9, <2>1, <2>2 DEF WorkerPoll, Answer
<1>. QED  BY <1>6, <1>7, <1>8, <1>9 DEF WorkerStep

\* The neighbours take what was sent, and leave the rest alone.
LEMMA NeighboursMail ==
    ASSUME Mail, (Neighbours \/ Activate) /\ UNCHANGED ioVars
    PROVE  Mail'
<1>1. UNCHANGED <<held, resq, fetched>>  BY DEF ioVars, channels, history
<1>2. Drain \/ UNCHANGED <<outq, delivered>>
  BY DEF Neighbours, Feed, Close, Configure, TimerFires, Activate, edges
<1>. QED  BY <1>1, <1>2, MailStays

\* A fetcher that is not dropped.
LEMMA FetcherMail ==
    ASSUME Mail, PhaseInv, kind.family = "fetcher", Next, ended' = "no"
    PROVE  Mail'
<1>1. HasWorker /\ ~IsChat  BY DEF HasWorker, IsChat
<1>2. ASSUME UNCHANGED <<held, resq, fetched, outq, delivered>> PROVE Mail'  BY <1>2, MailStays
<1>3. ~ChatStep
  BY <1>1 DEF ChatStep, ChatApply, ChatLogin, ChatOperate, ChatShutdown, Dispatch, DispatcherWake,
     ChatWaiting, ChatPrompt, ChatResult, ChatDeliver, ChatInput, ChatSend, ChatEnd, ChatDrop
<1>4. CASE TakeResult
  <2>1. resq # <<>> /\ resq' = Tail(resq) /\ held' = held \o Head(resq)[2]
    BY <1>4 DEF TakeResult
  <2>2. UNCHANGED <<outq, delivered, fetched>>  BY <1>4 DEF TakeResult, edges, history
  <2>. QED  BY <2>1, <2>2, MailTaken
<1>5. CASE TakeError  BY <1>5, RetireTo DEF TakeError, Leave
<1>6. CASE NoResult \/ AwaitLogin
  BY <1>2, <1>6 DEF NoResult, AwaitLogin, edges, ioVars, channels, history
<1>7. CASE Login \/ Poll \/ EndSession
  BY <1>2, <1>7 DEF Login, Poll, EndSession, edges, history
<1>8. CASE PushFetched
  <2>1. UNCHANGED <<delivered, resq, fetched>>  BY <1>8 DEF PushFetched, channels, history
  <2>2. CASE held # <<>> /\ Push(1, Head(held)) /\ held' = Tail(held)  BY <2>1, <2>2, MailSent
  <2>3. CASE UNCHANGED <<outq, held>>  BY <1>2, <2>1, <2>3
  <2>. QED  BY <1>8, <2>2, <2>3 DEF PushFetched
<1>9. ComponentStep => Mail'
  BY <1>4, <1>5, <1>6, <1>7, <1>8, FetcherSteps
<1>. QED  BY <1>1, <1>3, <1>9, OwnSteps, WorkerMail, NeighboursMail

-----------------------------------------------------------------------------
(* Chat components, which hold one message at a time.                      *)

\* One message at most.
Single(s) == s # <<>> => Tail(s) = <<>>

AllSingle(rs) == \A i \in 1..Len(rs) : Single(rs[i][2])

\* A chat component holds a message only while it passes it on, and drops one
\* only with itself.
ChatHolds ==
    IsChat /\ ended = "no" =>
        /\ worker # "poll" /\ AllSingle(resq)
        /\ IF phase \in {"setchat", "deliver"} THEN held # <<>> /\ Tail(held) = <<>>
           ELSE phase \in {"finished", "panicked"} \/ held = <<>>

\* One more result in the channel.
LEMMA SingleAppended ==
    ASSUME IsVec(resq), AllSingle(resq), NEW x, Single(x[2]), resq' = Append(resq, x)
    PROVE  AllSingle(resq')
<1>1. /\ Len(resq) \in Nat /\ Len(resq') = Len(resq) + 1
      /\ \A i \in 1..Len(resq) : resq'[i] = resq[i]
      /\ resq'[Len(resq) + 1] = x
  BY VecAppended
<1> SUFFICES ASSUME NEW i \in 1..Len(resq') PROVE Single(resq'[i][2])  BY DEF AllSingle
<1>2. CASE i \in 1..Len(resq)
  <2>1. Single(resq[i][2]) /\ resq'[i] = resq[i]  BY <1>1, <1>2 DEF AllSingle
  <2>. QED  BY <2>1
<1>3. CASE i \notin 1..Len(resq)
  <2>1. i = Len(resq) + 1  BY <1>1, <1>3
  <2>. QED  BY <1>1, <2>1
<1>. QED  BY <1>2, <1>3

\* The first result is taken.
LEMMA SingleTaken ==
    ASSUME IsVec(resq), AllSingle(resq), resq # <<>>
    PROVE  Single(Head(resq)[2]) /\ AllSingle(Tail(resq))
<1> DEFINE t == Tail(resq)
<1>1. /\ Len(resq) \in Nat \ {0} /\ Len(t) = Len(resq) - 1 /\ Head(resq) = resq[1]
      /\ \A i \in 1..Len(t) : t[i] = resq[i + 1]
  BY VecShorter
<1>2. 1 \in 1..Len(resq)  BY <1>1
<1>3. Single(Head(resq)[2])  BY <1>1, <1>2 DEF AllSingle
<1> HIDE DEF t
<1>4. ASSUME NEW i \in 1..Len(t) PROVE Single(t[i][2])
  <2>1. i + 1 \in 1..Len(resq)  BY <1>1
  <2>2. Single(resq[i + 1][2]) /\ t[i] = resq[i + 1]  BY <1>1, <2>1 DEF AllSingle
  <2>. QED  BY <2>2
<1>. QED  BY <1>3, <1>4 DEF AllSingle, t

\* A message or none is delivered.
LEMMA SingleMail ==
    ASSUME fetched \in Nat, NEW n \in {0, 1}
    PROVE  Single(NewMail(n)) /\ NewMail(n) = Run(fetched, fetched + n)
<1>1. NewMail(n) = Run(fetched, fetched + n)  BY NewMailIs
<1>2. CASE n = 0  BY <1>1, <1>2, EmptyRun DEF Single
<1>3. CASE n = 1
  <2>1. fetched + 1 \in Nat  OBVIOUS
  <2>2. Tail(Run(fetched, fetched + 1)) = Run(fetched + 1, fetched + 1)  BY <2>1, RunTail
  <2>. QED  BY <1>1, <1>3, <2>1, <2>2, EmptyRun DEF Single
<1>. QED  BY <1>1, <1>2, <1>3

\* A chat component that was dropped stays so.
LEMMA ChatStillRuns ==
    ASSUME PhaseInv, PortInv, IsChat, Next, ended' = "no"
    PROVE  ended = "no" /\ ~ComponentStep
<1>1. HasWorker /\ ~ComponentStep  BY ChatSteps DEF HasWorker, IsChat
<1> SUFFICES ended = "no"  BY <1>1
<1>2. CASE Neighbours \/ WorkerStep  BY <1>2, NeighboursCall, WorkerCall DEF call
<1>3. CASE Activate  BY <1>3 DEF Activate
<1>4. CASE ChatApply \/ ChatLogin \/ ChatOperate \/ ChatShutdown \/ Dispatch \/ DispatcherWake
  BY <1>4 DEF ChatApply, ChatLogin, ChatOperate, ChatShutdown, Dispatch, DispatcherWake, nodeVars, call
<1>5. CASE ChatWaiting \/ ChatPrompt
  BY <1>5, GotoTo, DidWorkTo, NoWorkTo DEF ChatWaiting, ChatPrompt
<1>6. CASE ChatResult \/ ChatDeliver \/ ChatInput
  BY <1>6, GotoTo DEF ChatResult, ChatDeliver, ChatInput
<1>7. CASE ChatSend
  <2>1. CASE phase = "prompt"  BY <1>7, <2>1, DidWorkTo, GotoTo DEF ChatSend
  <2>2. CASE phase = "setchat"  BY <1>7, <2>2, GotoTo DEF ChatSend
  <2>3. CASE phase = "op"  BY <1>7, <2>3, GotoTo DEF ChatSend
  <2>. QED  BY <1>7, <2>1, <2>2, <2>3 DEF ChatSend
<1>8. CASE ChatEnd  BY <1>8, ResultTo DEF ChatEnd
<1>9. CASE ChatDrop  BY <1>9, RetireTo DEF ChatDrop
<1>. QED
  BY <1>1, <1>2, <1>3, <1>4, <1>5, <1>6, <1>7, <1>8, <1>9, OwnSteps DEF ChatStep

\* The worker and the dispatcher of a chat component.
LEMMA ChatWorkerMail ==
    ASSUME Mail, ChatHolds, ChatSide, IsChat, ended = "no",
           \/ WorkerStep
           \/ ChatApply \/ ChatLogin \/ ChatOperate \/ ChatShutdown \/ Dispatch \/ DispatcherWake
    PROVE  Mail' /\ ChatHolds'
<1>1. /\ worker # "poll" /\ AllSingle(resq) /\ IsVec(resq) /\ fetched \in Nat /\ ~IsIo
      /\ cmdq \in Seq({"connect", "prompt", "op", "setchat"})
  BY DEF ChatHolds, ChatSide, Mail, IsIo, IsChat
<1>2. UNCHANGED <<kind, ended, phase, held, outq, delivered>>
  <2>1. CASE WorkerStep
    BY <2>1 DEF WorkerStep, WorkerRecv, WorkerConnect, WorkerLoggedIn, WorkerOperate, WorkerPoll,
       WorkerShutdown, WorkerWake, nodeVars, edges, call
  <2>2. CASE ~WorkerStep
    BY <2>2 DEF ChatApply, ChatLogin, ChatOperate, ChatShutdown, Dispatch, DispatcherWake, nodeVars,
       edges, call, ioVars
  <2>. QED  BY <2>1, <2>2
<1>3. ASSUME worker' # "poll", AllSingle(resq') PROVE ChatHolds'
  BY <1>2, <1>3 DEF ChatHolds, IsChat
<1>4. ASSUME worker' # "poll", UNCHANGED <<resq, fetched>> PROVE Mail' /\ ChatHolds'
  BY <1>1, <1>2, <1>3, <1>4, MailStays
<1>5. ASSUME NEW x, resq' = Append(resq, x), x[2] = <<>>, UNCHANGED fetched, worker' # "poll"
      PROVE  Mail' /\ ChatHolds'
  <2>1. Single(x[2])  BY <1>5 DEF Single
  <2>2. AllSingle(resq')  BY <1>1, <1>5, <2>1, SingleAppended
  <2>. QED  BY <1>2, <1>3, <1>5, <2>2, MailAnswered
<1>6. ASSUME NEW n \in {0, 1}, NEW t, resq' = Append(resq, <<t, NewMail(n)>>), fetched' = fetched + n,
             worker' # "poll"
      PROVE  Mail' /\ ChatHolds'
  <2> DEFINE x == <<t, NewMail(n)>>
  <2>1. x[2] = Run(fetched, fetched + n) /\ Single(x[2])  BY <1>1, SingleMail
  <2>2. resq' = Append(resq, x) /\ n \in Nat  BY <1>6
  <2> HIDE DEF x
  <2>3. AllSingle(resq')  BY <1>1, <2>1, <2>2, SingleAppended
  <2>4. Mail'  BY <1>2, <1>6, <2>1, <2>2, MailAnswers
  <2>. QED  BY <1>3, <1>6, <2>3, <2>4
<1>7. CASE WorkerStep
  <2>1. ~(WorkerConnect \/ WorkerOperate \/ WorkerPoll \/ WorkerShutdown)
    BY <1>1 DEF WorkerConnect, WorkerOperate, WorkerPoll, WorkerShutdown
  <2>2. CASE WorkerRecv
    <3>1. UNCHANGED <<resq, fetched>>  BY <2>2 DEF WorkerRecv, history
    <3>2. worker' # "poll"
      <4>1. CASE cmdq # <<>> /\ worker' = Head(cmdq)
        <5>1. Head(cmdq) \in {"connect", "prompt", "op", "setchat"}
          BY <1>1, <4>1, HeadTailProperties
        <5>. QED  BY <4>1, <5>1
      <4>2. CASE worker' = "gone"  BY <4>2
      <4>. QED  BY <2>2, <4>1, <4>2 DEF WorkerRecv
    <3>. QED  BY <1>4, <3>1, <3>2
  <2>3. CASE WorkerLoggedIn
    <3>1. UNCHANGED fetched /\ resq' = Append(resq, <<"connected", <<>>>>) /\ worker' # "poll"
      BY <2>3 DEF WorkerLoggedIn, Answer, history
    <3>. QED  BY <1>5, <3>1
  <2>4. CASE WorkerWake
    <3>1. UNCHANGED <<resq, fetched>> /\ worker' # "poll"  BY <2>4 DEF WorkerWake, history
    <3>. QED  BY <1>4, <3>1
  <2>. QED  BY <1>7, <2>1, <2>2, <2>3, <2>4 DEF WorkerStep
<1>8. CASE ChatApply \/ ChatShutdown \/ DispatcherWake
  <2>1. UNCHANGED <<resq, fetched>> /\ worker' # "poll"
    BY <1>1, <1>8 DEF ChatApply, ChatShutdown, DispatcherWake, history, ioVars, channels
  <2>. QED  BY <1>4, <2>1
<1>9. CASE ChatLogin
  <2>1. UNCHANGED fetched /\ worker' # "poll"  BY <1>9 DEF ChatLogin, history
  <2>2. CASE UNCHANGED resq  BY <1>4, <2>1, <2>2
  <2>3. CASE \E t : resq' = Append(resq, <<t, <<>>>>)
    <3>1. PICK t : resq' = Append(resq, <<t, <<>>>>)  BY <2>3
    <3>. QED  BY <1>5, <2>1, <3>1
  <2>. QED  BY <1>9, <2>2, <2>3 DEF ChatLogin, SendResult
<1>10. CASE ChatOperate
  <2>1. worker' # "poll"  BY <1>10 DEF ChatOperate
  <2>2. CASE UNCHANGED <<resq, fetched>>  BY <1>4, <2>1, <2>2
  <2>3. CASE UNCHANGED fetched /\ resq' = Append(resq, <<"error", <<>>>>)  BY <1>5, <2>1, <2>3
  <2>4. CASE \E n \in {0, 1} : resq' = Append(resq, <<"done", NewMail(n)>>) /\ fetched' = fetched + n
    <3>1. PICK n \in {0, 1} : resq' = Append(resq, <<"done", NewMail(n)>>) /\ fetched' = fetched + n
      BY <2>4
    <3>. QED  BY <1>6, <2>1, <3>1
  <2>5. CASE /\ SendResult(<<"done", NewMail(IF kind.dispatches = "no" THEN 1 ELSE 0)>>)
             /\ fetched' = IF kind.dispatches = "no" /\ ended = "no" THEN fetched + 1 ELSE fetched
    <3>1. CASE kind.dispatches = "no"
      <4>1. resq' = Append(resq, <<"done", NewMail(1)>>) /\ fetched' = fetched + 1
        BY <2>5, <3>1 DEF SendResult
      <4>. QED  BY <2>4, <4>1
    <3>2. CASE kind.dispatches # "no"
      <4>1. resq' = Append(resq, <<"done", NewMail(0)>>) /\ fetched' = fetched + 0
        BY <1>1, <2>5, <3>2 DEF SendResult
      <4>. QED  BY <2>4, <4>1
    <3>. QED  BY <3>1, <3>2
  <2>. QED  BY <1>10, <2>2, <2>3, <2>5 DEF ChatOperate, SendResult
<1>11. CASE Dispatch
  <2>1. worker' # "poll"  BY <1>1, <1>11 DEF Dispatch
  <2>2. CASE UNCHANGED <<resq, fetched>>  BY <1>4, <2>1, <2>2
  <2>3. CASE resq' = Append(resq, <<"message", NewMail(1)>>) /\ fetched' = fetched + 1
    BY <1>6, <2>1, <2>3
  <2>. QED  BY <1>11, <2>2, <2>3 DEF Dispatch, SendResult
<1>. QED  BY <1>7, <1>8, <1>9, <1>10, <1>11

\* process() of a chat component that is not dropped.
LEMMA ChatProcessMail ==
    ASSUME Mail, ChatHolds, PortInv, IsChat, ended = "no", ended' = "no", UNCHANGED kind,
           \/ ChatWaiting \/ ChatPrompt \/ ChatResult \/ ChatDeliver \/ ChatInput \/ ChatSend
           \/ ChatEnd \/ ChatDrop
    PROVE  Mail' /\ ChatHolds'
<1>1. /\ worker # "poll" /\ AllSingle(resq) /\ IsVec(resq) /\ kind.first = "state"
      /\ phase \notin {"setchat", "deliver", "finished", "panicked"} => held = <<>>
      /\ phase \in {"setchat", "deliver"} => held # <<>> /\ Tail(held) = <<>>
  BY ChatIs DEF ChatHolds, Mail
<1>2. ASSUME UNCHANGED <<worker, resq>>,
             IF phase' \in {"setchat", "deliver"} THEN held' # <<>> /\ Tail(held') = <<>>
             ELSE phase' \in {"finished", "panicked"} \/ held' = <<>>
      PROVE  ChatHolds'
  BY <1>1, <1>2 DEF ChatHolds, IsChat
<1>3. ASSUME UNCHANGED <<worker, resq, held, fetched, outq, delivered>>,
             \/ held = <<>> /\ phase' \notin {"setchat", "deliver"}
             \/ phase' \in {"finished", "panicked"}
             \/ phase \in {"setchat", "deliver"} /\ phase' \in {"setchat", "deliver"}
      PROVE  Mail' /\ ChatHolds'
  BY <1>1, <1>2, <1>3, MailStays
<1>4. CASE ChatWaiting
  <2>1. UNCHANGED <<worker, resq, held, fetched, outq, delivered>> /\ held = <<>>
    BY <1>1, <1>4 DEF ChatWaiting, history
  <2>2. phase' \in {"idle", "state", "panicked"}
    BY <1>1, <1>4, DidWorkTo, NoWorkTo, GotoTo DEF ChatWaiting
  <2>. QED  BY <1>3, <2>1, <2>2
<1>5. CASE ChatPrompt
  <2>1. UNCHANGED <<worker, resq, held, fetched, outq, delivered>> /\ held = <<>>
    BY <1>1, <1>5 DEF ChatPrompt, ioVars, channels, history
  <2>2. phase' \in {"idle", "prompt", "finished"}  BY <1>5, NoWorkTo, GotoTo DEF ChatPrompt
  <2>. QED  BY <1>3, <2>1, <2>2
<1>6. CASE ChatInput
  <2>1. UNCHANGED <<worker, resq, held, fetched, outq, delivered>> /\ held = <<>>
    BY <1>1, <1>6 DEF ChatInput, ioVars, channels, history
  <2>2. phase' \in {"op", "panicked", "end"}  BY <1>6, GotoTo DEF ChatInput
  <2>. QED  BY <1>3, <2>1, <2>2
<1>7. CASE ChatEnd
  <2>1. UNCHANGED <<worker, resq, held, fetched, outq, delivered>> /\ held = <<>>
    BY <1>1, <1>7 DEF ChatEnd, ioVars, channels, history, edges
  <2>2. phase' \in {"idle", "state"}  BY <1>1, <1>7, ResultTo DEF ChatEnd
  <2>. QED  BY <1>3, <2>1, <2>2
<1>8. CASE ChatDrop
  <2>1. phase # "no" /\ Retire(phase)  BY <1>8 DEF ChatDrop
  <2>. QED  BY <2>1, RetireTo
<1>9. CASE ChatSend
  <2>1. UNCHANGED <<worker, resq, held, fetched, outq, delivered>>
    BY <1>9 DEF ChatSend, edges
  <2>2. CASE phase = "setchat"
    <3>1. phase' = "deliver"  BY <1>9, <2>2, GotoTo DEF ChatSend
    <3>. QED  BY <1>3, <2>1, <2>2, <3>1
  <2>3. CASE phase = "prompt"
    <3>1. phase' \in {"idle", "state", "finished"}  BY <1>1, <1>9, <2>3, DidWorkTo, GotoTo DEF ChatSend
    <3>. QED  BY <1>1, <1>3, <2>1, <2>3, <3>1
  <2>4. CASE phase = "op"
    <3>1. phase' \in {"end", "finished"}  BY <1>9, <2>4, GotoTo DEF ChatSend
    <3>. QED  BY <1>1, <1>3, <2>1, <2>4, <3>1
  <2>. QED  BY <1>9, <2>2, <2>3, <2>4 DEF ChatSend
<1>10. CASE ChatDeliver
  <2>1. held # <<>> /\ Tail(held) = <<>>  BY <1>1, <1>10 DEF ChatDeliver
  <2>2. UNCHANGED <<delivered, worker, resq, fetched>>  BY <1>10 DEF ChatDeliver, channels, history
  <2>3. CASE Room(1)
    <3>1. Push(1, Head(held)) /\ held' = <<>> /\ phase' = "input"  BY <1>10, <2>3, GotoTo DEF ChatDeliver
    <3>2. Mail'  BY <2>1, <2>2, <3>1, MailSent
    <3>. QED  BY <1>2, <2>2, <3>1, <3>2
  <2>4. CASE ~Room(1)
    <3>1. phase' = "finished" /\ UNCHANGED <<outq, held>>  BY <1>10, <2>4, GotoTo DEF ChatDeliver
    <3>. QED  BY <1>3, <2>2, <3>1
  <2>. QED  BY <2>3, <2>4
<1>11. CASE ChatResult
  <2>1. UNCHANGED <<outq, delivered, worker, fetched>> /\ held = <<>>
    BY <1>1, <1>11 DEF ChatResult, edges, history
  <2>2. CASE remaining_budget > 0 /\ resq # <<>>
    <3>1. resq' = Tail(resq) /\ held' = Head(resq)[2]  BY <1>11, <2>2 DEF ChatResult
    <3>2. Mail'  BY <2>1, <2>2, <3>1, MailTaken
    <3>3. Single(held') /\ AllSingle(resq')  BY <1>1, <2>2, <3>1, SingleTaken
    <3>4. IF held' = <<>> THEN phase' = "input" ELSE phase' \in {"setchat", "deliver"}
      BY <1>11, <2>2, <3>1, GotoTo DEF ChatResult
    <3>5. ChatHolds'  BY <1>1, <2>1, <3>3, <3>4 DEF ChatHolds, Single
    <3>. QED  BY <3>2, <3>5
  <2>3. CASE ~(remaining_budget > 0 /\ resq # <<>>)
    <3>1. phase' = "input" /\ UNCHANGED <<resq, held>>  BY <1>11, <2>3, GotoTo DEF ChatResult
    <3>. QED  BY <1>3, <2>1, <3>1
  <2>. QED  BY <2>2, <2>3
<1>. QED  BY <1>4, <1>5, <1>6, <1>7, <1>8, <1>9, <1>10, <1>11

\* A chat component that is not dropped.
LEMMA ChatMail ==
    ASSUME Mail, ChatHolds, ChatSide, PhaseInv, PortInv, IsChat, Next, ended' = "no"
    PROVE  Mail' /\ ChatHolds'
<1>1. ended = "no" /\ ~ComponentStep /\ HasWorker  BY ChatStillRuns DEF HasWorker, IsChat
<1>2. UNCHANGED kind  BY KindStays
<1>3. CASE (Neighbours \/ Activate) /\ UNCHANGED ioVars
  <2>1. UNCHANGED <<worker, resq, held>>  BY <1>3 DEF ioVars, channels
  <2>2. UNCHANGED phase \/ (phase = "idle" /\ phase' = "state")
    <3>1. CASE Neighbours  BY <3>1, NeighboursCall DEF call
    <3>2. CASE Activate
      <4>1. kind.first = "state"  BY ChatIs
      <4>. QED  BY <3>2, <4>1 DEF Activate
    <3>. QED  BY <1>3, <3>1, <3>2
  <2>3. ChatHolds'  BY <1>1, <1>2, <2>1, <2>2 DEF ChatHolds, IsChat
  <2>. QED  BY <1>3, <2>3, NeighboursMail
<1>4. CASE WorkerStep \/ ChatApply \/ ChatLogin \/ ChatOperate \/ ChatShutdown \/ Dispatch
           \/ DispatcherWake
  BY <1>1, <1>4, ChatWorkerMail
<1>5. CASE ChatWaiting \/ ChatPrompt \/ ChatResult \/ ChatDeliver \/ ChatInput \/ ChatSend
           \/ ChatEnd \/ ChatDrop
  BY <1>1, <1>2, <1>5, ChatProcessMail
<1>. QED  BY <1>1, <1>3, <1>4, <1>5, OwnSteps DEF ChatStep

-----------------------------------------------------------------------------
(* Servers and file readers.                                               *)

Reads == kind \in ServerKinds \cup {FileReader, FileTailer}

ChunkInv == Reads => Chunks

\* FileReader has the contents of one file at most to look at.
OneRead ==
    kind = FileReader /\ resq # <<>> => Tail(resq) = <<>> /\ Single(Head(resq)[2])

\* The servers that read chunks are those of Server, not HTTPServer.
LEMMA ChunkServers ==
    /\ \A k \in ServerKinds : k.family = "server" /\ k.visit = "read"
    /\ FileReader.family = "poller" /\ FileTailer.family = "poller"
<1>1. TCPServer.family = "server" /\ TCPServer.visit = "read"  BY DEF TCPServer
<1>2. UnixSocketServer.family = "server" /\ UnixSocketServer.visit = "read"
  BY DEF TCPServer, UnixSocketServer
<1>3. WSServer.family = "server" /\ WSServer.visit = "read"  BY DEF TCPServer, WSServer
<1>4. TLSServer.family = "server" /\ TLSServer.visit = "read"  BY DEF TCPServer, TLSServer
<1>. QED  BY <1>1, <1>2, <1>3, <1>4, PollerNames DEF ServerKinds

\* With an empty channel all chunks are sent or held.
LEMMA AllStocked == ASSUME Chunks, resq = <<>> PROVE Stocked(fetched)
<1>1. PICK a \in Nat : Stocked(a)  BY DEF Chunks
<1>2. fetched \in Nat /\ Runs(<<>>, a, fetched)  BY <1>1 DEF Chunks, Stocked
<1>3. a = fetched  BY <1>2, RunsEmpty
<1>. QED  BY <1>1, <1>3

\* A chunk is read and sent or held right away.
LEMMA ChunkRead ==
    ASSUME Chunks, resq = <<>>, resq' = <<>>, fetched' = fetched + 1, UNCHANGED delivered,
           \/ Push(1, <<1, fetched + 1, 1>>) /\ UNCHANGED held
           \/ held' = Append(held, <<1, fetched + 1, 1>>) /\ UNCHANGED outq
    PROVE  Chunks'
<1>1. fetched \in Nat /\ fetched + 1 \in Nat  BY DEF Chunks
<1>2. PICK a \in Nat : a = fetched  BY <1>1
<1>3. Stocked(a)  BY <1>2, AllStocked
<1>4. Runs(resq', a + 1, fetched') /\ fetched' \in Nat  BY <1>1, <1>2, RunsEmpty
<1>5. IsVec(resq')  BY VecEmpty
<1>6. \/ Push(1, <<1, a + 1, 1>>) /\ UNCHANGED <<delivered, held>>
      \/ held' = Append(held, <<1, a + 1, 1>>) /\ UNCHANGED <<outq, delivered>>
  BY <1>2
<1>. QED  BY <1>3, <1>4, <1>5, <1>6, ChunkAdded

\* What a server does.
LEMMA ServerChunks ==
    ASSUME Chunks, NoResults, kind \in ServerKinds, ServerStep
    PROVE  Chunks'
<1>1. resq = <<>>  BY ChunkServers DEF NoResults
<1>2. CASE Listen \/ Accept \/ Handshake \/ ReadDone \/ RouteResponse \/ RetryResponse \/ SendResponse
           \/ QueueResponse \/ EndServer
  <2>1. UNCHANGED <<held, resq, fetched, outq, delivered>>
    BY <1>2 DEF Listen, Accept, Handshake, ReadDone, RouteResponse, RetryResponse, SendResponse,
       QueueResponse, EndServer, edges, ioRest, ioVars, channels, history
  <2>. QED  BY <2>1, ChunksStay
<1>3. CASE FlushOutbound
  <2>1. UNCHANGED <<delivered, resq, fetched>>  BY <1>3 DEF FlushOutbound, ioRest, channels
  <2>2. CASE held # <<>> /\ Push(1, Head(held)) /\ held' = Tail(held)  BY <2>1, <2>2, ChunkFlushed
  <2>3. CASE UNCHANGED <<outq, held>>  BY <2>1, <2>3, ChunksStay
  <2>. QED  BY <1>3, <2>2, <2>3 DEF FlushOutbound
<1>4. CASE ReadClient
  <2>1. UNCHANGED <<delivered, resq>>  BY <1>4 DEF ReadClient, ioRest, channels
  <2>2. CASE UNCHANGED <<outq, held, fetched>>  BY <2>1, <2>2, ChunksStay
  <2>3. CASE /\ fetched' = fetched + 1
             /\ IF Room(1) THEN Push(1, <<1, fetched + 1, 1>>) /\ UNCHANGED held
                ELSE held' = Append(held, <<1, fetched + 1, 1>>) /\ UNCHANGED outq
    BY <1>1, <2>1, <2>3, ChunkRead
  <2>. QED  BY <1>4, <2>2, <2>3 DEF ReadClient
<1>. QED  BY <1>2, <1>3, <1>4 DEF ServerStep

\* Sending what is pending, of FileReader and FileTailer.
LEMMA PendingChunks == ASSUME Chunks, FlushPending PROVE Chunks'
<1>1. UNCHANGED <<delivered, resq, fetched>>  BY DEF FlushPending
<1>2. CASE held # <<>> /\ Push(1, Head(held)) /\ held' = Tail(held)  BY <1>1, <1>2, ChunkFlushed
<1>3. CASE UNCHANGED <<outq, held>>  BY <1>1, <1>3, ChunksStay
<1>. QED  BY <1>2, <1>3 DEF FlushPending

\* What FileTailer does.
LEMMA TailerChunks ==
    ASSUME Chunks, NoResults, kind = FileTailer, OpenFile \/ FlushPending \/ TailFile \/ EndPoll
    PROVE  Chunks'
<1>1. resq = <<>>  BY DEF NoResults
<1>2. CASE OpenFile \/ EndPoll
  <2>1. UNCHANGED <<held, resq, fetched, outq, delivered>>
    BY <1>2 DEF OpenFile, EndPoll, edges, ioVars, channels, history
  <2>. QED  BY <2>1, ChunksStay
<1>3. CASE TailFile
  <2>1. UNCHANGED <<delivered, resq>>  BY <1>3 DEF TailFile, channels
  <2>2. CASE UNCHANGED <<outq, held, fetched>>  BY <2>1, <2>2, ChunksStay
  <2>3. CASE /\ fetched' = fetched + 1
             /\ IF Room(1) THEN Push(1, Next1) /\ UNCHANGED held
                ELSE held' = Append(held, Next1) /\ UNCHANGED outq
    BY <1>1, <2>1, <2>3, ChunkRead DEF Next1
  <2>. QED  BY <1>3, <2>2, <2>3 DEF TailFile
<1>. QED  BY <1>2, <1>3, PendingChunks

\* The next message alone.
LEMMA OneRun == ASSUME NEW a \in Nat PROVE Run(a, a + 1) = <<<<1, a + 1, 1>>>>
<1> DEFINE x == <<1, a + 1, 1>>
<1>1. a <= a  OBVIOUS
<1>2. Append(Run(a, a), x) = Run(a, a + 1)  BY <1>1, RunAppend
<1>3. Run(a, a) = <<>>  BY EmptyRun
<1> HIDE DEF x
<1>4. Append(<<>>, x) = <<x>>  OBVIOUS
<1>5. Run(a, a + 1) = <<x>>  BY <1>2, <1>3, <1>4
<1>. QED  BY <1>5 DEF x

\* FileReader's thread has read a file.
LEMMA FileRead ==
    ASSUME Chunks, ReaderInv, kind = FileReader, ReadFile
    PROVE  Chunks' /\ resq' # <<>> /\ Tail(resq') = <<>> /\ Single(Head(resq')[2])
<1>1. resq = <<>> /\ fetched \in Nat  BY DEF ReaderInv, ReadFile, Chunks
<1>2. UNCHANGED <<held, outq, delivered>>  BY DEF ReadFile, nodeVars, edges
<1>3. ASSUME NEW x, resq' = <<x>>, fetched' \in Nat, fetched <= fetched', x[2] = Run(fetched, fetched'),
             Single(x[2])
      PROVE  Chunks' /\ resq' # <<>> /\ Tail(resq') = <<>> /\ Single(Head(resq')[2])
  <2>1. resq' = Append(<<>>, x)  BY <1>3
  <2>2. IsVec(<<>>) /\ Runs(<<>>, fetched, fetched)  BY <1>1, VecEmpty, RunsEmpty
  <2>3. IsVec(resq')  BY <2>1, <2>2, VecAppend
  <2>4. Runs(resq', fetched, fetched')  BY <1>1, <1>3, <2>1, <2>2, RunsAppend
  <2>5. TripleEdges' /\ OutOf(1)' = OutOf(1) /\ held' \in Seq(Triple)
    BY <1>2 DEF Chunks, TripleEdges, OutOf
  <2>6. Stocked(fetched)  BY <1>1, AllStocked
  <2>7. PICK a \in Nat : a = fetched  BY <1>1
  <2>8. Stocked(a)'  BY <1>2, <2>4, <2>5, <2>6, <2>7 DEF Stocked, Items
  <2>9. Chunks'  BY <1>3, <2>3, <2>5, <2>8 DEF Chunks
  <2>. QED  BY <1>3, <2>9
<1>4. CASE fetched' = fetched + 1 /\ resq' = <<<<"done", <<Next1>>>>>>
  <2>2. Run(fetched, fetched + 1) = <<Next1>>  BY <1>1, OneRun DEF Next1
  <2> DEFINE x == <<"done", <<Next1>>>>
  <2>3. resq' = <<x>> /\ x[2] = Run(fetched, fetched') /\ Single(x[2])  BY <1>4, <2>2 DEF Single
  <2>4. fetched' \in Nat /\ fetched <= fetched'  BY <1>1, <1>4
  <2> HIDE DEF x
  <2>. QED  BY <1>3, <2>3, <2>4
<1>5. CASE resq' = <<<<"error", <<>>>>>> /\ UNCHANGED fetched
  <2> DEFINE x == <<"error", <<>>>>
  <2>1. resq' = <<x>> /\ x[2] = Run(fetched, fetched') /\ Single(x[2])
    BY <1>1, <1>5, EmptyRun DEF Single
  <2>2. fetched' \in Nat /\ fetched <= fetched'  BY <1>1, <1>5
  <2> HIDE DEF x
  <2>. QED  BY <1>3, <2>1, <2>2
<1>. QED  BY <1>4, <1>5 DEF ReadFile

\* Its process() takes what was read.
LEMMA ReadFinished ==
    ASSUME Chunks, OneRead, kind = FileReader, FinishRead
    PROVE  Chunks' /\ (resq' = <<>> \/ UNCHANGED resq)
<1>1. UNCHANGED <<delivered, fetched>>  BY DEF FinishRead
<1>2. CASE UNCHANGED <<outq, held, resq>>  BY <1>1, <1>2, ChunksStay
<1>3. CASE /\ resq # <<>> /\ resq' = <<>>
           /\ IF Head(resq)[2] # <<>> /\ Room(1)
              THEN Push(1, Head(Head(resq)[2])) /\ UNCHANGED held
              ELSE held' = held \o Head(resq)[2] /\ UNCHANGED outq
  <2> DEFINE content == Head(resq)[2]
  <2>1. fetched \in Nat /\ IsVec(resq) /\ held \in Seq(Triple)  BY DEF Chunks
  <2>2. PICK a \in Nat : Stocked(a)  BY DEF Chunks
  <2>3. PICK m \in Nat : a <= m /\ content = Run(a, m) /\ Runs(Tail(resq), m, fetched)
    BY <1>3, <2>1, <2>2, RunsTail DEF Stocked
  <2>4. Tail(resq) = <<>> /\ Single(content)  BY <1>3 DEF OneRead
  <2>5. m = fetched  BY <2>1, <2>3, <2>4, RunsEmpty
  <2>6. IsVec(resq') /\ fetched' \in Nat  BY <1>1, <1>3, <2>1, VecEmpty
  <2>7. /\ content # <<>> /\ Room(1) => Push(1, Head(content)) /\ UNCHANGED held
        /\ content = <<>> \/ ~Room(1) => held' = held \o content /\ UNCHANGED outq
    BY <1>3
  <2> HIDE DEF content
  <2>8. CASE content = <<>>
    <3>1. a = fetched  BY <2>3, <2>5, <2>8, EmptyRun
    <3>2. held' = held /\ UNCHANGED outq  BY <2>1, <2>7, <2>8, ConcatEmptySeq
    <3>3. Runs(resq', a, fetched')  BY <1>1, <1>3, <2>1, <3>1, RunsEmpty
    <3>4. TripleEdges' /\ OutOf(1)' = OutOf(1) /\ held' \in Seq(Triple)
      BY <1>1, <2>1, <3>2 DEF Chunks, TripleEdges, OutOf
    <3>5. Stocked(a)'  BY <2>2, <3>2, <3>3, <3>4 DEF Stocked, Items
    <3>6. Chunks'  BY <2>6, <3>4, <3>5 DEF Chunks
    <3>. QED  BY <1>3, <3>6
  <2>9. CASE content # <<>>
    <3>1. a + 1 <= m /\ Head(content) = <<1, a + 1, 1>> /\ Tail(content) = Run(a + 1, m)
      BY <2>3, <2>9, RunTail
    <3>2. Run(a + 1, m) = <<>> /\ a + 1 \in Nat  BY <2>4, <2>9, <3>1 DEF Single
    <3>3. m = a + 1  BY <3>1, <3>2, EmptyRun
    <3>4. Runs(resq', a + 1, fetched')  BY <1>1, <1>3, <2>1, <2>5, <3>2, <3>3, RunsEmpty
    <3>5. CASE Room(1)
      <4>1. Push(1, <<1, a + 1, 1>>) /\ UNCHANGED <<delivered, held>>
        BY <1>1, <2>7, <2>9, <3>1, <3>5
      <4>2. Chunks'  BY <2>2, <2>6, <3>4, <4>1, ChunkAdded
      <4>. QED  BY <1>3, <4>2
    <3>6. CASE ~Room(1)
      <4> DEFINE x == <<1, a + 1, 1>>
      <4>2. content = <<x>>  BY <2>3, <3>3, OneRun
      <4>3. x \in Triple  BY DEF Triple
      <4>4. held' = held \o <<x>> /\ UNCHANGED outq  BY <2>7, <3>6, <4>2
      <4> HIDE DEF x
      <4>5. held \o <<x>> = Append(held, x)  BY <2>1, <4>3
      <4>6. held' = Append(held, <<1, a + 1, 1>>) /\ UNCHANGED <<outq, delivered>>
        BY <1>1, <4>4, <4>5 DEF x
      <4>7. Chunks'  BY <2>2, <2>6, <3>4, <4>6, ChunkAdded
      <4>. QED  BY <1>3, <4>7
    <3>. QED  BY <3>5, <3>6
  <2>. QED  BY <2>8, <2>9
<1>. QED  BY <1>2, <1>3 DEF FinishRead

-----------------------------------------------------------------------------
(* The invariant and the theorem.                                          *)

MailInv == (kind.family = "fetcher" \/ IsChat) /\ ended = "no" => Mail

ReceivedInv == MailInv /\ ChatHolds /\ ChunkInv /\ OneRead

\* A component starts without messages.
LEMMA ReceivedInit == ASSUME Init PROVE ReceivedInv
<1>1. /\ held = <<>> /\ resq = <<>> /\ fetched = 0 /\ phase = "idle"
      /\ outq = [q \in OutPorts |-> <<>>] /\ delivered = [q \in OutPorts |-> <<>>]
      /\ worker \in {"none", "recv"}
  BY DEF Init, NodeInit, IoInit
<1>2. \A S : <<>> \in Seq(S) /\ Len(<<>>) = 0  OBVIOUS
<1>3. TripleEdges /\ 1 \in OutPorts  BY <1>1, <1>2 DEF TripleEdges, OutPorts
<1>4. OutOf(1) = <<>>
  <2>1. OutOf(1) = <<>> \o <<>>  BY <1>1, <1>3 DEF OutOf
  <2>. QED  BY <2>1
<1>5. Run(0, 0) = <<>> /\ Runs(resq, 0, fetched) /\ IsVec(resq) /\ 0 <= 0
  BY <1>1, EmptyRun, RunsEmpty, VecEmpty
<1>6. Passing(0, 0)  BY <1>1, <1>4, <1>5 DEF Passing
<1>7. Mail  BY <1>1, <1>3, <1>5, <1>6 DEF Mail
<1>8. Stocked(0)
  <2>1. First(0) = {} /\ Items(<<>>) = {}  BY <1>2 DEF First, Items
  <2>2. Len(OutOf(1)) + Len(held) = 0  BY <1>1, <1>2, <1>4
  <2>3. Items(OutOf(1)) = {} /\ Items(held) = {}  BY <1>1, <1>4, <2>1
  <2>. QED  BY <1>5, <2>1, <2>2, <2>3 DEF Stocked
<1>9. Chunks  BY <1>1, <1>2, <1>3, <1>5, <1>8 DEF Chunks
<1>10. ChatHolds  BY <1>1, <1>2 DEF ChatHolds, AllSingle
<1>. QED  BY <1>1, <1>7, <1>9, <1>10 DEF ReceivedInv, MailInv, ChunkInv, OneRead

\* What a server and FileTailer keep.
LEMMA AloneChunks ==
    ASSUME Chunks, RestPhases, NoResults, PortInv, kind \in ServerKinds \/ kind = FileTailer, Next
    PROVE  Chunks'
<1>1. /\ kind \in ServerKinds => IsServer /\ kind.visit = "read"
      /\ kind = FileTailer => ~IsServer
  BY ChunkServers DEF IsServer
<1>2. CASE (Neighbours \/ Activate) /\ UNCHANGED ioVars
  <2>1. UNCHANGED <<held, resq, fetched>>  BY <1>2 DEF ioVars, channels, history
  <2>2. Drain \/ UNCHANGED <<outq, delivered>>
    BY <1>2 DEF Neighbours, Feed, Close, Configure, TimerFires, Activate, edges
  <2>. QED  BY <2>1, <2>2, ChunksStay
<1>3. ASSUME IsServer PROVE ~HttpStep
  <2>1. phase \notin {"serve", "request", "response"}
    BY <1>1, <1>3 DEF RestPhases, ServerPhases
  <2>. QED
    BY <2>1 DEF HttpStep, ServeClient, ServeDone, SendRequest, RequestsSent, TakeResponse, ResponsesTaken
<1>4. CASE IsServer /\ ServerStep  BY <1>1, <1>4, ServerChunks
<1>5. CASE kind = FileTailer /\ (OpenFile \/ FlushPending \/ TailFile \/ EndPoll)
  BY <1>5, TailerChunks
<1>. QED  BY <1>1, <1>2, <1>3, <1>4, <1>5, AloneSteps

\* What FileReader keeps.
LEMMA ReaderChunks ==
    ASSUME Chunks, OneRead, PollPhases, ReaderInv, kind = FileReader, Next
    PROVE  Chunks' /\ OneRead'
<1>1. UNCHANGED kind  BY KindStays
<1>2. ASSUME UNCHANGED <<held, resq, fetched>>, Drain \/ UNCHANGED <<outq, delivered>>
      PROVE  Chunks' /\ OneRead'
  BY <1>1, <1>2, ChunksStay DEF OneRead
<1>3. CASE (Neighbours \/ Activate) /\ UNCHANGED ioVars
  <2>1. UNCHANGED <<held, resq, fetched>>  BY <1>3 DEF ioVars, channels, history
  <2>2. Drain \/ UNCHANGED <<outq, delivered>>
    BY <1>3 DEF Neighbours, Feed, Close, Configure, TimerFires, Activate, edges
  <2>. QED  BY <1>2, <2>1, <2>2
<1>4. CASE WakeForLine \/ TakeName \/ EndPoll
  <2>1. UNCHANGED <<held, resq, fetched, outq, delivered>>
    BY <1>4 DEF WakeForLine, TakeName, EndPoll, edges, ioVars, channels, history
  <2>. QED  BY <1>2, <2>1
<1>5. CASE FlushPending
  <2>1. UNCHANGED resq  BY <1>5 DEF FlushPending
  <2>. QED  BY <1>1, <1>5, <2>1, PendingChunks DEF OneRead
<1>6. CASE ReadFile  BY <1>1, <1>6, FileRead DEF OneRead
<1>7. CASE FinishRead  BY <1>1, <1>7, ReadFinished DEF OneRead
<1>8. FileReader # Cmd  BY PollerNames
<1>. QED  BY <1>3, <1>4, <1>5, <1>6, <1>7, <1>8, PollSteps

\* Every step keeps it.
LEMMA ReceivedStep ==
    ASSUME ReceivedInv, PortInv, PhaseInv, ChannelInv, PollPhases, NoResults, ReaderInv, ChatSide,
           RestPhases, [Next]_vars
    PROVE  ReceivedInv'
<1>1. UNCHANGED kind  BY KindStays DEF vars, nodeVars
<1>2. MailInv /\ ChatHolds /\ ChunkInv /\ OneRead  BY DEF ReceivedInv
<1>3. CASE UNCHANGED vars
  <2>1. UNCHANGED <<kind, phase, ended, outq, delivered, held, resq, worker, fetched>>
    BY <1>3 DEF vars, nodeVars, edges, call, ioVars, channels, history
  <2>2. Mail' <=> Mail  BY <2>1 DEF Mail, Passing, TripleEdges, OutOf
  <2>3. Chunks' <=> Chunks  BY <2>1 DEF Chunks, Stocked, TripleEdges, OutOf
  <2>4. MailInv' /\ ChunkInv'  BY <1>2, <2>1, <2>2, <2>3 DEF MailInv, ChunkInv, Reads, IsChat
  <2>5. ChatHolds' /\ OneRead'  BY <1>2, <2>1 DEF ChatHolds, AllSingle, OneRead, IsChat
  <2>. QED  BY <2>4, <2>5 DEF ReceivedInv
<1> SUFFICES ASSUME Next PROVE ReceivedInv'  BY <1>3
<1>4. MailInv' /\ ChatHolds'
  <2>1. CASE kind.family = "fetcher"
    <3>1. ~IsChat  BY <2>1 DEF IsChat
    <3>2. ChatHolds'  BY <1>1, <3>1 DEF ChatHolds, IsChat
    <3>3. ASSUME ended' = "no" PROVE Mail'
      <4>1. Counted  BY <2>1 DEF Counted
      <4>2. ended = "no"  BY <3>3, <4>1, StillRuns
      <4>3. Mail  BY <1>2, <2>1, <4>2 DEF MailInv
      <4>. QED  BY <2>1, <3>3, <4>3, FetcherMail
    <3>. QED  BY <3>2, <3>3 DEF MailInv
  <2>2. CASE IsChat
    <3>1. ASSUME ended' = "no" PROVE Mail' /\ ChatHolds'
      <4>1. ended = "no"  BY <2>2, <3>1, ChatStillRuns
      <4>2. Mail  BY <1>2, <2>2, <4>1 DEF MailInv
      <4>. QED  BY <1>2, <2>2, <3>1, <4>2, ChatMail
    <3>. QED  BY <3>1 DEF MailInv, ChatHolds
  <2>3. CASE kind.family # "fetcher" /\ ~IsChat
    BY <1>1, <2>3 DEF MailInv, ChatHolds, IsChat
  <2>. QED  BY <2>1, <2>2, <2>3
<1>5. ChunkInv' /\ OneRead'
  <2>1. CASE kind \in ServerKinds \/ kind = FileTailer
    <3>1. kind # FileReader
      <4>1. FileReader.family = "poller" /\ FileReader.name = "FileReader" /\ FileTailer.name = "FileTailer"
        BY PollerNames
      <4>. QED  BY <2>1, <4>1, ChunkServers
    <3>2. Chunks  BY <1>2, <2>1 DEF ChunkInv, Reads
    <3>3. Chunks'  BY <2>1, <3>2, AloneChunks
    <3>. QED  BY <1>1, <3>1, <3>3 DEF ChunkInv, OneRead
  <2>2. CASE kind = FileReader
    <3>1. Chunks  BY <1>2, <2>2 DEF ChunkInv, Reads
    <3>. QED  BY <1>2, <2>2, <3>1, ReaderChunks DEF ChunkInv
  <2>3. CASE ~Reads
    <3>1. kind # FileReader  BY <2>3 DEF Reads
    <3>. QED  BY <1>1, <2>3, <3>1 DEF ChunkInv, OneRead, Reads
  <2>. QED  BY <2>1, <2>2, <2>3 DEF Reads
<1>. QED  BY <1>4, <1>5 DEF ReceivedInv

\* The invariant holds.
LEMMA ReceivedHolds == Spec => []ReceivedInv
<1>1. Init => ReceivedInv  BY ReceivedInit
<1>2. ComponentInv /\ WorkerInv /\ SideInv /\ GoesInv /\ ReceivedInv /\ [Next]_vars => ReceivedInv'
  <2> SUFFICES ASSUME ComponentInv, WorkerInv, SideInv, GoesInv, ReceivedInv, [Next]_vars
               PROVE  ReceivedInv'
    OBVIOUS
  <2>1. /\ PortInv /\ PhaseInv /\ ChannelInv /\ PollPhases /\ NoResults /\ ReaderInv /\ ChatSide
        /\ RestPhases
    BY DEF ComponentInv, WorkerInv, SideInv, GoesInv, PollersGo
  <2>. QED  BY <2>1, ReceivedStep
<1>. QED  BY <1>1, <1>2, ComponentInvHolds, WorkerInvHolds, SideInvHolds, GoesInvHolds, PTL DEF Spec

\* What a fetch of an IMAP fetcher returned, what a chat component took from
\* its server, a socket server from its clients or FileReader and FileTailer
\* from their files is, while the component runs, in the result channel, in its
\* pending_messages, pending_outbound, pending_files or pending_lines, or sent
\* on, every piece exactly once; mail and chat messages are in the order they
\* came in, whatever the budget, the full edges and the worker's and the
\* dispatcher's sends do.  A fetch that fails returns nothing: the mails lost
\* with it (imap.rs:566) are not among them (imap.rs, openai.rs, telegram.rs,
\* matrix.rs, tcp.rs, file.rs).
THEOREM ReceivedMessagesAreKept == Spec => []ReceivedIsKept
<1>1. ASSUME ReceivedInv PROVE ReceivedIsKept
  <2> SUFFICES ASSUME ended = "no"
               PROVE  /\ kind.family = "fetcher" \/ (IsChat /\ phase # "finished") =>
                             delivered[1] \o outq[1] \o held \o InChannel
                                 = [k \in 1..fetched |-> <<1, k, 1>>]
                      /\ Reads =>
                             LET chunks == delivered[1] \o outq[1] \o held \o InChannel
                             IN /\ Len(chunks) = fetched
                                /\ Items(chunks) = {<<1, k, 1>> : k \in 1..fetched}
    BY DEF ReceivedIsKept, Reads
  <2>1. ASSUME kind.family = "fetcher" \/ IsChat
        PROVE  delivered[1] \o outq[1] \o held \o InChannel = [k \in 1..fetched |-> <<1, k, 1>>]
    BY <1>1, <2>1, MailIsKept DEF ReceivedInv, MailInv
  <2>2. ASSUME Reads
        PROVE  LET chunks == delivered[1] \o outq[1] \o held \o InChannel
               IN /\ Len(chunks) = fetched
                  /\ Items(chunks) = {<<1, k, 1>> : k \in 1..fetched}
    BY <1>1, <2>2, ChunksAreKept DEF ReceivedInv, ChunkInv
  <2>. QED  BY <2>1, <2>2
<1>. QED  BY <1>1, ReceivedHolds, PTL
=============================================================================
