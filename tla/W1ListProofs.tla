----------------------------- MODULE W1ListProofs -----------------------------
(***************************************************************************)
(* Theorems about W1List, for any number of ids, however they are cut into *)
(* messages and headers, and any capacity of the caller's list.            *)
(*                                                                         *)
(* The ids that the callback has taken, those on their way and those the   *)
(* kernel has sent follow one another (ChanInv): what one message ends     *)
(* with, the next one goes on from.  So the list is always the longest run *)
(* of ids from the first one on that fits it (UpTo).                       *)
(***************************************************************************)
EXTENDS W1List, SequenceTheorems, TLAPS

\* A list of capacity max_sz after n ids.
Fits(n) == IF n <= max_sz THEN n ELSE max_sz
UpTo(n) == [i \in 1..Fits(n) |-> i]

\* The callback's state after n ids, inside its loop.
After(n, status, more) ==
  [list |-> UpTo(n), n_recv |-> n, status |-> status, more |-> more, stop |-> FALSE]

\* A message with n ids from f on, after one header or two; and a status.
Carries(m, f, n) ==
  /\ m.isStatus = FALSE
  /\ \/ /\ DOMAIN m.parts = {1}
        /\ m.parts[1].cmd = op /\ m.parts[1].first = f /\ m.parts[1].n = n
     \/ /\ DOMAIN m.parts = {1, 2}
        /\ m.parts[1].cmd = op /\ m.parts[1].first = f /\ m.parts[1].n \in 0..n
        /\ m.parts[2].cmd = op /\ m.parts[2].first = f + m.parts[1].n
        /\ m.parts[2].n = n - m.parts[1].n
Closes(m) ==
  /\ m.isStatus = TRUE
  /\ DOMAIN m.parts = {} \/ (DOMAIN m.parts = {1} /\ m.parts[1].cmd = op /\ m.parts[1].n = 0)

\* The next id of the message at i of a channel c, when s ids have been sent.
Ahead(c, s, i) == IF i > Len(c) \/ c[i].isStatus THEN s + 1 ELSE c[i].parts[1].first

-----------------------------------------------------------------------------
(***************************************************************************)
(* Lemmas.                                                                 *)
(***************************************************************************)

LEMMA MinOfTwo ==
  ASSUME NEW a \in Int, NEW b \in Int
  PROVE  Min({a, b}) = IF a <= b THEN a ELSE b
<1> DEFINE m == IF a <= b THEN a ELSE b
<1>1. m \in {a, b} /\ \A y \in {a, b} : m <= y
  OBVIOUS
<1>2. \A x \in {a, b} : (\A y \in {a, b} : x <= y) => x = m
  OBVIOUS
<1> QED
  BY <1>1, <1>2 DEF Min

LEMMA MaxOfTwo == Max({1}) = 1 /\ Max({2}) = 2 /\ Max({1, 2}) = 2
<1>1. Max({1}) = 1
  BY DEF Max
<1>2. Max({2}) = 2
  BY DEF Max
<1>3. Max({1, 2}) = 2
  <2>1. \A x \in {1, 2} : (\A y \in {1, 2} : x >= y) => x = 2
    OBVIOUS
  <2>2. 2 \in {1, 2} /\ \A y \in {1, 2} : 2 >= y
    OBVIOUS
  <2> QED
    BY <2>1, <2>2 DEF Max
<1> QED
  BY <1>1, <1>2, <1>3

\* The loop of list_masts_cb() over a message of at most two headers.
LEMMA FoldElems ==
  ASSUME NEW s, NEW q, DOMAIN q \in SUBSET {1, 2}
  PROVE  FoldLeft(TakeElems, s, q) =
           IF DOMAIN q = {} THEN s
           ELSE IF DOMAIN q = {1} THEN TakeElems(s, q[1])
           ELSE IF DOMAIN q = {1, 2} THEN TakeElems(TakeElems(s, q[1]), q[2])
           ELSE FoldLeft(TakeElems, s, q)
<1> DEFINE D == DOMAIN q
           F(g) == g = [t \in SUBSET D |->
                          IF t = {} THEN s
                          ELSE TakeElems(g[t \ {Max(t)}], q[Max(t)])]
           it == CHOOSE g : F(g)
           w == [t \in SUBSET D |->
                   IF t = {} THEN s
                   ELSE IF t = {1} THEN TakeElems(s, q[1])
                   ELSE IF t = {2} THEN TakeElems(s, q[2])
                   ELSE TakeElems(TakeElems(s, q[1]), q[2])]
<1>1. FoldLeft(TakeElems, s, q) = it[D]
  BY Zenon DEF FoldLeft, MapThenFoldSet
<1>2. F(w)
  <2>1. ASSUME NEW t \in SUBSET D, t # {}
        PROVE  w[t] = TakeElems(w[t \ {Max(t)}], q[Max(t)])
    <3>1. t = {1} \/ t = {2} \/ t = {1, 2}
      BY <2>1
    <3>2. CASE t = {1}
      <4>1. t \ {Max(t)} = {} /\ Max(t) = 1
        BY <3>2, MaxOfTwo
      <4> QED
        BY <3>2, <4>1
    <3>3. CASE t = {2}
      <4>1. t \ {Max(t)} = {} /\ Max(t) = 2 /\ {2} # {1}
        BY <3>3, MaxOfTwo
      <4> QED
        BY <3>3, <4>1
    <3>4. CASE t = {1, 2}
      <4>1. t \ {Max(t)} = {1} /\ Max(t) = 2 /\ t # {1} /\ t # {2} /\ {1} \in SUBSET D
        BY <3>4, MaxOfTwo
      <4>2. w[t] = TakeElems(TakeElems(s, q[1]), q[2])
        BY <2>1, <4>1
      <4>3. w[{1}] = TakeElems(s, q[1])
        BY <4>1
      <4> QED
        BY <4>1, <4>2, <4>3
    <3> QED
      BY <3>1, <3>2, <3>3, <3>4
  <2>2. w = [t \in SUBSET D |-> IF t = {} THEN s
                                 ELSE TakeElems(w[t \ {Max(t)}], q[Max(t)])]
    BY <2>1
  <2> QED
    BY <2>2
<1>3. it = [t \in SUBSET D |-> IF t = {} THEN s
                                ELSE TakeElems(it[t \ {Max(t)}], q[Max(t)])]
  BY <1>2
<1> HIDE DEF it
<1>4. it[{}] = s
  BY <1>3
<1>5. ASSUME {1} \in SUBSET D
      PROVE  it[{1}] = TakeElems(s, q[1])
  <2>1. {1} # {} /\ {1} \ {Max({1})} = {} /\ Max({1}) = 1
    BY MaxOfTwo
  <2>2. it[{1}] = TakeElems(it[{1} \ {Max({1})}], q[Max({1})])
    BY <1>3, <1>5, <2>1
  <2> QED
    BY <1>4, <2>1, <2>2
<1>6. ASSUME D = {1, 2}
      PROVE  it[D] = TakeElems(TakeElems(s, q[1]), q[2])
  <2>1. D # {} /\ D \in SUBSET D /\ D \ {Max(D)} = {1} /\ Max(D) = 2
    BY <1>6, MaxOfTwo
  <2>2. it[D] = TakeElems(it[D \ {Max(D)}], q[Max(D)])
    BY <1>3, <2>1
  <2>3. {1} \in SUBSET D
    BY <1>6
  <2> QED
    BY <1>5, <2>1, <2>2, <2>3
<1> QED
  BY <1>1, <1>4, <1>5, <1>6

\* The loop of search_slavs_cb() over a message of at most two headers.
LEMMA FoldHeaders ==
  ASSUME NEW s, NEW q, DOMAIN q \in SUBSET {1, 2}
  PROVE  FoldLeft(TakeHeader, s, q) =
           IF DOMAIN q = {} THEN s
           ELSE IF DOMAIN q = {1} THEN TakeHeader(s, q[1])
           ELSE IF DOMAIN q = {1, 2} THEN TakeHeader(TakeHeader(s, q[1]), q[2])
           ELSE FoldLeft(TakeHeader, s, q)
<1> DEFINE D == DOMAIN q
           F(g) == g = [t \in SUBSET D |->
                          IF t = {} THEN s
                          ELSE TakeHeader(g[t \ {Max(t)}], q[Max(t)])]
           it == CHOOSE g : F(g)
           w == [t \in SUBSET D |->
                   IF t = {} THEN s
                   ELSE IF t = {1} THEN TakeHeader(s, q[1])
                   ELSE IF t = {2} THEN TakeHeader(s, q[2])
                   ELSE TakeHeader(TakeHeader(s, q[1]), q[2])]
<1>1. FoldLeft(TakeHeader, s, q) = it[D]
  BY Zenon DEF FoldLeft, MapThenFoldSet
<1>2. F(w)
  <2>1. ASSUME NEW t \in SUBSET D, t # {}
        PROVE  w[t] = TakeHeader(w[t \ {Max(t)}], q[Max(t)])
    <3>1. t = {1} \/ t = {2} \/ t = {1, 2}
      BY <2>1
    <3>2. CASE t = {1}
      <4>1. t \ {Max(t)} = {} /\ Max(t) = 1
        BY <3>2, MaxOfTwo
      <4> QED
        BY <3>2, <4>1
    <3>3. CASE t = {2}
      <4>1. t \ {Max(t)} = {} /\ Max(t) = 2 /\ {2} # {1}
        BY <3>3, MaxOfTwo
      <4> QED
        BY <3>3, <4>1
    <3>4. CASE t = {1, 2}
      <4>1. t \ {Max(t)} = {1} /\ Max(t) = 2 /\ t # {1} /\ t # {2} /\ {1} \in SUBSET D
        BY <3>4, MaxOfTwo
      <4>2. w[t] = TakeHeader(TakeHeader(s, q[1]), q[2])
        BY <2>1, <4>1
      <4>3. w[{1}] = TakeHeader(s, q[1])
        BY <4>1
      <4> QED
        BY <4>1, <4>2, <4>3
    <3> QED
      BY <3>1, <3>2, <3>3, <3>4
  <2>2. w = [t \in SUBSET D |-> IF t = {} THEN s
                                 ELSE TakeHeader(w[t \ {Max(t)}], q[Max(t)])]
    BY <2>1
  <2> QED
    BY <2>2
<1>3. it = [t \in SUBSET D |-> IF t = {} THEN s
                                ELSE TakeHeader(it[t \ {Max(t)}], q[Max(t)])]
  BY <1>2
<1> HIDE DEF it
<1>4. it[{}] = s
  BY <1>3
<1>5. ASSUME {1} \in SUBSET D
      PROVE  it[{1}] = TakeHeader(s, q[1])
  <2>1. {1} # {} /\ {1} \ {Max({1})} = {} /\ Max({1}) = 1
    BY MaxOfTwo
  <2>2. it[{1}] = TakeHeader(it[{1} \ {Max({1})}], q[Max({1})])
    BY <1>3, <1>5, <2>1
  <2> QED
    BY <1>4, <2>1, <2>2
<1>6. ASSUME D = {1, 2}
      PROVE  it[D] = TakeHeader(TakeHeader(s, q[1]), q[2])
  <2>1. D # {} /\ D \in SUBSET D /\ D \ {Max(D)} = {1} /\ Max(D) = 2
    BY <1>6, MaxOfTwo
  <2>2. it[D] = TakeHeader(it[D \ {Max(D)}], q[Max(D)])
    BY <1>3, <2>1
  <2>3. {1} \in SUBSET D
    BY <1>6
  <2> QED
    BY <1>5, <2>1, <2>2, <2>3
<1> QED
  BY <1>1, <1>4, <1>5, <1>6

-----------------------------------------------------------------------------
\* Lists of whole runs: their type and length.
LEMMA RunType ==
  ASSUME max_sz \in Nat, NEW n \in Nat
  PROVE  /\ UpTo(n) \in Seq(Int) /\ Len(UpTo(n)) = Fits(n) /\ Fits(n) \in Nat
         /\ \A i \in 1..Fits(n) : UpTo(n)[i] = i
<1>1. Fits(n) \in Nat
  BY DEF Fits
<1> QED
  BY <1>1 DEF UpTo

\* __COPY_LIST_ELEMS() appends what fits of a run that goes on from the list.
LEMMA TakeRun ==
  ASSUME max_sz \in Nat, NEW n \in Nat, NEW st, NEW mo,
         NEW p, p.n \in Nat, p.first = n + 1 \/ p.n = 0
  PROVE  TakeElems(After(n, st, mo), p) = After(n + p.n, st, mo)
<1> DEFINE fit == Min({p.n, max_sz - Len(UpTo(n))})
           new == [i \in 1..fit |-> p.first + i - 1]
<1>1. fit \in Nat /\ Fits(n) + fit = Fits(n + p.n)
  <2>1. max_sz - Len(UpTo(n)) \in Int /\ Len(UpTo(n)) = Fits(n)
    BY RunType DEF Fits
  <2>2. fit = IF p.n <= max_sz - Fits(n) THEN p.n ELSE max_sz - Fits(n)
    BY <2>1, MinOfTwo
  <2> QED
    BY <2>2 DEF Fits
<1> HIDE DEF fit
<1>2. UpTo(n) \o new = UpTo(n + p.n)
  <2>1. new \in Seq(Int) /\ Len(new) = fit /\ \A i \in 1..fit : new[i] = p.first + i - 1
    <3>1. CASE fit = 0
      BY <3>1
    <3>2. CASE fit # 0
      <4>1. p.first \in Int
        BY <1>1, <3>2 DEF Fits
      <4> QED
        BY <1>1, <4>1
    <3> QED
      BY <3>1, <3>2
  <2>2. /\ UpTo(n) \in Seq(Int) /\ Len(UpTo(n)) = Fits(n)
        /\ UpTo(n + p.n) \in Seq(Int) /\ Len(UpTo(n + p.n)) = Fits(n + p.n)
        /\ Fits(n) \in Nat /\ Fits(n + p.n) \in Nat
        /\ \A i \in 1..Fits(n) : UpTo(n)[i] = i
        /\ \A i \in 1..Fits(n + p.n) : UpTo(n + p.n)[i] = i
    <3>1. n + p.n \in Nat
      OBVIOUS
    <3>2. UpTo(n + p.n) \in Seq(Int) /\ Len(UpTo(n + p.n)) = Fits(n + p.n)
          /\ Fits(n + p.n) \in Nat /\ \A i \in 1..Fits(n + p.n) : UpTo(n + p.n)[i] = i
      BY <3>1, RunType
    <3>3. UpTo(n) \in Seq(Int) /\ Len(UpTo(n)) = Fits(n)
          /\ Fits(n) \in Nat /\ \A i \in 1..Fits(n) : UpTo(n)[i] = i
      BY RunType
    <3> QED
      BY <3>2, <3>3
  <2> HIDE DEF new
  <2>3. /\ UpTo(n) \o new \in Seq(Int)
        /\ Len(UpTo(n) \o new) = Fits(n + p.n)
        /\ \A i \in 1..Fits(n + p.n) : (UpTo(n) \o new)[i] =
              IF i <= Fits(n) THEN UpTo(n)[i] ELSE new[i - Fits(n)]
    <3>1. /\ UpTo(n) \o new \in Seq(Int)
          /\ Len(UpTo(n) \o new) = Len(UpTo(n)) + Len(new)
          /\ \A i \in 1..Len(UpTo(n)) + Len(new) : (UpTo(n) \o new)[i] =
               IF i <= Len(UpTo(n)) THEN UpTo(n)[i] ELSE new[i - Len(UpTo(n))]
      BY <2>1, <2>2, ConcatProperties
    <3>2. Len(UpTo(n)) = Fits(n) /\ Len(UpTo(n)) + Len(new) = Fits(n + p.n)
      BY <1>1, <2>1, <2>2
    <3> QED
      BY <3>1, <3>2
  <2>4. ASSUME NEW i \in 1..Fits(n + p.n)
        PROVE  (UpTo(n) \o new)[i] = UpTo(n + p.n)[i]
    <3>1. CASE i <= Fits(n)
      BY <2>2, <2>3, <3>1
    <3>2. CASE i > Fits(n)
      <4>1. i - Fits(n) \in 1..fit /\ p.n # 0
        BY <1>1, <2>2, <3>2, SMTT(30)
      <4>2. Fits(n) = n
        BY <1>1, <4>1 DEF Fits
      <4> QED
        BY <2>1, <2>2, <2>3, <3>2, <4>1, <4>2, SMTT(30)
    <3>3. i \in Int /\ Fits(n) \in Int
      BY <2>2
    <3>4. i <= Fits(n) \/ i > Fits(n)
      BY <3>3
    <3> QED
      BY <3>1, <3>2, <3>4, Zenon
  <2> QED
    BY <2>2, <2>3, <2>4, SeqEqual
<1>3. TakeElems(After(n, st, mo), p) =
        [After(n, st, mo) EXCEPT !.n_recv = n + p.n, !.list = UpTo(n) \o new]
  BY DEF TakeElems, After, fit
<1> QED
  BY <1>2, <1>3 DEF After

-----------------------------------------------------------------------------
(***************************************************************************)
(* What the callbacks make of a message.                                   *)
(***************************************************************************)

\* A header of the call's command is taken.
LEMMA HeaderTaken ==
  ASSUME max_sz \in Nat, NEW n \in Nat, NEW st, NEW mo,
         NEW p, p.cmd = op, p.n \in Nat, p.first = n + 1 \/ p.n = 0
  PROVE  TakeHeader(After(n, st, mo), p) = After(n + p.n, st, mo)
<1>1. After(n, st, mo).stop = FALSE
  BY DEF After
<1>2. TakeHeader(After(n, st, mo), p) = TakeElems(After(n, st, mo), p)
  BY <1>1 DEF TakeHeader
<1> QED
  BY <1>2, TakeRun

\* Both loops take the ids of a message that goes on from the list.
LEMMA IdsTaken ==
  ASSUME max_sz \in Nat, NEW n \in Nat, NEW d \in Nat, NEW st, NEW mo,
         NEW m, Carries(m, n + 1, d)
  PROVE  /\ FoldLeft(TakeElems, After(n, st, mo), m.parts) = After(n + d, st, mo)
         /\ FoldLeft(TakeHeader, After(n, st, mo), m.parts) = After(n + d, st, mo)
<1> DEFINE s == After(n, st, mo)
           q == m.parts
<1>1. CASE DOMAIN q = {1} /\ q[1].cmd = op /\ q[1].first = n + 1 /\ q[1].n = d
  <2>1. FoldLeft(TakeElems, s, q) = TakeElems(s, q[1]) /\ FoldLeft(TakeHeader, s, q) = TakeHeader(s, q[1])
    BY <1>1, FoldElems, FoldHeaders
  <2>2. TakeElems(s, q[1]) = After(n + d, st, mo)
    BY <1>1, TakeRun
  <2>3. TakeHeader(s, q[1]) = After(n + d, st, mo)
    BY <1>1, HeaderTaken
  <2> QED
    BY <2>1, <2>2, <2>3
<1>2. CASE /\ DOMAIN q = {1, 2} /\ q[1].cmd = op /\ q[1].first = n + 1 /\ q[1].n \in 0..d
           /\ q[2].cmd = op /\ q[2].first = n + 1 + q[1].n /\ q[2].n = d - q[1].n
  <2>1. {1, 2} # {1} /\ {1, 2} # {}
    OBVIOUS
  <2>2. /\ FoldLeft(TakeElems, s, q) = TakeElems(TakeElems(s, q[1]), q[2])
        /\ FoldLeft(TakeHeader, s, q) = TakeHeader(TakeHeader(s, q[1]), q[2])
    BY <1>2, <2>1, FoldElems, FoldHeaders
  <2>3. PICK k \in 0..d : k = q[1].n
    BY <1>2
  <2>4. /\ n + k \in Nat /\ q[1].n \in Nat /\ q[2].n \in Nat /\ n + k + q[2].n = n + d
        /\ q[1].first = n + 1 /\ q[2].first = n + k + 1
    BY <1>2, <2>3
  <2>5. TakeElems(s, q[1]) = After(n + k, st, mo)
    BY <2>3, <2>4, TakeRun
  <2>6. TakeHeader(s, q[1]) = After(n + k, st, mo)
    BY <1>2, <2>3, <2>4, HeaderTaken
  <2>7. TakeElems(After(n + k, st, mo), q[2]) = After(n + d, st, mo)
    BY <2>4, TakeRun
  <2>8. TakeHeader(After(n + k, st, mo), q[2]) = After(n + d, st, mo)
    BY <1>2, <2>4, HeaderTaken
  <2> QED
    BY <2>2, <2>5, <2>6, <2>7, <2>8
<1> QED
  BY <1>1, <1>2 DEF Carries

\* A status has no ids.
LEMMA NoneTaken ==
  ASSUME max_sz \in Nat, NEW n \in Nat, NEW st, NEW mo, NEW m, Closes(m)
  PROVE  /\ FoldLeft(TakeElems, After(n, st, mo), m.parts) = After(n, st, mo)
         /\ FoldLeft(TakeHeader, After(n, st, mo), m.parts) = After(n, st, mo)
<1> DEFINE s == After(n, st, mo)
           q == m.parts
<1>1. CASE DOMAIN q = {}
  BY <1>1, FoldElems, FoldHeaders
<1>2. CASE DOMAIN q = {1} /\ q[1].cmd = op /\ q[1].n = 0
  <2>1. FoldLeft(TakeElems, s, q) = TakeElems(s, q[1]) /\ FoldLeft(TakeHeader, s, q) = TakeHeader(s, q[1])
    BY <1>2, FoldElems, FoldHeaders
  <2>2. n + q[1].n = n /\ q[1].n \in Nat
    BY <1>2
  <2>3. TakeElems(s, q[1]) = s
    BY <1>2, <2>2, TakeRun
  <2>4. TakeHeader(s, q[1]) = s
    BY <1>2, <2>2, HeaderTaken
  <2> QED
    BY <2>1, <2>3, <2>4
<1> QED
  BY <1>1, <1>2 DEF Closes

\* The callback of the operation in progress.
Told(s, m) == IF op = "list" THEN list_masts_cb(s, m) ELSE search_slavs_cb(s, m)

LEMMA MoreSet ==
  ASSUME NEW n, NEW st, NEW mo, NEW x
  PROVE  [After(n, st, mo) EXCEPT !.more = x] = After(n, st, x)
<1>1. ASSUME NEW l, NEW sp
      PROVE  [[list |-> l, n_recv |-> n, status |-> st, more |-> mo, stop |-> sp] EXCEPT !.more = x]
             = [list |-> l, n_recv |-> n, status |-> st, more |-> x, stop |-> sp]
  OBVIOUS
<1> QED
  BY <1>1, Zenon DEF After

LEMMA IdsTold ==
  ASSUME max_sz \in Nat, NEW n \in Nat, NEW d \in Nat, NEW st, NEW mo,
         NEW m, Carries(m, n + 1, d)
  PROVE  Told(After(n, st, mo), m) = After(n + d, st, "opt")
<1>1. m.isStatus = FALSE
  BY DEF Carries
<1>2. [After(n, st, mo) EXCEPT !.more = "opt"] = After(n, st, "opt")
  BY MoreSet
<1>3. [After(n + d, st, mo) EXCEPT !.more = "opt"] = After(n + d, st, "opt")
  BY MoreSet
<1>4. list_masts_cb(After(n, st, mo), m) = After(n + d, st, "opt")
  <2>1. list_masts_cb(After(n, st, mo), m) =
          [FoldLeft(TakeElems, After(n, st, mo), m.parts) EXCEPT !.more = "opt"]
    BY <1>1 DEF list_masts_cb
  <2> QED
    BY <1>3, <2>1, IdsTaken
<1>5. search_slavs_cb(After(n, st, mo), m) = After(n + d, st, "opt")
  <2>1. search_slavs_cb(After(n, st, mo), m) = FoldLeft(TakeHeader, After(n, st, "opt"), m.parts)
    BY <1>1, <1>2, Zenon DEF search_slavs_cb
  <2> QED
    BY <2>1, IdsTaken
<1> QED
  BY <1>4, <1>5 DEF Told

LEMMA EndTold ==
  ASSUME max_sz \in Nat, NEW n \in Nat, NEW st, NEW mo, NEW m, Closes(m), m.err = FALSE
  PROVE  Told(After(n, st, mo), m) = After(n, st, "no")
<1>1. m.isStatus = TRUE
  BY DEF Closes
<1>2. [After(n, st, mo) EXCEPT !.more = "no"] = After(n, st, "no")
  BY MoreSet
<1>3. list_masts_cb(After(n, st, mo), m) = After(n, st, "no")
  <2>1. list_masts_cb(After(n, st, mo), m) =
          [FoldLeft(TakeElems, After(n, st, mo), m.parts) EXCEPT !.more = "no"]
    BY <1>1 DEF list_masts_cb
  <2> QED
    BY <1>2, <2>1, NoneTaken
<1>4. search_slavs_cb(After(n, st, mo), m) = After(n, st, "no")
  <2>1. search_slavs_cb(After(n, st, mo), m) = FoldLeft(TakeHeader, After(n, st, "no"), m.parts)
    BY <1>1, <1>2, Zenon DEF search_slavs_cb
  <2> QED
    BY <2>1, NoneTaken
<1> QED
  BY <1>3, <1>4 DEF Told

LEMMA FailureTold ==
  ASSUME NEW n, NEW st, NEW mo, NEW m, Closes(m), m.err = TRUE
  PROVE  Told(After(n, st, mo), m) = Halt(After(n, st, mo), "err")
  BY DEF Closes, Told, list_masts_cb, search_slavs_cb

-----------------------------------------------------------------------------
(***************************************************************************)
(* The inductive invariant.                                                *)
(***************************************************************************)

Message == [isStatus : BOOLEAN, err : BOOLEAN, parts : Seq([cmd : Ops, first : Int, n : Int])]

TypeInv ==
  /\ op \in Ops /\ max_sz \in Nat /\ sz \in Nat /\ total \in Nat \cup {Unset}
  /\ pc \in {"idle", "call"}
  /\ cb.n_recv \in Nat /\ cb.status \in {"ok", "err"}
  /\ cb = [list |-> UpTo(cb.n_recv), n_recv |-> cb.n_recv, status |-> cb.status, more |-> cb.more]
  /\ chan \in Seq(Message)
  /\ pop \in Nat /\ sent \in Nat
  /\ kpc \in {"idle", "work", "close", "done"}

\* Each message on its way goes on from the one before it, and the first from the list.
Follows(i) ==
  \E d \in Nat : /\ Carries(chan[i], Ahead(chan, sent, i), d)
                /\ Ahead(chan, sent, i + 1) = Ahead(chan, sent, i) + d
Ends(i) == Closes(chan[i]) /\ i = Len(chan) /\ kpc = "done"
ChanInv ==
  /\ pc = "call" => Ahead(chan, sent, 1) = cb.n_recv + 1
  /\ \A i \in 1..Len(chan) : Follows(i) \/ Ends(i)

\* All has been sent when the kernel is done, unless a failure was told or soon is.
KernelInv ==
  /\ pc = "idle" => kpc = "idle" /\ chan = <<>>
  /\ pc = "call" => total = Unset /\ sz = 0 /\ kpc # "idle"
  /\ kpc = "close" => sent = pop
  /\ kpc = "done" => \/ sent = pop \/ cb.status = "err"
                     \/ chan # <<>> /\ chan[Len(chan)].isStatus = TRUE /\ chan[Len(chan)].err = TRUE
  /\ pc = "call" /\ cb.more = "no" => kpc = "done" /\ chan = <<>>

ListInv == TypeInv /\ ChanInv /\ KernelInv /\ ResultConsistent /\ TotalExactInTime

-----------------------------------------------------------------------------
(***************************************************************************)
(* Every step preserves it.                                                *)
(***************************************************************************)

LEMMA EmptyRun ==
  ASSUME max_sz \in Nat
  PROVE  <<>> = UpTo(0)
<1>1. UpTo(0) \in Seq(Int) /\ Len(UpTo(0)) = 0
  BY RunType DEF Fits
<1> QED
  BY <1>1, EmptySeq

LEMMA ListInit == Init => ListInv
<1> SUFFICES ASSUME Init PROVE ListInv
  OBVIOUS
<1>1. max_sz \in Nat /\ pop \in Nat
  BY ListAssumption DEF Init
<1>2. cb = [list |-> UpTo(0), n_recv |-> 0, status |-> "ok", more |-> "req"]
  BY <1>1, EmptyRun DEF Init, NoneYet
<1>3. TypeInv
  <2>1. cb.n_recv = 0 /\ cb.status = "ok" /\ cb.more = "req"
    BY <1>2
  <2>2. cb = [list |-> UpTo(cb.n_recv), n_recv |-> cb.n_recv, status |-> cb.status,
              more |-> cb.more]
    BY <1>2, <2>1
  <2>3. <<>> \in Seq(Message)
    BY EmptySeq
  <2> QED
    BY <1>1, <2>1, <2>2, <2>3 DEF Init, TypeInv, Ops, Unset
<1>4. ChanInv
  BY DEF Init, ChanInv
<1>5. KernelInv
  BY DEF Init, KernelInv
<1>6. ResultConsistent /\ TotalExactInTime
  BY DEF Init, ResultConsistent, TotalExactInTime, TotalExact
<1> QED
  BY <1>3, <1>4, <1>5, <1>6 DEF ListInv

LEMMA CallStep ==
  ASSUME ListInv, NEW o \in Ops, Call(o)
  PROVE  ListInv'
<1>1. /\ pc = "idle" /\ chan = <<>> /\ chan' = <<>> /\ max_sz \in Nat /\ max_sz' = max_sz
      /\ pc' = "call" /\ op' = o /\ sz' = 0 /\ total' = Unset /\ sent' = 0 /\ kpc' = "work"
      /\ late' = FALSE /\ pop' \in Nat /\ cb' = NoneYet
  BY ListAssumption DEF ListInv, TypeInv, KernelInv, Call
<1>2. UpTo(0)' = UpTo(0)
  BY <1>1 DEF UpTo, Fits
<1>3. cb' = [list |-> UpTo(0)', n_recv |-> 0, status |-> "ok", more |-> "req"]
  BY <1>1, <1>2, EmptyRun DEF NoneYet
<1>4. TypeInv'
  <2>1. cb'.n_recv = 0 /\ cb'.status = "ok" /\ cb'.more = "req"
    BY <1>3
  <2>2. cb' = [list |-> UpTo(cb.n_recv)', n_recv |-> cb'.n_recv, status |-> cb'.status,
               more |-> cb'.more]
    BY <1>1, <1>3, <2>1 DEF UpTo, Fits
  <2>3. <<>> \in Seq(Message)
    BY EmptySeq
  <2> QED
    BY <1>1, <2>1, <2>2, <2>3 DEF TypeInv, Unset
<1>5. ChanInv'
  <2>1. cb'.n_recv = 0 /\ Len(chan') = 0
    BY <1>3, <1>1
  <2>2. Ahead(chan', sent', 1) = 1
    BY <1>1, <2>1 DEF Ahead
  <2> QED
    BY <2>1, <2>2 DEF ChanInv
<1>6. KernelInv'
  <2>1. cb'.more = "req"
    BY <1>3
  <2> QED
    BY <1>1, <2>1 DEF KernelInv
<1>7. ResultConsistent' /\ TotalExactInTime'
  BY <1>1 DEF ResultConsistent, TotalExactInTime, TotalExact
<1> QED
  BY <1>4, <1>5, <1>6, <1>7 DEF ListInv

\* The way out of an operation, with or without a result.
LEMMA ReturnStep ==
  ASSUME ListInv, NEW r, pc = "call", Return(r),
         \/ UNCHANGED <<sz, total>>
         \/ /\ r = "SUCCESS" /\ cb.status = "ok" /\ chan = <<>>
            /\ late' = (kpc # "done")
            /\ total' = cb.n_recv /\ sz' = Len(cb.list)
  PROVE  ListInv'
<1> DEFINE n == cb.n_recv
<1>1. /\ pc' = "idle" /\ kpc' = "idle" /\ chan' = <<>> /\ ret' = r
      /\ op' = op /\ max_sz' = max_sz /\ cb' = cb /\ pop' = pop /\ sent' = sent
      /\ n \in Nat /\ max_sz \in Nat /\ sz \in Nat /\ sz = 0 /\ total = Unset
      /\ cb.list = UpTo(n)
  <2>1. cb = [list |-> UpTo(n), n_recv |-> n, status |-> cb.status, more |-> cb.more]
    BY DEF ListInv, TypeInv
  <2>2. cb.list = UpTo(n)
    BY <2>1
  <2> QED
    BY <2>2 DEF ListInv, TypeInv, KernelInv, Return
<1>2. Len(cb.list) = Fits(n) /\ Fits(n) \in Nat
  BY <1>1, RunType
<1>3. TypeInv'
  <2>1. UpTo(cb.n_recv)' = UpTo(cb.n_recv)
    BY <1>1 DEF UpTo, Fits
  <2>2. cb' = [list |-> UpTo(cb.n_recv)', n_recv |-> cb'.n_recv, status |-> cb'.status,
               more |-> cb'.more]
    BY <1>1, <2>1 DEF ListInv, TypeInv
  <2>3. sz' \in Nat /\ total' \in Nat \cup {Unset}
    BY <1>1, <1>2
  <2> QED
    BY <1>1, <2>2, <2>3 DEF ListInv, TypeInv
<1>4. ChanInv' /\ KernelInv'
  BY <1>1 DEF ChanInv, KernelInv
<1>5. CASE UNCHANGED <<sz, total>>
  <2>1. ResultConsistent' /\ TotalExactInTime'
    BY <1>1, <1>5 DEF ResultConsistent, TotalExactInTime, TotalExact
  <2> QED
    BY <1>3, <1>4, <2>1 DEF ListInv
<1>6. CASE /\ r = "SUCCESS" /\ cb.status = "ok" /\ chan = <<>>
           /\ late' = (kpc # "done")
           /\ total' = cb.n_recv /\ sz' = Len(cb.list)
  <2>1. Min({n, max_sz}) = Fits(n)
    BY <1>1, MinOfTwo DEF Fits
  <2>2. cb.list = [i \in 1..sz' |-> i]
    BY <1>1, <1>2, <1>6 DEF UpTo
  <2>3. ResultConsistent'
    BY <1>1, <1>2, <1>6, <2>1, <2>2 DEF ResultConsistent, Unset
  <2>4. n = sent
    <3>1. Ahead(chan, sent, 1) = n + 1 /\ sent \in Nat
      BY DEF ListInv, ChanInv, TypeInv
    <3>2. Ahead(chan, sent, 1) = sent + 1
      BY <1>6 DEF Ahead
    <3> QED
      BY <1>1, <3>1, <3>2
  <2>5. kpc = "done" => sent = pop
    BY <1>6 DEF ListInv, KernelInv
  <2>6. TotalExactInTime'
    <3>1. CASE kpc = "done"
      BY <1>1, <1>2, <1>6, <2>1, <2>4, <2>5, <3>1 DEF TotalExactInTime, TotalExact
    <3>2. CASE kpc # "done"
      <4>1. late' = TRUE
        BY <1>6, <3>2
      <4> QED
        BY <4>1 DEF TotalExactInTime
    <3> QED
      BY <3>1, <3>2
  <2> QED
    BY <1>3, <1>4, <2>3, <2>6 DEF ListInv
<1> QED
  BY <1>5, <1>6

\* What a channel looks like after a message that goes on from the last one.
LEMMA AheadAppended ==
  ASSUME NEW c \in Seq(Message), NEW m \in Message, NEW s \in Nat, NEW t \in Nat,
         \A i \in 1..Len(c) : c[i].isStatus = FALSE,
         \/ m.isStatus = FALSE /\ m.parts[1].first = s + 1
         \/ m.isStatus = TRUE /\ t = s
  PROVE  /\ \A i \in 1..(Len(c) + 1) : Ahead(Append(c, m), t, i) = Ahead(c, s, i)
         /\ Ahead(Append(c, m), t, Len(c) + 2) = t + 1
<1> DEFINE n == Len(c)
<1>1. /\ n \in Nat /\ Len(Append(c, m)) = n + 1
      /\ \A i \in 1..n : Append(c, m)[i] = c[i]
      /\ Append(c, m)[n + 1] = m
  BY AppendProperties, LenProperties
<1>2. ASSUME NEW i \in 1..n
      PROVE  Ahead(Append(c, m), t, i) = Ahead(c, s, i)
  BY <1>1, <1>2 DEF Ahead
<1>3. Ahead(Append(c, m), t, n + 1) = Ahead(c, s, n + 1)
  <2>1. Ahead(c, s, n + 1) = s + 1
    BY <1>1 DEF Ahead
  <2>2. CASE m.isStatus = FALSE /\ m.parts[1].first = s + 1
    BY <1>1, <2>1, <2>2 DEF Ahead
  <2>3. CASE m.isStatus = TRUE /\ t = s
    BY <1>1, <2>1, <2>3 DEF Ahead
  <2> QED
    BY <2>2, <2>3
<1>4. Ahead(Append(c, m), t, n + 2) = t + 1
  BY <1>1 DEF Ahead
<1> QED
  BY <1>1, <1>2, <1>3, <1>4

\* A message that stays on its way, at the same place or another.
LEMMA FollowsKept ==
  ASSUME NEW i, NEW j, Follows(j), op' = op, chan'[i] = chan[j],
         Ahead(chan', sent', i) = Ahead(chan, sent, j),
         Ahead(chan', sent', i + 1) = Ahead(chan, sent, j + 1)
  PROVE  Follows(i)'
<1>1. PICK d \in Nat : /\ Carries(chan[j], Ahead(chan, sent, j), d)
                       /\ Ahead(chan, sent, j + 1) = Ahead(chan, sent, j) + d
  BY DEF Follows
<1>2. Carries(chan[i], Ahead(chan, sent, i), d)'
  BY <1>1 DEF Carries
<1>3. Ahead(chan', sent', i + 1) = Ahead(chan', sent', i) + d
  BY <1>1
<1> QED
  BY <1>2, <1>3 DEF Follows

\* The kernel sends a message, with ids or a status.
LEMMA SendStep ==
  ASSUME ListInv, NEW m \in Message, KernelSends(m), kpc \in {"work", "close"},
         sent' \in Nat, sent' >= sent,
         \/ /\ Carries(m, sent + 1, sent' - sent) /\ kpc' \in {"work", "close"}
            /\ kpc' = "close" => sent' = pop
         \/ /\ Closes(m) /\ sent' = sent /\ kpc' = "done"
            /\ (m.err = TRUE \/ sent = pop)
  PROVE  ListInv'
<1> DEFINE n == Len(chan)
<1>1. /\ chan' = Append(chan, m) /\ pc' = pc /\ pc = "call"
      /\ op' = op /\ max_sz' = max_sz /\ sz' = sz /\ total' = total /\ cb' = cb /\ pop' = pop
      /\ late' = late
  <2>1. pc # "idle" /\ pc \in {"idle", "call"}
    BY DEF ListInv, TypeInv, KernelInv
  <2> QED
    BY <2>1 DEF KernelSends
<1>2. /\ chan \in Seq(Message) /\ n \in Nat /\ sent \in Nat
      /\ chan' \in Seq(Message) /\ Len(chan') = n + 1 /\ chan' # <<>>
      /\ \A i \in 1..n : chan'[i] = chan[i]
      /\ chan'[n + 1] = m
  BY <1>1, AppendProperties, LenProperties DEF ListInv, TypeInv
<1>3. \A i \in 1..n : Follows(i) /\ chan[i].isStatus = FALSE
  BY DEF ListInv, ChanInv, Follows, Ends, Carries
<1>4. \/ m.isStatus = FALSE /\ m.parts[1].first = sent + 1
      \/ m.isStatus = TRUE /\ sent' = sent
  BY DEF Carries, Closes
<1>5. /\ \A i \in 1..(n + 1) : Ahead(chan', sent', i) = Ahead(chan, sent, i)
      /\ Ahead(chan', sent', n + 2) = sent' + 1
      /\ Ahead(chan, sent, n + 1) = sent + 1
  <2>1. \A i \in 1..n : chan[i].isStatus = FALSE
    BY <1>3
  <2>2. /\ \A i \in 1..(Len(chan) + 1) : Ahead(Append(chan, m), sent', i) = Ahead(chan, sent, i)
        /\ Ahead(Append(chan, m), sent', Len(chan) + 2) = sent' + 1
    BY <1>2, <1>4, <2>1, AheadAppended, ZenonT(60)
  <2>3. Ahead(chan, sent, n + 1) = sent + 1
    BY <1>2 DEF Ahead
  <2> QED
    BY <1>1, <2>2, <2>3
<1>6. TypeInv'
  <2>1. UpTo(cb.n_recv)' = UpTo(cb.n_recv)
    BY <1>1 DEF UpTo, Fits
  <2> QED
    BY <1>1, <1>2, <2>1 DEF ListInv, TypeInv
<1>7. ChanInv'
  <2>1. Ahead(chan', sent', 1) = cb'.n_recv + 1
    <3>1. 1 \in 1..(n + 1)
      BY <1>2
    <3>2. Ahead(chan, sent, 1) = cb.n_recv + 1
      BY <1>1 DEF ListInv, ChanInv
    <3> QED
      BY <1>1, <1>5, <3>1, <3>2
  <2>2. ASSUME NEW i \in 1..n
        PROVE  Follows(i)'
    <3>1. i \in 1..(n + 1) /\ i + 1 \in 1..(n + 1)
      BY <1>2
    <3>2. /\ Ahead(chan', sent', i) = Ahead(chan, sent, i)
          /\ Ahead(chan', sent', i + 1) = Ahead(chan, sent, i + 1)
      BY <1>5, <3>1
    <3> QED
      BY <1>1, <1>2, <1>3, <3>2, FollowsKept
  <2>3. PICK k \in Nat : k = n + 1
    BY <1>2
  <2>4. /\ chan'[k] = m /\ k = Len(chan')
        /\ Ahead(chan', sent', k) = sent + 1
        /\ Ahead(chan', sent', k + 1) = sent' + 1
    <3>1. n + 1 \in 1..(n + 1) /\ n + 1 + 1 = n + 2
      BY <1>2
    <3> QED
      BY <1>2, <1>5, <2>3, <3>1
  <2>5. ASSUME Carries(m, sent + 1, sent' - sent)
        PROVE  Follows(k)'
    <3>1. \A x, y \in Nat : y >= x => y - x \in Nat /\ y + 1 = x + 1 + (y - x)
      OBVIOUS
    <3>2. PICK d \in Nat : d = sent' - sent
      BY <1>2, <3>1, Zenon
    <3>3. sent' + 1 = sent + 1 + d
      BY <1>2, <3>1, <3>2, Zenon
    <3>4. Carries(chan[k], Ahead(chan, sent, k), d)'
      BY <1>1, <2>4, <2>5, <3>2 DEF Carries
    <3> QED
      BY <2>4, <3>3, <3>4 DEF Follows
  <2>6. ASSUME Closes(m), kpc' = "done"
        PROVE  Ends(k)'
    <3>1. Closes(chan[k])'
      BY <1>1, <2>4, <2>6 DEF Closes
    <3> QED
      BY <2>4, <2>6, <3>1 DEF Ends
  <2>7. Follows(k)' \/ Ends(k)'
    BY <2>5, <2>6
  <2>8. \A i \in 1..Len(chan') : i \in 1..n \/ i = k
    BY <1>2, <2>3
  <2>9. ASSUME NEW i \in 1..Len(chan')
        PROVE  Follows(i)' \/ Ends(i)'
    BY <2>2, <2>7, <2>8
  <2>10. Len(chan)' = Len(chan')
    OBVIOUS
  <2> QED
    BY <2>1, <2>9, <2>10 DEF ChanInv
<1>8. KernelInv'
  <2>1. total = Unset /\ sz = 0 /\ cb.more # "no"
    BY <1>1 DEF ListInv, KernelInv
  <2>2. kpc' = "done" => \/ sent' = pop'
                         \/ chan'[Len(chan')].isStatus = TRUE /\ chan'[Len(chan')].err = TRUE
    BY <1>1, <1>2 DEF Closes
  <2> QED
    BY <1>1, <1>2, <2>1, <2>2 DEF KernelInv
<1>9. ResultConsistent' /\ TotalExactInTime'
  BY <1>1 DEF ResultConsistent, TotalExactInTime, TotalExact
<1> QED
  BY <1>6, <1>7, <1>8, <1>9 DEF ListInv

LEMMA AheadTail ==
  ASSUME NEW c \in Seq(Message), c # <<>>, NEW s
  PROVE  \A i \in 1..Len(c) : Ahead(Tail(c), s, i) = Ahead(c, s, i + 1)
<1>1. /\ Len(c) \in Nat /\ Len(Tail(c)) = Len(c) - 1
      /\ \A i \in 1..Len(Tail(c)) : Tail(c)[i] = c[i + 1]
  BY HeadTailProperties, LenProperties
<1>2. ASSUME NEW i \in 1..Len(c)
      PROVE  Ahead(Tail(c), s, i) = Ahead(c, s, i + 1)
  <2>1. CASE i = Len(c)
    BY <1>1, <2>1 DEF Ahead
  <2>2. CASE i < Len(c)
    <3>1. i \in 1..Len(Tail(c)) /\ ~(i > Len(Tail(c))) /\ ~(i + 1 > Len(c))
      BY <1>1, <2>2
    <3> QED
      BY <1>1, <3>1 DEF Ahead
  <2>3. i = Len(c) \/ i < Len(c)
    <3>1. \A k \in Nat : \A j \in 1..k : j = k \/ j < k
      OBVIOUS
    <3> QED
      BY <1>1, <3>1, Zenon
  <2> QED
    BY <2>1, <2>2, <2>3, Zenon
<1> QED
  BY <1>2

\* A message that is received, up to what the callback makes of it.
LEMMA ReceiveShape ==
  ASSUME ListInv, Receive
  PROVE  /\ op' = op /\ max_sz' = max_sz /\ sz' = sz /\ total' = total /\ pc' = pc /\ pc = "call"
         /\ pop' = pop /\ sent' = sent /\ kpc' = kpc /\ late' = late
         /\ chan \in Seq(Message) /\ chan' \in Seq(Message)
         /\ Len(chan) \in Nat /\ Len(chan) >= 1 /\ Len(chan') = Len(chan) - 1
         /\ \A i \in 1..Len(chan') : chan'[i] = chan[i + 1]
         /\ \A i \in 1..Len(chan) : Ahead(chan', sent', i) = Ahead(chan, sent, i + 1)
         /\ cb.n_recv \in Nat /\ max_sz \in Nat
         /\ Ahead(chan, sent, 1) = cb.n_recv + 1
         /\ Follows(1) \/ Ends(1)
         /\ LET t == Told(After(cb.n_recv, cb.status, cb.more), chan[1])
            IN cb' = [list |-> t.list, n_recv |-> t.n_recv, status |-> t.status, more |-> t.more]
<1>1. /\ op' = op /\ max_sz' = max_sz /\ sz' = sz /\ total' = total /\ pc' = pc /\ pc = "call"
      /\ pop' = pop /\ sent' = sent /\ kpc' = kpc /\ late' = late /\ chan # <<>> /\ chan' = Tail(chan)
  BY DEF Receive
<1>2. chan \in Seq(Message) /\ cb.n_recv \in Nat /\ max_sz \in Nat
  BY DEF ListInv, TypeInv
<1>3. /\ Len(chan) \in Nat /\ Len(chan) >= 1 /\ chan' \in Seq(Message) /\ Len(chan') = Len(chan) - 1
      /\ \A i \in 1..Len(chan') : chan'[i] = chan[i + 1]
      /\ Head(chan) = chan[1]
  <2>1. Len(chan) \in Nat /\ Len(chan) # 0
    BY <1>1, <1>2, EmptySeq, LenProperties
  <2> QED
    BY <1>1, <1>2, <2>1, HeadTailProperties
<1>4. \A i \in 1..Len(chan) : Ahead(chan', sent', i) = Ahead(chan, sent, i + 1)
  BY <1>1, <1>2, AheadTail
<1>5. Ahead(chan, sent, 1) = cb.n_recv + 1 /\ (Follows(1) \/ Ends(1))
  BY <1>1, <1>3 DEF ListInv, ChanInv
<1>6. cb.more # "no"
  BY <1>1 DEF ListInv, KernelInv
<1>7. [list |-> cb.list, n_recv |-> cb.n_recv, status |-> cb.status, more |-> cb.more, stop |-> FALSE]
      = After(cb.n_recv, cb.status, cb.more)
  <2>1. cb = [list |-> UpTo(cb.n_recv), n_recv |-> cb.n_recv, status |-> cb.status, more |-> cb.more]
    BY DEF ListInv, TypeInv
  <2>2. cb.list = UpTo(cb.n_recv)
    BY <2>1
  <2> QED
    BY <2>2, Zenon DEF After
<1> DEFINE t == Told(After(cb.n_recv, cb.status, cb.more), chan[1])
<1>8. cb' = [list |-> t.list, n_recv |-> t.n_recv, status |-> t.status, more |-> t.more]
  BY <1>3, <1>6, <1>7, Zenon DEF Receive, Told
<1> HIDE DEF t
<1>9. LET x == Told(After(cb.n_recv, cb.status, cb.more), chan[1])
      IN cb' = [list |-> x.list, n_recv |-> x.n_recv, status |-> x.status, more |-> x.more]
  BY <1>8, Zenon DEF t
<1> QED
  BY <1>1, <1>2, <1>3, <1>4, <1>5, <1>9, Zenon

\* The callback's result in terms of the number of ids.
LEMMA Outcome ==
  ASSUME ListInv, Receive
  PROVE  \E d \in Nat : \E st, mo :
           /\ cb' = [list |-> UpTo(cb.n_recv + d), n_recv |-> cb.n_recv + d, status |-> st, more |-> mo]
           /\ Ahead(chan', sent', 1) = cb.n_recv + d + 1
           /\ \/ st = cb.status /\ mo = "opt" /\ chan[1].isStatus = FALSE
              \/ st = cb.status /\ mo = "no" /\ Ends(1) /\ chan[1].err = FALSE
              \/ st = "err" /\ mo = "no" /\ Ends(1)
<1> DEFINE n == cb.n_recv
           t == Told(After(cb.n_recv, cb.status, cb.more), chan[1])
<1>1. /\ n \in Nat /\ max_sz \in Nat /\ Len(chan) \in Nat /\ Len(chan) >= 1
      /\ Len(chan') = Len(chan) - 1 /\ Ahead(chan, sent, 1) = n + 1 /\ sent' = sent
      /\ \A i \in 1..Len(chan) : Ahead(chan', sent', i) = Ahead(chan, sent, i + 1)
  BY ReceiveShape
<1>2. cb' = [list |-> t.list, n_recv |-> t.n_recv, status |-> t.status, more |-> t.more]
  BY ReceiveShape, Zenon
<1>3. CASE Follows(1)
  <2>1. PICK d \in Nat : /\ Carries(chan[1], n + 1, d) /\ Ahead(chan, sent, 2) = n + 1 + d
    BY <1>1, <1>3 DEF Follows
  <2>2. t = After(n + d, cb.status, "opt")
    BY <1>1, <2>1, IdsTold
  <2>3. t.list = UpTo(n + d) /\ t.n_recv = n + d /\ t.status = cb.status /\ t.more = "opt"
    BY <2>2 DEF After
  <2>4. Ahead(chan', sent', 1) = n + d + 1
    BY <1>1, <2>1
  <2>5. chan[1].isStatus = FALSE
    BY <2>1 DEF Carries
  <2> HIDE DEF t
  <2> QED
    BY <1>2, <2>3, <2>4, <2>5
<1>4. CASE Ends(1)
  <2>1. Closes(chan[1]) /\ Len(chan) = 1
    BY <1>4 DEF Ends
  <2>2. Ahead(chan', sent', 1) = n + 0 + 1 /\ n + 0 = n
    <3>1. Ahead(chan, sent, 1) = sent + 1
      BY <2>1 DEF Closes, Ahead
    <3>2. Ahead(chan', sent', 1) = sent + 1
      BY <1>1, <2>1 DEF Ahead
    <3> QED
      BY <1>1, <3>1, <3>2
  <2>3. CASE chan[1].err = FALSE
    <3>1. t = After(n, cb.status, "no")
      BY <1>1, <2>1, <2>3, EndTold
    <3>2. t.list = UpTo(n) /\ t.n_recv = n /\ t.status = cb.status /\ t.more = "no"
      BY <3>1 DEF After
    <3> HIDE DEF t
    <3> QED
      BY <1>2, <1>4, <2>2, <2>3, <3>2
  <2>4. CASE chan[1].err = TRUE
    <3>0. t = Halt(After(n, cb.status, cb.more), "err")
      BY <2>1, <2>4, FailureTold
    <3> HIDE DEF t
    <3>1. t.list = UpTo(n) /\ t.n_recv = n /\ t.status = "err" /\ t.more = "no"
      BY <3>0 DEF Halt, After
    <3> QED
      BY <1>2, <1>4, <2>2, <3>1
  <2>5. chan[1].err \in BOOLEAN
    <3>1. chan[1] \in Message
      BY <1>1, ReceiveShape, LenProperties
    <3> QED
      BY <3>1 DEF Message
  <2> QED
    BY <2>3, <2>4, <2>5
<1>5. Follows(1) \/ Ends(1)
  BY ReceiveShape
<1> QED
  BY <1>3, <1>4, <1>5

LEMMA ReceiveStep ==
  ASSUME ListInv, Receive
  PROVE  ListInv'
<1>1. PICK d, st, mo :
           /\ d \in Nat
           /\ cb' = [list |-> UpTo(cb.n_recv + d), n_recv |-> cb.n_recv + d, status |-> st, more |-> mo]
           /\ Ahead(chan', sent', 1) = cb.n_recv + d + 1
           /\ \/ st = cb.status /\ mo = "opt" /\ chan[1].isStatus = FALSE
              \/ st = cb.status /\ mo = "no" /\ Ends(1) /\ chan[1].err = FALSE
              \/ st = "err" /\ mo = "no" /\ Ends(1)
  BY Outcome
<1>2. /\ op' = op /\ max_sz' = max_sz /\ sz' = sz /\ total' = total /\ pc' = pc /\ pc = "call"
      /\ pop' = pop /\ sent' = sent /\ kpc' = kpc /\ late' = late
      /\ chan \in Seq(Message) /\ chan' \in Seq(Message)
      /\ Len(chan) \in Nat /\ Len(chan) >= 1 /\ Len(chan') = Len(chan) - 1
      /\ \A i \in 1..Len(chan') : chan'[i] = chan[i + 1]
      /\ \A i \in 1..Len(chan) : Ahead(chan', sent', i) = Ahead(chan, sent, i + 1)
      /\ cb.n_recv \in Nat
  BY ReceiveShape
<1>3. cb'.n_recv = cb.n_recv + d /\ cb'.status = st /\ cb'.more = mo /\ cb'.n_recv \in Nat
  BY <1>1, <1>2
<1>4. st \in {"ok", "err"}
  BY <1>1 DEF ListInv, TypeInv
<1>5. TypeInv'
  <2>1. UpTo(cb.n_recv)' = UpTo(cb.n_recv + d)
    BY <1>2, <1>3 DEF UpTo, Fits
  <2>2. cb' = [list |-> UpTo(cb.n_recv)', n_recv |-> cb'.n_recv, status |-> cb'.status, more |-> cb'.more]
    BY <1>1, <1>3, <2>1
  <2> QED
    BY <1>2, <1>3, <1>4, <2>2 DEF ListInv, TypeInv
<1>6. ChanInv'
  <2>1. ASSUME NEW i \in 1..Len(chan')
        PROVE  Follows(i)' \/ Ends(i)'
    <3>1. i \in 1..Len(chan) /\ i + 1 \in 1..Len(chan)
      BY <1>2
    <3>2. PICK j \in 1..Len(chan) : j = i + 1
      BY <3>1
    <3>3. /\ chan'[i] = chan[j] /\ Ahead(chan', sent', i) = Ahead(chan, sent, j)
          /\ Ahead(chan', sent', i + 1) = Ahead(chan, sent, j + 1)
      <4>1. CASE i + 1 \in 1..Len(chan)
        BY <1>2, <3>1, <3>2
      <4> QED
        BY <3>1, <4>1
    <3>4. CASE Follows(j)
      BY <1>2, <3>3, <3>4, FollowsKept
    <3>5. CASE Ends(j)
      <4>1. i = Len(chan')
        BY <1>2, <3>2, <3>5 DEF Ends
      <4>2. Closes(chan[i])'
        BY <1>2, <3>3, <3>5 DEF Ends, Closes
      <4>3. Ends(i)'
        BY <1>2, <3>5, <4>1, <4>2 DEF Ends
      <4> QED
        BY <4>3
    <3> QED
      BY <3>4, <3>5 DEF ListInv, ChanInv
  <2>2. Ahead(chan', sent', 1) = cb'.n_recv + 1
    BY <1>1, <1>3
  <2>3. Len(chan)' = Len(chan')
    OBVIOUS
  <2> QED
    BY <2>1, <2>2, <2>3 DEF ChanInv
<1>7. KernelInv'
  <2>1. pc' = "call" /\ total' = Unset /\ sz' = 0 /\ kpc' # "idle" /\ (kpc' = "close" => sent' = pop')
    BY <1>2 DEF ListInv, KernelInv
  <2>2. mo = "no" => kpc' = "done" /\ chan' = <<>>
    <3>1. ASSUME Ends(1)
          PROVE  kpc' = "done" /\ Len(chan') = 0
      BY <1>2, <3>1 DEF Ends
    <3>2. Len(chan') = 0 => chan' = <<>>
      BY <1>2, EmptySeq
    <3> QED
      BY <1>1, <3>1, <3>2
  <2>3. ASSUME kpc' = "done"
        PROVE  \/ sent' = pop' \/ cb'.status = "err"
               \/ chan' # <<>> /\ chan'[Len(chan')].isStatus = TRUE /\ chan'[Len(chan')].err = TRUE
    <3>1. \/ sent = pop \/ cb.status = "err"
          \/ chan[Len(chan)].isStatus = TRUE /\ chan[Len(chan)].err = TRUE
      BY <1>2, <2>3 DEF ListInv, KernelInv
    <3>2. CASE sent = pop
      BY <1>2, <3>2
    <3>3. CASE cb.status = "err"
      BY <1>1, <1>3, <3>3
    <3>4. CASE chan[Len(chan)].isStatus = TRUE /\ chan[Len(chan)].err = TRUE
      <4>1. CASE Len(chan) = 1
        <5>1. ~(chan[1].isStatus = FALSE) /\ ~(chan[1].err = FALSE)
          BY <3>4, <4>1
        <5> QED
          BY <1>1, <1>3, <5>1
      <4>2. CASE Len(chan) # 1
        <5>1. Len(chan') \in 1..Len(chan') /\ chan'[Len(chan')] = chan[Len(chan)]
          BY <1>2, <4>2
        <5>2. chan' # <<>>
          BY <1>2, <5>1, EmptySeq
        <5> QED
          BY <3>4, <5>1, <5>2
      <4> QED
        BY <4>1, <4>2
    <3> QED
      BY <3>1, <3>2, <3>3, <3>4
  <2> QED
    BY <1>3, <2>1, <2>2, <2>3 DEF KernelInv
<1>8. ResultConsistent' /\ TotalExactInTime'
  BY <1>2 DEF ResultConsistent, TotalExactInTime, TotalExact
<1> QED
  BY <1>5, <1>6, <1>7, <1>8 DEF ListInv

-----------------------------------------------------------------------------
(***************************************************************************)
(* The theorems.                                                           *)
(***************************************************************************)

LEMMA ListStep == ListInv /\ [Next]_vars => ListInv'
<1> SUFFICES ASSUME ListInv, [Next]_vars PROVE ListInv'
  OBVIOUS
<1>1. CASE \E o \in Ops : Call(o)
  BY <1>1, CallStep
<1>2. CASE Receive
  BY <1>2, ReceiveStep
<1>3. CASE Timeout
  <2>1. PICK r : Return(r) /\ \/ UNCHANGED <<sz, total>>
                              \/ /\ r = "SUCCESS" /\ cb.status = "ok" /\ chan = <<>>
                                 /\ late' = (kpc # "done")
                                 /\ total' = cb.n_recv /\ sz' = Len(cb.list)
    BY <1>3, Zenon DEF Timeout
  <2>2. pc = "call"
    BY <1>3 DEF Timeout
  <2> QED
    BY <2>1, <2>2, ReturnStep
<1>4. CASE TransportFails
  <2>1. PICK r \in {"COMM_ERR", "PROTO_ERR", "BAD_MSG"} :
          pc = "call" /\ Return(r) /\ UNCHANGED <<sz, total>>
    BY <1>4 DEF TransportFails
  <2> QED
    BY <2>1, ReturnStep
<1>5. CASE KernelPart
  <2>1. pop \in Nat /\ sent \in Nat /\ op \in Ops /\ kpc = "work"
    BY <1>5 DEF ListInv, TypeInv, KernelPart
  <2>2. PICK n, k :
          /\ n \in (IF pop = sent THEN {0} ELSE 1..(pop - sent)) /\ k \in 0..n
          /\ KernelSends([isStatus |-> FALSE, err |-> FALSE, parts |->
                 IF k = 0 THEN <<[cmd |-> op, first |-> sent + 1, n |-> n]>>
                 ELSE <<[cmd |-> op, first |-> sent + 1, n |-> k],
                        [cmd |-> op, first |-> sent + k + 1, n |-> n - k]>>])
          /\ sent' = sent + n
          /\ kpc' = IF sent + n = pop THEN "close" ELSE "work"
    BY <1>5, Zenon DEF KernelPart
  <2> DEFINE ps == IF k = 0 THEN <<[cmd |-> op, first |-> sent + 1, n |-> n]>>
                   ELSE <<[cmd |-> op, first |-> sent + 1, n |-> k],
                          [cmd |-> op, first |-> sent + k + 1, n |-> n - k]>>
             m == [isStatus |-> FALSE, err |-> FALSE, parts |-> ps]
  <2>3. n \in Nat /\ k \in 0..n
    BY <2>1, <2>2
  <2>4. /\ ps \in Seq([cmd : Ops, first : Int, n : Int])
        /\ \/ /\ DOMAIN ps = {1}
              /\ ps[1].cmd = op /\ ps[1].first = sent + 1 /\ ps[1].n = n
           \/ /\ DOMAIN ps = {1, 2}
              /\ ps[1].cmd = op /\ ps[1].first = sent + 1 /\ ps[1].n = k
              /\ ps[2].cmd = op /\ ps[2].first = sent + k + 1 /\ ps[2].n = n - k
    <3>1. CASE k = 0
      BY <2>1, <2>3, <3>1
    <3>2. CASE k # 0
      BY <2>1, <2>3, <3>2
    <3> QED
      BY <3>1, <3>2
  <2> HIDE DEF ps
  <2>5. m \in Message /\ m.isStatus = FALSE /\ m.parts = ps
    BY <2>4 DEF Message
  <2>6. KernelSends(m)
    BY <2>2, Zenon DEF ps
  <2> HIDE DEF m
  <2>7. Carries(m, sent + 1, n)
    <3>1. sent + k + 1 = sent + 1 + k
      BY <2>1, <2>3
    <3>2. CASE /\ DOMAIN ps = {1}
               /\ ps[1].cmd = op /\ ps[1].first = sent + 1 /\ ps[1].n = n
      BY <2>5, <3>2 DEF Carries
    <3>3. CASE /\ DOMAIN ps = {1, 2}
               /\ ps[1].cmd = op /\ ps[1].first = sent + 1 /\ ps[1].n = k
               /\ ps[2].cmd = op /\ ps[2].first = sent + k + 1 /\ ps[2].n = n - k
      BY <2>3, <2>5, <3>1, <3>3 DEF Carries
    <3> QED
      BY <2>4, <3>2, <3>3
  <2>8. sent' \in Nat /\ sent' >= sent /\ sent' - sent = n
    BY <2>1, <2>2, <2>3
  <2>9. kpc' \in {"work", "close"} /\ (kpc' = "close" => sent' = pop)
    BY <2>2
  <2>10. Carries(m, sent + 1, sent' - sent)
    BY <2>7, <2>8
  <2> QED
    BY <2>1, <2>5, <2>6, <2>8, <2>9, <2>10, SendStep
<1>6. CASE KernelStatus
  <2>1. PICK err \in BOOLEAN :
          /\ kpc = "close" \/ (kpc = "work" /\ err)
          /\ KernelSends([isStatus |-> TRUE, err |-> err, parts |->
               IF op = "list" \/ sent = 0 THEN <<>>
               ELSE <<[cmd |-> op, first |-> 1, n |-> 0]>>])
    BY <1>6, Zenon DEF KernelStatus
  <2>2. kpc' = "done" /\ sent' = sent /\ sent \in Nat /\ op \in Ops
    BY <1>6 DEF KernelStatus, ListInv, TypeInv
  <2> DEFINE ps == IF op = "list" \/ sent = 0 THEN <<>>
                   ELSE <<[cmd |-> op, first |-> 1, n |-> 0]>>
             m == [isStatus |-> TRUE, err |-> err, parts |-> ps]
  <2>3. /\ ps \in Seq([cmd : Ops, first : Int, n : Int])
        /\ DOMAIN ps = {} \/ (DOMAIN ps = {1} /\ ps[1].cmd = op /\ ps[1].n = 0)
    <3>1. CASE op = "list" \/ sent = 0
      <4>1. ps = <<>>
        BY <3>1
      <4> HIDE DEF ps
      <4> QED
        BY <4>1
    <3>2. CASE ~(op = "list" \/ sent = 0)
      <4>1. ps = <<[cmd |-> op, first |-> 1, n |-> 0]>>
        BY <3>2
      <4> HIDE DEF ps
      <4> QED
        BY <2>2, <4>1
    <3> QED
      BY <3>1, <3>2
  <2> HIDE DEF ps
  <2>4. m \in Message /\ m.isStatus = TRUE /\ m.parts = ps
    BY <2>3, Zenon DEF Message
  <2>5. m.err = err
    OBVIOUS
  <2>6. KernelSends(m)
    BY <2>1, Zenon DEF ps
  <2> HIDE DEF m
  <2>7. Closes(m)
    BY <2>3, <2>4 DEF Closes
  <2>8. m.err = TRUE \/ sent = pop
    BY <2>1, <2>5 DEF ListInv, KernelInv
  <2>9. kpc \in {"work", "close"} /\ sent' \in Nat /\ sent' >= sent
    BY <2>1, <2>2
  <2>10. Closes(m) /\ sent' = sent /\ kpc' = "done" /\ (m.err = TRUE \/ sent = pop)
    BY <2>2, <2>7, <2>8
  <2> QED
    BY <2>4, <2>6, <2>9, <2>10, SendStep, Zenon
<1>7. CASE KernelSilent
  <2>1. /\ kpc = "close" /\ kpc' = "done"
        /\ UNCHANGED <<op, max_sz, sz, total, pc, ret, cb, rcvd, chan, pop, sent, late>>
    BY <1>7 DEF KernelSilent
  <2>2. UpTo(cb.n_recv)' = UpTo(cb.n_recv)
    BY <2>1 DEF UpTo, Fits
  <2>3. TypeInv'
    BY <2>1, <2>2 DEF ListInv, TypeInv
  <2>4. ChanInv'
    <3>1. ASSUME NEW i \in 1..Len(chan)
          PROVE  Follows(i)'
      <4>1. Follows(i)
        BY <2>1 DEF ListInv, ChanInv, Ends
      <4> QED
        BY <2>1, <4>1, FollowsKept
    <3> QED
      BY <2>1, <3>1 DEF ListInv, ChanInv
  <2>5. KernelInv' /\ ResultConsistent' /\ TotalExactInTime'
    BY <2>1 DEF ListInv, KernelInv, TypeInv, ResultConsistent, TotalExactInTime, TotalExact
  <2> QED
    BY <2>3, <2>4, <2>5 DEF ListInv
<1>8. CASE UNCHANGED vars
  <2>1. UNCHANGED <<op, max_sz, sz, total, pc, ret, cb, rcvd, chan, pop, sent, kpc, late>>
    BY <1>8 DEF vars
  <2>2. UpTo(cb.n_recv)' = UpTo(cb.n_recv)
    BY <2>1 DEF UpTo, Fits
  <2>3. TypeInv'
    BY <2>1, <2>2 DEF ListInv, TypeInv
  <2>4. ChanInv'
    <3>1. ASSUME NEW i \in 1..Len(chan)
          PROVE  (Follows(i) \/ Ends(i))'
      <4>1. CASE Follows(i)
        BY <2>1, <4>1, FollowsKept
      <4>2. CASE Ends(i)
        BY <2>1, <4>2 DEF Ends, Closes
      <4> QED
        BY <4>1, <4>2 DEF ListInv, ChanInv
    <3> QED
      BY <2>1, <3>1 DEF ListInv, ChanInv
  <2>5. KernelInv' /\ ResultConsistent' /\ TotalExactInTime'
    BY <2>1 DEF ListInv, KernelInv, ResultConsistent, TotalExactInTime, TotalExact
  <2> QED
    BY <2>3, <2>4, <2>5 DEF ListInv
<1> QED
  BY <1>1, <1>2, <1>3, <1>4, <1>5, <1>6, <1>7, <1>8 DEF Next

LEMMA ListAlways == Spec => []ListInv
  BY ListInit, ListStep, PTL DEF Spec

\* A failed enumeration leaves an empty list and no total; a successful one leaves the
\* first ids received, without gap or repetition, and fewer than the total only if no
\* more fit (w1.c 445-532, 628-715): for any number of ids, however they are cut into
\* messages and headers, and any capacity.
THEOREM ListConsistent == Spec => []ResultConsistent
<1>1. ListInv => ResultConsistent
  BY DEF ListInv
<1> QED
  BY <1>1, ListAlways, PTL

\* The total is the "overall number" (w1.h 170-173), and the list complete when it
\* fits, unless poll() gave up on a kernel that was still at work.
THEOREM CountedInTime == Spec => []TotalExactInTime
<1>1. ListInv => TotalExactInTime
  BY DEF ListInv
<1> QED
  BY <1>1, ListAlways, PTL
=============================================================================
