-------------------------- MODULE ReadQueriesProofs --------------------------
(***************************************************************************)
(* What the queries of module ReadQueries answer, for every log, request   *)
(* and limit.  A scan and the size of a page are recursive functions, so   *)
(* the module begins with recursion and induction over the natural         *)
(* numbers.                                                                *)
(***************************************************************************)
EXTENDS ReadQueries, EventStoreProofs, WellFoundedInduction

(* First-order steps go to Zenon; steps with arithmetic name SMT.           *)
USE Zenon

(* A set of natural numbers that is not empty has a least element.         *)
LEMMA LeastOf ==
  ASSUME NEW D, D \subseteq Nat, D # {}
  PROVE  \E n \in D : \A m \in D : n <= m
<1> DEFINE R == OpToRel(<, Nat)
<1>1. IsWellFoundedOn(R, Nat)
  BY NatLessThanWellFounded
<1>2. \A m, n \in Nat : <<m, n>> \in R <=> m < n
  BY DEF OpToRel
<1> HIDE DEF R
<1>3. PICK n \in D : \A m \in D : ~(<<m, n>> \in R)
  BY <1>1, WFMin
<1>4. \A m \in D : ~(m < n)
  BY <1>2, <1>3
<1>5. \A m \in D : n <= m
  BY <1>4, SMT
<1> QED  BY <1>5

(* Induction: what holds of 0, and of k + 1 if it holds of k < n, holds of *)
(* all numbers up to n.                                                    *)
LEMMA UpTo ==
  ASSUME NEW n \in Nat, NEW D, 0 \in D,
         \A k \in 0..(n - 1) : k \in D => k + 1 \in D
  PROVE  0..n \subseteq D
<1> DEFINE E == (0..n) \ D
<1> SUFFICES ASSUME E # {}  PROVE FALSE
  OBVIOUS
<1>1. E \subseteq Nat
  BY SMT
<1>2. PICK x \in E : \A y \in E : x <= y
  <2> HIDE DEF E
  <2> QED  BY <1>1, LeastOf
<1>3. x \in 1..n /\ x - 1 \in 0..(n - 1) /\ (x - 1) + 1 = x /\ ~(x <= x - 1)
         /\ x - 1 \in 0..n
  BY <1>2, SMT
<1>4. x - 1 \in D
  BY <1>2, <1>3
<1> QED  BY <1>3, <1>4

(* f starts at x and takes n steps of g.                                   *)
Recurs(f, n, x, g) ==
  f[0] = x /\ \A i \in 1..n : f[i] = g[<<f[i - 1], i>>]

(* A recursion of n steps within a set S has a solution.                   *)
LEMMA Recursion ==
  ASSUME NEW n \in Nat, NEW S, NEW x \in S, NEW g \in [S \X (1..n) -> S]
  PROVE  \E f \in [0..n -> S] : Recurs(f, n, x, g)
<1> DEFINE Solves(f, k) ==
             f[0] = x /\ \A i \in 1..k : f[i] = g[<<f[i - 1], i>>]
           D == {k \in 0..n : \E f \in [0..n -> S] : Solves(f, k)}
<1>1. 0 \in D
  <2>1. 0 \in 0..n /\ 1..0 = {}
    BY SMT
  <2>2. [i \in 0..n |-> x] \in [0..n -> S] /\ [i \in 0..n |-> x][0] = x
    BY <2>1
  <2> QED  BY <2>1, <2>2
<1>2. ASSUME NEW k \in 0..(n - 1), k \in D
      PROVE  k + 1 \in D
  <2>1. PICK f \in [0..n -> S] : Solves(f, k)
    BY <1>2
  <2>2. k + 1 \in 0..n /\ k + 1 \in 1..n /\ k \in 0..n /\ 0 # k + 1 /\ (k + 1) - 1 = k
         /\ 0 \in 0..n
    BY SMT
  <2>3. \A i \in 1..(k + 1) :
          i - 1 \in 0..n /\ i - 1 # k + 1 /\ i \in 0..n /\ i \in 1..n
            /\ (i = k + 1 \/ (i \in 1..k /\ i # k + 1))
    BY SMT
  <2> DEFINE h == [f EXCEPT ![k + 1] = g[<<f[k], k + 1>>]]
  <2>4. g[<<f[k], k + 1>>] \in S
    BY <2>2
  <2>5. h \in [0..n -> S]
    BY <2>4
  <2>6. h[0] = x /\ h[k + 1] = g[<<f[k], k + 1>>]
          /\ \A i \in 0..n : i # k + 1 => h[i] = f[i]
    BY <2>1, <2>2
  <2> HIDE DEF h
  <2>7. ASSUME NEW i \in 1..(k + 1)
        PROVE  h[i] = g[<<h[i - 1], i>>]
    <3>1. h[i - 1] = f[i - 1]
      BY <2>3, <2>6
    <3>2. CASE i = k + 1
      BY <3>1, <3>2, <2>2, <2>6
    <3>3. CASE i \in 1..k /\ i # k + 1
      BY <3>1, <3>3, <2>1, <2>3, <2>6
    <3> QED  BY <2>3, <3>2, <3>3
  <2>8. Solves(h, k + 1)
    BY <2>6, <2>7
  <2> QED  BY <2>2, <2>5, <2>8
<1>3. n \in 0..n
  BY SMT
<1>4. 0..n \subseteq D
  <2> HIDE DEF D
  <2> QED  BY <1>1, <1>2, UpTo
<1> QED  BY <1>3, <1>4 DEF Recurs

(***************************************************************************)
(* The states of a scan.                                                   *)
(***************************************************************************)
Statuses == {"scanning", "OK", "DATA_LOSS"}

ScanStates ==
  [next: Nat, scanned: Nat, page: Seq(Nat), bytes: Nat, status: Statuses]

(* Every message has a size.                                               *)
LEMMA SizeIs == \A m : ByteSize(m) \in Nat \ {0}
BY QueryAssumption, SMT DEF ByteSize

(* Stop only changes the status.                                           *)
LEMMA StopIs ==
  ASSUME NEW st \in ScanStates, NEW x \in Statuses
  PROVE  /\ Stop(st, x) \in ScanStates
         /\ Stop(st, x).next = st.next /\ Stop(st, x).scanned = st.scanned
         /\ Stop(st, x).page = st.page /\ Stop(st, x).bytes = st.bytes
         /\ Stop(st, x).status = x
BY DEF Stop, ScanStates

(* Pass takes the scan behind the message.                                 *)
LEMMA PassIs ==
  ASSUME NEW st \in ScanStates, NEW s \in Nat
  PROVE  /\ Pass(st, s) \in ScanStates
         /\ Pass(st, s).next = s + 1 /\ Pass(st, s).scanned = st.scanned + 1
         /\ Pass(st, s).page = st.page /\ Pass(st, s).bytes = st.bytes
         /\ Pass(st, s).status = st.status
<1>1. s + 1 \in Nat /\ st.scanned + 1 \in Nat
  BY SMT DEF ScanStates
<1> QED  BY <1>1 DEF Pass, ScanStates

(* Added also puts the message at the end of the page.                     *)
LEMMA AddedIs ==
  ASSUME NEW st \in ScanStates, NEW s \in Nat, NEW d
  PROVE  /\ Added(d, st, s) \in ScanStates
         /\ Added(d, st, s).next = s + 1
         /\ Added(d, st, s).scanned = st.scanned + 1
         /\ Added(d, st, s).page = Append(st.page, s)
         /\ Added(d, st, s).bytes = st.bytes + ByteSize(d.log[s])
         /\ Added(d, st, s).status = st.status
<1>1. Append(st.page, s) \in Seq(Nat)
  BY SMT DEF ScanStates
<1>2. st.bytes + ByteSize(d.log[s]) \in Nat
  <2>1. ByteSize(d.log[s]) \in Nat
    BY SizeIs
  <2>2. st.bytes \in Nat
    BY DEF ScanStates
  <2> QED  BY <2>1, <2>2, SMT
<1>3. Pass(st, s) \in ScanStates
  BY PassIs
<1> DEFINE p == Pass(st, s)
<1>4. p.next = s + 1 /\ p.scanned = st.scanned + 1 /\ p.status = st.status
  BY PassIs
<1>5. Added(d, st, s) = [p EXCEPT !.page = Append(st.page, s),
                                  !.bytes = st.bytes + ByteSize(d.log[s])]
  BY DEF Added
<1> HIDE DEF p
<1> QED  BY <1>1, <1>2, <1>3, <1>4, <1>5 DEF ScanStates, p

(* What a scan may do with one message.                                    *)
Shown(d, r, s) ==
  /\ ChannelStatus(d, d.log[s].channel) = "OK"
  /\ r.op = "Fetch" => Requested(r, d.log[s]) /\ Readable(d, r, d.log[s])

Sound(d, s) == s \in DOMAIN d.log /\ ValidStoredMessage(s, d.log[s])

Clean(d, r, s) ==
  /\ Sound(d, s)
  /\ (r.op = "Fetch" => Requested(r, d.log[s]))
       => ChannelStatus(d, d.log[s].channel) = "OK"

Damaged(d, s) ==
  \/ s \notin DOMAIN d.log
  \/ ~ValidStoredMessage(s, d.log[s])
  \/ ChannelStatus(d, d.log[s].channel) # "OK"

Fits(d, st, s) == st.page = <<>> \/ ~(ByteSize(d.log[s]) > Room(st))

(* What becomes of a scan at one record.                                   *)
Outcome(d, r, st, s, t) ==
  \/ t = Stop(st, "DATA_LOSS") /\ Damaged(d, s)
  \/ /\ t = Stop(st, "OK")
     /\ st.page # <<>> \/ st.scanned >= MaxScan \/ ~(st.scanned < MaxScan)
  \/ t = Pass(st, s) /\ Clean(d, r, s) /\ ~Shown(d, r, s)
  \/ /\ t = Added(d, st, s) \/ t = Stop(Added(d, st, s), "OK")
     /\ Clean(d, r, s) /\ Shown(d, r, s) /\ Fits(d, st, s)

(* A scan that still runs stops at damage, stops at a limit that it has    *)
(* reached, passes a message that is not shown or adds one that is.        *)
LEMMA RecordCases ==
  ASSUME NEW d, NEW r, NEW last, NEW st, NEW s, st.status = "scanning"
  PROVE  Outcome(d, r, st, s, ScanRecord(d, r, last, st, s))
<1> DEFINE next == ScanRecord(d, r, last, st, s)
<1>1. CASE s \notin DOMAIN d.log
  BY <1>1 DEF ScanRecord, Damaged, Outcome
<1>2. CASE s \in DOMAIN d.log /\ st.scanned >= MaxScan
  BY <1>2 DEF ScanRecord, Outcome
<1>3. CASE s \in DOMAIN d.log /\ ~(st.scanned >= MaxScan)
             /\ ~ValidStoredMessage(s, d.log[s])
  BY <1>3 DEF ScanRecord, Damaged, Outcome
<1>4. CASE Sound(d, s) /\ ~(st.scanned >= MaxScan)
  <2>1. next = Visitor(d, r, st, s)
    BY <1>4 DEF ScanRecord, Sound
  <2>2. CASE r.op = "Fetch"
    <3>1. next = VisitVisible(d, r, st, s)
      BY <2>1, <2>2 DEF Visitor
    <3> QED
      BY <3>1, <1>4, <2>2 DEF VisitVisible, AddMessage, Shown, Damaged, Fits,
                                 Outcome, Clean
  <2>3. CASE r.op # "Fetch"
    <3>1. next = VisitAny(d, r, st, s)
      BY <2>1, <2>3 DEF Visitor
    <3> QED
      BY <3>1, <1>4, <2>3 DEF VisitAny, AddMessage, Shown, Damaged, Fits,
                                 Outcome, Clean
  <2> QED  BY <2>2, <2>3
<1> QED  BY <1>1, <1>2, <1>3, <1>4 DEF Sound

(* Whatever a record is, it takes a scan state to a scan state.            *)
LEMMA RecordTyped ==
  ASSUME NEW d, NEW r, NEW last, NEW st \in ScanStates, NEW s \in Nat
  PROVE  ScanRecord(d, r, last, st, s) \in ScanStates
<1>1. CASE st.status # "scanning"
  BY <1>1 DEF ScanRecord
<1>2. CASE st.status = "scanning"
  <2> DEFINE next == ScanRecord(d, r, last, st, s)
             a == Added(d, st, s)
  <2>1. \/ next = Stop(st, "DATA_LOSS") \/ next = Stop(st, "OK")
        \/ next = Pass(st, s) \/ next = a \/ next = Stop(a, "OK")
    <3>1. Outcome(d, r, st, s, next)
      BY <1>2, RecordCases
    <3> HIDE DEF next
    <3> QED  BY <3>1 DEF Outcome
  <2>2. a \in ScanStates /\ Pass(st, s) \in ScanStates
    BY AddedIs, PassIs
  <2>3. "OK" \in Statuses /\ "DATA_LOSS" \in Statuses
    BY DEF Statuses
  <2> HIDE DEF next, a
  <2>4. /\ Stop(st, "DATA_LOSS") \in ScanStates /\ Stop(st, "OK") \in ScanStates
        /\ Stop(a, "OK") \in ScanStates
    BY <2>2, <2>3, StopIs
  <2>5. next \in ScanStates
    BY <2>1, <2>2, <2>4
  <2> QED  BY <2>5 DEF next
<1> QED  BY <1>1, <1>2

(* A scan starts in a scan state.                                          *)
LEMMA StartTyped ==
  ASSUME NEW from \in Nat
  PROVE  ScanStart(from) \in ScanStates
<1>1. <<>> \in Seq(Nat) /\ 0 \in Nat
  BY SMT
<1> QED  BY <1>1 DEF ScanStart, ScanStates, Statuses

(* run[i] is the state of the scan after i records.                        *)
Runs(run, d, r, from, last) ==
  /\ run[0] = ScanStart(from)
  /\ \A i \in 1..(last - from + 1) :
       run[i] = ScanRecord(d, r, last, run[i - 1], from + i - 1)
  /\ ScanMessages(d, r, from, last) = run[last - from + 1]

(* ScanMessages visits one record after the other.                         *)
LEMMA ScanRun ==
  ASSUME NEW d, NEW r, NEW from \in Nat, NEW last \in Nat, from <= last
  PROVE  \E run : Runs(run, d, r, from, last)
<1> DEFINE n == last - from + 1
           g == [x \in ScanStates \X (1..n) |->
                   ScanRecord(d, r, last, x[1], from + x[2] - 1)]
<1>1. n \in Nat /\ \A i \in 1..n : from + i - 1 \in Nat /\ i - 1 \in 0..n /\ i \in 0..n
                                     /\ i # 0
  BY SMT
<1>2. 0 \in 0..n /\ n \in 0..n /\ \A i \in 0..n : i = 0 \/ i \in 1..n
  BY <1>1, SMT
<1> HIDE DEF n
<1>3. g \in [ScanStates \X (1..n) -> ScanStates]
  BY <1>1, RecordTyped
<1>4. \A x \in ScanStates, i \in 1..n :
        g[<<x, i>>] = ScanRecord(d, r, last, x, from + i - 1)
  OBVIOUS
<1> HIDE DEF g
<1>5. PICK f \in [0..n -> ScanStates] :
        Recurs(f, n, ScanStart(from), g)
  <2>1. ScanStart(from) \in ScanStates /\ n \in Nat
    BY <1>1, StartTyped
  <2> QED  BY <1>3, <2>1, Recursion
<1>6. /\ f[0] = ScanStart(from)
      /\ \A i \in 1..n : f[i] = ScanRecord(d, r, last, f[i - 1], from + i - 1)
  BY <1>1, <1>4, <1>5 DEF Recurs
<1>7. f = [i \in 0..n |->
             IF i = 0 THEN ScanStart(from)
             ELSE ScanRecord(d, r, last, f[i - 1], from + i - 1)]
  BY <1>2, <1>5, <1>6
<1> DEFINE run == CHOOSE h :
              h = [i \in 0..n |->
                     IF i = 0 THEN ScanStart(from)
                     ELSE ScanRecord(d, r, last, h[i - 1], from + i - 1)]
<1>8. run = [i \in 0..n |->
               IF i = 0 THEN ScanStart(from)
               ELSE ScanRecord(d, r, last, run[i - 1], from + i - 1)]
  BY <1>7
<1>9. ScanMessages(d, r, from, last) = run[n]
  BY DEF ScanMessages, n
<1> HIDE DEF run
<1>10. run[0] = ScanStart(from)
         /\ \A i \in 1..n : run[i] = ScanRecord(d, r, last, run[i - 1], from + i - 1)
  BY <1>1, <1>2, <1>8
<1> QED  BY <1>9, <1>10 DEF n, Runs

(***************************************************************************)
(* The size of a page.                                                     *)
(***************************************************************************)
(* sum[i] is the size of the first i messages of the page.                 *)
PageSums(sum, d, page) ==
  /\ sum[0] = 0
  /\ \A i \in 1..Len(page) : sum[i] = sum[i - 1] + ByteSize(d.log[page[i]])
  /\ PageBytes(d, page) = sum[Len(page)]

(* PageBytes adds the sizes one after the other.                           *)
LEMMA PageSum ==
  ASSUME NEW d, NEW page \in Seq(Nat)
  PROVE  \E sum : PageSums(sum, d, page)
<1> DEFINE n == Len(page)
           w(i) == ByteSize(d.log[page[i]])
           g == [x \in Nat \X (1..n) |-> x[1] + w(x[2])]
<1>1. n \in Nat /\ 0 \in Nat
  BY SMT
<1>2. \A i \in 1..n : w(i) \in Nat
  BY SizeIs
<1> HIDE DEF n, w
<1>3. /\ \A i \in 1..n : i - 1 \in 0..n /\ i \in 0..n /\ i # 0
      /\ 0 \in 0..n /\ n \in 0..n /\ \A i \in 0..n : i = 0 \/ i \in 1..n
      /\ \A k \in 0..(n - 1) : k + 1 \in 1..n /\ (k + 1) - 1 = k
      /\ \A x, y \in Nat : x + y \in Nat
  BY <1>1, SMT
<1>4. g \in [Nat \X (1..n) -> Nat]
  BY <1>2, <1>3
<1>5. \A x \in Nat, i \in 1..n : g[<<x, i>>] = x + w(i)
  OBVIOUS
<1> HIDE DEF g
<1>6. PICK f \in [0..n -> Nat] :
        Recurs(f, n, 0, g)
  BY <1>1, <1>4, Recursion
<1>7. f[0] = 0 /\ \A i \in 1..n : f[i] = f[i - 1] + w(i)
  BY <1>3, <1>5, <1>6 DEF Recurs
<1>8. f = [i \in 0..n |-> IF i = 0 THEN 0 ELSE f[i - 1] + w(i)]
  BY <1>3, <1>6, <1>7
<1> DEFINE sum == CHOOSE h : h = [i \in 0..n |-> IF i = 0 THEN 0 ELSE h[i - 1] + w(i)]
<1>9. sum = [i \in 0..n |-> IF i = 0 THEN 0 ELSE sum[i - 1] + w(i)]
  BY <1>8
<1>10. PageBytes(d, page) = sum[n]
  BY DEF PageBytes, n, w
<1> HIDE DEF sum
<1>11. sum[0] = 0 /\ \A i \in 1..n : sum[i] = sum[i - 1] + w(i)
  BY <1>3, <1>9
<1> QED  BY <1>10, <1>11 DEF n, w, PageSums

(* s adds up the sizes v.                                                  *)
Sums(s, v, n) == s[0] = 0 /\ \A i \in 1..n : s[i] = s[i - 1] + v[i]

(* The same sizes have the same sum.                                       *)
LEMMA SumsAgree ==
  ASSUME NEW n \in Nat, NEW s, NEW t, NEW v, Sums(s, v, n), Sums(t, v, n)
  PROVE  s[n] = t[n]
<1> DEFINE D == {i \in 0..n : s[i] = t[i]}
<1>1. /\ \A k \in 0..(n - 1) : k + 1 \in 1..n /\ (k + 1) - 1 = k /\ k + 1 \in 0..n
      /\ 0 \in 0..n /\ n \in 0..n
  BY SMT
<1>2. 0 \in D
  BY <1>1 DEF Sums
<1>3. ASSUME NEW k \in 0..(n - 1), k \in D
      PROVE  k + 1 \in D
  <2>1. s[k + 1] = s[k] + v[k + 1] /\ t[k + 1] = t[k] + v[k + 1] /\ s[k] = t[k]
    BY <1>1, <1>3 DEF Sums
  <2> QED  BY <1>1, <2>1
<1>4. 0..n \subseteq D
  <2> HIDE DEF D
  <2> QED  BY <1>2, <1>3, UpTo
<1> QED  BY <1>1, <1>4

(* The size of a page only depends on its messages.                        *)
LEMMA BytesSame ==
  ASSUME NEW d, NEW e, NEW page \in Seq(Nat),
         \A i \in 1..Len(page) : e.log[page[i]] = d.log[page[i]]
  PROVE  PageBytes(e, page) = PageBytes(d, page)
<1> DEFINE n == Len(page)
           v == [i \in 1..n |-> ByteSize(d.log[page[i]])]
<1>1. n \in Nat
  BY SMT
<1>2. PICK s : PageSums(s, d, page)
  BY PageSum
<1>3. PICK t : PageSums(t, e, page)
  BY PageSum
<1>4. Sums(s, v, n) /\ Sums(t, v, n)
  BY <1>2, <1>3 DEF Sums, PageSums
<1>5. s[n] = t[n]
  <2> HIDE DEF n, v
  <2> QED  BY <1>1, <1>4, SumsAgree
<1> QED  BY <1>2, <1>3, <1>5 DEF PageSums

(* An empty page has no size, and a message adds its own.                  *)
LEMMA BytesAppend ==
  ASSUME NEW d, NEW page \in Seq(Nat), NEW s \in Nat
  PROVE  /\ PageBytes(d, <<>>) = 0
         /\ PageBytes(d, Append(page, s)) = PageBytes(d, page) + ByteSize(d.log[s])
<1>1. PageBytes(d, <<>>) = 0
  <2>1. <<>> \in Seq(Nat) /\ Len(<<>>) = 0
    BY SMT
  <2>2. PICK t : PageSums(t, d, <<>>)
    BY <2>1, PageSum
  <2> QED  BY <2>1, <2>2 DEF PageSums
<1> DEFINE n == Len(page)
           q == Append(page, s)
           v == [i \in 1..n |-> ByteSize(d.log[page[i]])]
<1>2. /\ n \in Nat /\ q \in Seq(Nat) /\ Len(q) = n + 1 /\ q[n + 1] = s
      /\ \A i \in 1..n : q[i] = page[i] /\ i \in 1..(n + 1)
      /\ n + 1 \in 1..(n + 1) /\ (n + 1) - 1 = n
  BY SMT
<1>3. PICK t : PageSums(t, d, page)
  BY PageSum
<1> HIDE DEF q
<1>4. PICK u : PageSums(u, d, q)
  BY <1>2, PageSum
<1>5. Sums(u, v, n) /\ Sums(t, v, n)
  BY <1>2, <1>3, <1>4 DEF Sums, PageSums
<1>6. u[n] = t[n]
  <2> HIDE DEF n, v
  <2> QED  BY <1>2, <1>5, SumsAgree
<1>7. u[n + 1] = u[n] + ByteSize(d.log[s])
  BY <1>2, <1>4 DEF PageSums
<1> QED  BY <1>1, <1>2, <1>3, <1>4, <1>6, <1>7 DEF q, PageSums

(***************************************************************************)
(* The invariant of a scan from seq from, after k records: where it is,    *)
(* that it passed only sound messages, that its page is exact and within   *)
(* the budget, and that it reports no damage of good data.                 *)
(***************************************************************************)
Position(from, k, st) ==
  /\ st \in ScanStates
  /\ from <= st.next /\ st.next <= from + k /\ st.scanned = st.next - from
  /\ st.status = "scanning" => st.next = from + k
  /\ st.status = "OK" => from < st.next

PageExact(d, r, from, st) ==
  /\ \A s \in from..(st.next - 1) : Clean(d, r, s)
  /\ Increasing(st.page)
  /\ SeqsIn(st.page) = {s \in from..(st.next - 1) : Shown(d, r, s)}

Budget(d, st) ==
  /\ st.bytes = PageBytes(d, st.page)
  /\ Len(st.page) <= 1 \/ st.bytes <= SoftLimit

Scanned(d, r, from, k, st) ==
  /\ Position(from, k, st)
  /\ PageExact(d, r, from, st)
  /\ Budget(d, st)
  /\ GoodDb(d) => st.status # "DATA_LOSS"

(* A page with one more seq, above all that it has.                        *)
LEMMA AppendPage ==
  ASSUME NEW page \in Seq(Nat), NEW s \in Nat
  PROVE  /\ SeqsIn(Append(page, s)) = SeqsIn(page) \cup {s}
         /\ (Increasing(page) /\ \A x \in SeqsIn(page) : x < s)
              => Increasing(Append(page, s))
         /\ Len(Append(page, s)) = Len(page) + 1
         /\ SeqsIn(<<>>) = {} /\ Increasing(<<>>) /\ Len(<<>>) = 0
         /\ page # <<>> => page[1] \in SeqsIn(page)
         /\ page = <<>> => Len(page) = 0
<1> DEFINE n == Len(page)
           q == Append(page, s)
<1>1. /\ n \in Nat /\ DOMAIN page = 1..n /\ DOMAIN q = 1..(n + 1) /\ q[n + 1] = s
      /\ \A i \in 1..n : q[i] = page[i]
      /\ Len(q) = n + 1 /\ Len(<<>>) = 0 /\ DOMAIN <<>> = 1..0
      /\ page # <<>> => 1 \in 1..n
  BY SMT
<1>2. /\ 1..0 = {}
      /\ \A i \in 1..n : i \in 1..(n + 1) /\ i < n + 1 /\ ~(n + 1 < i)
      /\ n + 1 \in 1..(n + 1) /\ ~(n + 1 < n + 1)
      /\ \A i \in 1..(n + 1) : i \in 1..n \/ i = n + 1
  BY <1>1, SMT
<1> HIDE DEF n, q
<1>3. SeqsIn(q) = SeqsIn(page) \cup {s}
  <2>1. \A x \in SeqsIn(q) : x \in SeqsIn(page) \cup {s}
    BY <1>1, <1>2 DEF SeqsIn
  <2>2. \A x \in SeqsIn(page) : x \in SeqsIn(q)
    BY <1>1, <1>2 DEF SeqsIn
  <2>3. s \in SeqsIn(q)
    BY <1>1, <1>2 DEF SeqsIn
  <2> QED  BY <2>1, <2>2, <2>3
<1>4. ASSUME Increasing(page), \A x \in SeqsIn(page) : x < s
      PROVE  Increasing(q)
  <2> SUFFICES ASSUME NEW i \in 1..(n + 1), NEW j \in 1..(n + 1), i < j
               PROVE  q[i] < q[j]
    BY <1>1 DEF Increasing
  <2>1. i \in 1..n
    BY <1>2
  <2>2. CASE j \in 1..n
    BY <1>1, <1>4, <2>1, <2>2 DEF Increasing
  <2>3. CASE j = n + 1
    <3>1. page[i] \in SeqsIn(page)
      BY <1>1, <2>1 DEF SeqsIn
    <3> QED  BY <1>1, <1>4, <2>1, <2>3, <3>1
  <2> QED  BY <1>2, <2>2, <2>3
<1>5. page # <<>> => page[1] \in SeqsIn(page)
  BY <1>1 DEF SeqsIn
<1>6. SeqsIn(<<>>) = {} /\ Increasing(<<>>)
  BY <1>1, <1>2 DEF SeqsIn, Increasing
<1> QED  BY <1>1, <1>3, <1>4, <1>5, <1>6 DEF n, q

(* The start of a scan.                                                    *)
LEMMA ScanStarts ==
  ASSUME NEW d, NEW r, NEW from \in Nat
  PROVE  Scanned(d, r, from, 0, ScanStart(from))
<1> DEFINE st == ScanStart(from)
<1>1. /\ st.next = from /\ st.scanned = 0 /\ st.page = <<>> /\ st.bytes = 0
      /\ st.status = "scanning"
  BY DEF ScanStart
<1>2. st \in ScanStates
  BY StartTyped
<1> HIDE DEF st
<1>3. from <= from /\ from <= from + 0 /\ 0 = from - from /\ from = from + 0
        /\ from..(from - 1) = {} /\ 0 <= 1 /\ <<>> \in Seq(Nat) /\ 0 \in Nat
  BY SMT
<1>4. SeqsIn(<<>>) = {} /\ Increasing(<<>>) /\ Len(<<>>) = 0 /\ PageBytes(d, <<>>) = 0
  BY <1>3, AppendPage, BytesAppend
<1> QED  BY <1>1, <1>2, <1>3, <1>4 DEF Scanned, Position, PageExact, Budget, st

(* A state that stops keeps the invariant if it has a reason to.           *)
LEMMA ScanStops ==
  ASSUME NEW d, NEW r, NEW from \in Nat, NEW k \in Nat, NEW st,
         Scanned(d, r, from, k, st), NEW x \in {"OK", "DATA_LOSS"},
         x = "OK" => from < st.next,
         GoodDb(d) => x # "DATA_LOSS"
  PROVE  Scanned(d, r, from, k, Stop(st, x))
<1>1. st \in ScanStates /\ x \in Statuses /\ x # "scanning"
  BY DEF Scanned, Position, Statuses
<1> DEFINE t == Stop(st, x)
<1>2. /\ t \in ScanStates /\ t.next = st.next /\ t.scanned = st.scanned
      /\ t.page = st.page /\ t.bytes = st.bytes /\ t.status = x
  BY <1>1, StopIs
<1> HIDE DEF t
<1>3. Position(from, k, t)
  BY <1>1, <1>2 DEF Scanned, Position
<1>4. PageExact(d, r, from, t) /\ Budget(d, t)
  BY <1>2 DEF Scanned, PageExact, Budget
<1> QED  BY <1>2, <1>3, <1>4 DEF Scanned, t

(* A state of one more record keeps the invariant.                         *)
LEMMA ScanStays ==
  ASSUME NEW d, NEW r, NEW from \in Nat, NEW k \in Nat, NEW st,
         Scanned(d, r, from, k, st), st.status # "scanning"
  PROVE  Scanned(d, r, from, k + 1, st)
<1>1. st.next \in Nat
  BY DEF Scanned, Position, ScanStates
<1>2. st.next <= from + (k + 1)
  BY <1>1, SMT DEF Scanned, Position
<1> QED  BY <1>2 DEF Scanned, Position

(* Where a running scan stands, and the seqs before and behind it.         *)
Stands(from, k, st, s) ==
  /\ s \in Nat /\ st \in ScanStates /\ st.next = s
  /\ from <= s + 1 /\ s + 1 <= from + (k + 1) /\ s + 1 = from + (k + 1)
  /\ st.scanned + 1 = (s + 1) - from /\ from < s + 1
  /\ from..((s + 1) - 1) = (from..(st.next - 1)) \cup {s}
  /\ \A x \in from..(st.next - 1) : x < s

(* A running scan after k records stands at seq from + k.                  *)
LEMMA Standing ==
  ASSUME NEW d, NEW r, NEW from \in Nat, NEW k \in Nat, NEW st,
         Scanned(d, r, from, k, st), st.status = "scanning", NEW s, s = from + k
  PROVE  Stands(from, k, st, s)
<1>1. st \in ScanStates /\ st.next = s /\ st.scanned = s - from
  BY DEF Scanned, Position
<1>2. s \in Nat
  BY SMT
<1>3. /\ from <= s + 1 /\ s + 1 <= from + (k + 1) /\ s + 1 = from + (k + 1)
      /\ from < s + 1 /\ (s - from) + 1 = (s + 1) - from
      /\ from..((s + 1) - 1) = (from..(s - 1)) \cup {s}
      /\ \A x \in from..(s - 1) : x < s
  BY SMT
<1> QED  BY <1>1, <1>2, <1>3 DEF Stands

(* A sound message that is not shown is passed.                            *)
LEMMA ScanPasses ==
  ASSUME NEW d, NEW r, NEW from \in Nat, NEW k \in Nat, NEW st,
         Scanned(d, r, from, k, st), st.status = "scanning", NEW s, s = from + k,
         Clean(d, r, s), ~Shown(d, r, s)
  PROVE  Scanned(d, r, from, k + 1, Pass(st, s))
<1>1. /\ s \in Nat /\ st \in ScanStates /\ st.next = s
      /\ from <= s + 1 /\ s + 1 <= from + (k + 1) /\ s + 1 = from + (k + 1)
      /\ st.scanned + 1 = (s + 1) - from
      /\ from..((s + 1) - 1) = (from..(st.next - 1)) \cup {s}
  <2>1. Stands(from, k, st, s)
    BY Standing
  <2> QED  BY <2>1 DEF Stands
<1> DEFINE t == Pass(st, s)
<1>2. /\ t \in ScanStates /\ t.next = s + 1 /\ t.scanned = st.scanned + 1
      /\ t.page = st.page /\ t.bytes = st.bytes /\ t.status = "scanning"
  BY <1>1, PassIs
<1> HIDE DEF t
<1>3. Position(from, k + 1, t)
  BY <1>1, <1>2 DEF Position
<1>4. Budget(d, t)
  BY <1>2 DEF Scanned, Budget
<1>5. PageExact(d, r, from, t)
  <2>1. \A x \in from..(t.next - 1) : Clean(d, r, x)
    BY <1>1, <1>2 DEF Scanned, PageExact
  <2>2. {x \in from..(t.next - 1) : Shown(d, r, x)}
          = {x \in from..(st.next - 1) : Shown(d, r, x)}
    BY <1>1, <1>2
  <2> QED  BY <1>2, <2>1, <2>2 DEF Scanned, PageExact
<1> QED  BY <1>2, <1>3, <1>4, <1>5 DEF Scanned, t

(* A message fits a page of its own, or the budget that is left.           *)
LEMMA FitsBudget ==
  ASSUME NEW d, NEW st \in ScanStates, NEW s \in Nat, Budget(d, st),
         Fits(d, st, s)
  PROVE  Budget(d, Added(d, st, s))
<1> DEFINE t == Added(d, st, s)
           m == ByteSize(d.log[s])
<1>1. t.page = Append(st.page, s) /\ t.bytes = st.bytes + m
  BY AddedIs
<1>2. st.page \in Seq(Nat) /\ st.bytes \in Nat
  BY DEF ScanStates
<1>3. m \in Nat \ {0} /\ SoftLimit \in Nat \ {0}
  <2>1. m \in Nat \ {0}
    BY SizeIs
  <2> QED  BY <2>1, QueryAssumption
<1>4. t.bytes = PageBytes(d, t.page)
  BY <1>1, <1>2, BytesAppend DEF Budget
<1>5. Len(t.page) = Len(st.page) + 1 /\ (st.page = <<>> => Len(st.page) = 0)
  BY <1>1, <1>2, SMT
<1> HIDE DEF t
<1>6. Len(t.page) <= 1 \/ t.bytes <= SoftLimit
  <2>1. CASE st.page = <<>>
    <3>1. Len(t.page) = 0 + 1
      BY <1>5, <2>1
    <3> QED  BY <3>1, SMT
  <2>2. CASE ~(m > Room(st))
    <3> HIDE DEF m
    <3>1. st.bytes + m <= SoftLimit
      BY <1>2, <1>3, <2>2, SMT DEF Room
    <3> QED  BY <1>1, <3>1 DEF m
  <2> QED  BY <2>1, <2>2 DEF Fits
<1> QED  BY <1>4, <1>6 DEF Budget, t

(* A sound message that is shown is added.                                 *)
LEMMA ScanAdds ==
  ASSUME NEW d, NEW r, NEW from \in Nat, NEW k \in Nat, NEW st,
         Scanned(d, r, from, k, st), st.status = "scanning", NEW s, s = from + k,
         Clean(d, r, s), Shown(d, r, s), Fits(d, st, s)
  PROVE  Scanned(d, r, from, k + 1, Added(d, st, s))
           /\ from < Added(d, st, s).next
<1>1. /\ s \in Nat /\ st \in ScanStates /\ st.next = s
      /\ from <= s + 1 /\ s + 1 <= from + (k + 1) /\ s + 1 = from + (k + 1)
      /\ st.scanned + 1 = (s + 1) - from /\ from < s + 1
      /\ from..((s + 1) - 1) = (from..(st.next - 1)) \cup {s}
      /\ \A x \in from..(st.next - 1) : x < s
  <2>1. Stands(from, k, st, s)
    BY Standing
  <2> QED  BY <2>1 DEF Stands
<1> DEFINE t == Added(d, st, s)
<1>2. /\ t \in ScanStates /\ t.next = s + 1 /\ t.scanned = st.scanned + 1
      /\ t.page = Append(st.page, s) /\ t.status = "scanning"
  <2>1. s \in Nat /\ st \in ScanStates
    BY <1>1
  <2>2. t.status = st.status /\ t.page = Append(st.page, s)
    BY <2>1, AddedIs, ZenonT(30)
  <2>3. t \in ScanStates /\ t.next = s + 1 /\ t.scanned = st.scanned + 1
    BY <2>1, AddedIs, ZenonT(30)
  <2> QED  BY <2>2, <2>3
<1>3. Budget(d, t)
  BY <1>1, FitsBudget DEF Scanned
<1> HIDE DEF t
<1>4. Position(from, k + 1, t)
  BY <1>1, <1>2 DEF Position
<1>5. PageExact(d, r, from, t)
  <2>1. \A x \in from..(t.next - 1) : Clean(d, r, x)
    BY <1>1, <1>2 DEF Scanned, PageExact
  <2>2. /\ SeqsIn(st.page) = {x \in from..(st.next - 1) : Shown(d, r, x)}
        /\ Increasing(st.page) /\ st.page \in Seq(Nat)
    BY <1>1 DEF Scanned, PageExact, ScanStates
  <2>3. \A x \in SeqsIn(st.page) : x < s
    BY <1>1, <2>2
  <2>4. Increasing(t.page) /\ SeqsIn(t.page) = SeqsIn(st.page) \cup {s}
    <3>1. s \in Nat /\ t.page = Append(st.page, s)
      BY <1>1, <1>2
    <3>2. SeqsIn(Append(st.page, s)) = SeqsIn(st.page) \cup {s}
      BY <2>2, <3>1, AppendPage
    <3>3. Increasing(Append(st.page, s))
      BY <2>2, <2>3, <3>1, AppendPage
    <3> QED  BY <3>1, <3>2, <3>3
  <2>5. SeqsIn(t.page) = {x \in from..(t.next - 1) : Shown(d, r, x)}
    BY <1>1, <1>2, <2>2, <2>4
  <2> QED  BY <2>1, <2>4, <2>5 DEF PageExact
<1> QED  BY <1>1, <1>2, <1>3, <1>4, <1>5 DEF Scanned, t

(* Good data is not damaged anywhere.                                      *)
LEMMA GoodSound ==
  ASSUME NEW d, GoodDb(d), NEW s \in 0..GetMaxSeq(d)
  PROVE  ~Damaged(d, s)
<1>1. /\ s \in DOMAIN d.log /\ ValidStoredMessage(s, d.log[s])
      /\ s > 0 => d.log[s].channel \in DOMAIN d.chan
      /\ \A c \in DOMAIN d.chan : ValidStoredChannel(d.chan[c])
  BY DEF GoodDb, LogDense, RecordsValid
<1> DEFINE c == d.log[s].channel
<1>2. c = 0 \/ c \in DOMAIN d.chan
  <2>1. CASE s = 0
    <3>1. d.log[s] = InitializationMessage
      BY <1>1, <2>1 DEF ValidStoredMessage
    <3>2. InitializationMessage.channel = 0
      BY DEF InitializationMessage
    <3> QED  BY <3>1, <3>2
  <2>2. CASE s # 0
    <3>1. GetMaxSeq(d) \in Nat
      BY DEF GoodDb, DbTypeOK, GetMaxSeq, MetaKeys
    <3>2. s > 0
      BY <2>2, <3>1, SMT
    <3> QED  BY <1>1, <3>2
  <2> QED  BY <2>1, <2>2
<1>3. ChannelStatus(d, c) = "OK"
  BY <1>1, <1>2 DEF ChannelStatus, Check, ??
<1> QED  BY <1>1, <1>3 DEF Damaged

(* Every record keeps the invariant of the scan.                           *)
LEMMA ScanSteps ==
  ASSUME NEW d, NEW r, NEW last, NEW from \in Nat, NEW k \in Nat, NEW st,
         Scanned(d, r, from, k, st), NEW s, s = from + k,
         GoodDb(d) => ~Damaged(d, s)
  PROVE  Scanned(d, r, from, k + 1, ScanRecord(d, r, last, st, s))
<1>1. CASE st.status # "scanning"
  <2>1. ScanRecord(d, r, last, st, s) = st
    BY <1>1 DEF ScanRecord
  <2> QED  BY <1>1, <2>1, ScanStays
<1>2. CASE st.status = "scanning"
  <2> DEFINE t == ScanRecord(d, r, last, st, s)
             a == Added(d, st, s)
  <2>1. ASSUME NEW x \in {"OK", "DATA_LOSS"}, NEW u, NEW j \in Nat,
               Scanned(d, r, from, j, u),
               x = "OK" => from < u.next, GoodDb(d) => x # "DATA_LOSS"
        PROVE  Scanned(d, r, from, j, Stop(u, x)) /\ Stop(u, x).status # "scanning"
    <3>1. Scanned(d, r, from, j, Stop(u, x))
      BY <2>1, ScanStops
    <3>2. u \in ScanStates /\ x \in Statuses
      BY <2>1 DEF Scanned, Position, Statuses
    <3>3. Stop(u, x).status = x
      BY <3>2, StopIs
    <3> QED  BY <3>1, <3>3
  <2>2. st \in ScanStates /\ st.page \in Seq(Nat) /\ st.next \in Nat /\ st.scanned \in Nat
          /\ st.scanned = st.next - from
    BY DEF Scanned, Position, ScanStates
  <2>3. CASE t = Stop(st, "DATA_LOSS") /\ Damaged(d, s)
    <3>1. Scanned(d, r, from, k, t) /\ t.status # "scanning"
      BY <2>1, <2>3
    <3> HIDE DEF t
    <3>2. Scanned(d, r, from, k + 1, t)
      BY <3>1, ScanStays
    <3> QED  BY <3>2 DEF t
  <2>4. CASE /\ t = Stop(st, "OK")
             /\ st.page # <<>> \/ st.scanned >= MaxScan \/ ~(st.scanned < MaxScan)
    <3>1. from < st.next
      <4>1. CASE st.page # <<>>
        <5>1. st.page[1] \in SeqsIn(st.page)
          BY <2>2, <4>1, AppendPage
        <5>2. st.page[1] \in from..(st.next - 1)
          BY <5>1 DEF Scanned, PageExact
        <5> HIDE DEF t
        <5> QED  BY <2>2, <5>2, SMT
      <4>2. CASE st.scanned >= MaxScan \/ ~(st.scanned < MaxScan)
        <5>1. MaxScan \in Nat \ {0}
          BY QueryAssumption
        <5> HIDE DEF t
        <5> QED  BY <2>2, <4>2, <5>1, SMT
      <4> QED  BY <2>4, <4>1, <4>2
    <3>2. Scanned(d, r, from, k, t) /\ t.status # "scanning"
      BY <2>1, <2>4, <3>1
    <3> HIDE DEF t
    <3>3. Scanned(d, r, from, k + 1, t)
      BY <3>2, ScanStays
    <3> QED  BY <3>3 DEF t
  <2>5. CASE t = Pass(st, s) /\ Clean(d, r, s) /\ ~Shown(d, r, s)
    BY <1>2, <2>5, ScanPasses
  <2>6. CASE /\ t = a \/ t = Stop(a, "OK")
             /\ Clean(d, r, s) /\ Shown(d, r, s) /\ Fits(d, st, s)
    <3>1. Scanned(d, r, from, k + 1, a) /\ from < a.next
      BY <1>2, <2>6, ScanAdds
    <3>2. k + 1 \in Nat
      BY SMT
    <3>3. Scanned(d, r, from, k + 1, Stop(a, "OK"))
      BY <2>1, <3>1, <3>2
    <3> QED  BY <2>6, <3>1, <3>3
  <2>7. Outcome(d, r, st, s, t)
    BY <1>2, RecordCases
  <2> QED  BY <2>3, <2>4, <2>5, <2>6, <2>7 DEF Outcome
<1> QED  BY <1>1, <1>2

(* A scan up to max_seq ends in a state that fulfils its invariant.        *)
LEMMA ScanEnds ==
  ASSUME NEW d, DbTypeOK(d), NEW r, NEW from \in Nat, NEW last,
         last = GetMaxSeq(d), from <= last
  PROVE  Scanned(d, r, from, last - from + 1, ScanMessages(d, r, from, last))
<1> DEFINE n == last - from + 1
<1>1. last \in Nat
  BY DEF DbTypeOK, GetMaxSeq, MetaKeys
<1>a. PICK run : Runs(run, d, r, from, last)
  BY <1>1, ScanRun
<1>2. /\ run[0] = ScanStart(from)
      /\ \A i \in 1..n : run[i] = ScanRecord(d, r, last, run[i - 1], from + i - 1)
      /\ ScanMessages(d, r, from, last) = run[n]
  BY <1>a DEF Runs
<1>3. /\ n \in Nat /\ 0 \in 0..n /\ n \in 0..n
      /\ \A k \in 0..(n - 1) :
           /\ k \in Nat /\ k + 1 \in 1..n /\ k + 1 \in 0..n /\ (k + 1) - 1 = k
           /\ from + (k + 1) - 1 = from + k /\ from + k \in 0..last
  BY <1>1, SMT
<1> HIDE DEF n
<1> DEFINE D == {k \in 0..n : Scanned(d, r, from, k, run[k])}
<1>4. 0 \in D
  <2>1. Scanned(d, r, from, 0, ScanStart(from))
    BY ScanStarts
  <2> QED  BY <1>2, <1>3, <2>1
<1>5. ASSUME NEW k \in 0..(n - 1), k \in D
      PROVE  k + 1 \in D
  <2>1. run[k + 1] = ScanRecord(d, r, last, run[k], from + k)
    BY <1>2, <1>3
  <2>2. PICK s : s = from + k
    OBVIOUS
  <2>3. GoodDb(d) => ~Damaged(d, s)
    BY <1>3, <2>2, GoodSound
  <2>4. k \in Nat /\ Scanned(d, r, from, k, run[k])
    BY <1>3, <1>5
  <2>5. Scanned(d, r, from, k + 1, ScanRecord(d, r, last, run[k], s))
    BY <2>2, <2>3, <2>4, ScanSteps
  <2> QED  BY <1>3, <2>1, <2>2, <2>5
<1>6. 0..n \subseteq D
  <2> HIDE DEF D
  <2> QED  BY <1>3, <1>4, <1>5, UpTo
<1> QED  BY <1>2, <1>3, <1>6 DEF n

(***************************************************************************)
(* The answers.  An answer from behind the log has no messages; any other  *)
(* moves on and holds exactly what it has passed and shows.                *)
(***************************************************************************)
AtEnd(d, from, a) ==
  from > GetMaxSeq(d) /\ a.page = <<>> /\ a.next = GetMaxSeq(d) + 1

InBudget(d, page) == Len(page) <= 1 \/ PageBytes(d, page) <= SoftLimit

Paged(d, r, from, a) ==
  /\ from < a.next /\ a.next <= GetMaxSeq(d) + 1
  /\ a.next \in Nat /\ a.page \in Seq(Nat)
  /\ \A s \in from..(a.next - 1) : Clean(d, r, s)
  /\ Increasing(a.page)
  /\ SeqsIn(a.page) = {s \in from..(a.next - 1) : Shown(d, r, s)}
  /\ InBudget(d, a.page)

GoodAnswer(d, r, from, a) ==
  /\ GoodDb(d) => a.status # "DATA_LOSS"
  /\ a.status = "OK" => AtEnd(d, from, a) \/ Paged(d, r, from, a)

(* max_seq is a number.                                                    *)
LEMMA MaxIs ==
  ASSUME NEW d, DbTypeOK(d)
  PROVE  GetMaxSeq(d) \in Nat
BY DEF DbTypeOK, GetMaxSeq, MetaKeys

(* FetchVisible and ListAllMessages answer well.                           *)
LEMMA ScanFromIs ==
  ASSUME NEW d, DbTypeOK(d), NEW r, NEW from \in Nat
  PROVE  GoodAnswer(d, r, from, ScanFrom(d, r, from))
<1>1. PICK last \in Nat : last = GetMaxSeq(d)
  BY MaxIs
<1>2. CASE from > last
  <2>1. PICK a : a = Answer("OK", <<>>, last + 1)
    OBVIOUS
  <2>2. ScanFrom(d, r, from) = a
    BY <1>1, <1>2, <2>1 DEF ScanFrom
  <2>3. a.status = "OK" /\ a.page = <<>> /\ a.next = last + 1
    BY <2>1 DEF Answer
  <2>4. AtEnd(d, from, a)
    BY <1>1, <1>2, <2>3 DEF AtEnd
  <2> QED  BY <2>2, <2>3, <2>4 DEF GoodAnswer
<1>3. CASE ~(from > last)
  <2>1. from <= last
    BY <1>3, SMT
  <2>2. PICK st : st = ScanMessages(d, r, from, last)
    OBVIOUS
  <2>3. Scanned(d, r, from, last - from + 1, st)
    BY <1>1, <2>1, <2>2, ScanEnds
  <2>4. PICK a : a = Answer(st.status, st.page, st.next)
    OBVIOUS
  <2>5. ScanFrom(d, r, from) = a
    BY <1>1, <1>3, <2>2, <2>4 DEF ScanFrom
  <2>6. /\ a.status = IF st.status = "scanning" THEN "OK" ELSE st.status
        /\ a.page = st.page /\ a.next = st.next
    BY <2>4 DEF Answer
  <2>7. GoodDb(d) => a.status # "DATA_LOSS"
    BY <2>3, <2>6 DEF Scanned
  <2>8. ASSUME a.status = "OK"
        PROVE  Paged(d, r, from, a)
    <3>1. st.status = "OK" \/ st.status = "scanning"
      BY <2>6, <2>8
    <3>2. /\ st.next \in Nat /\ st.page \in Seq(Nat)
          /\ st.next <= from + (last - from + 1)
          /\ st.status = "scanning" => st.next = from + (last - from + 1)
          /\ st.status = "OK" => from < st.next
      BY <2>3 DEF Scanned, Position, ScanStates
    <3>3. from + (last - from + 1) = last + 1 /\ from < last + 1
      BY <2>1, SMT
    <3>4. from < a.next /\ a.next <= GetMaxSeq(d) + 1
      BY <1>1, <2>6, <3>1, <3>2, <3>3
    <3>5. /\ \A s \in from..(a.next - 1) : Clean(d, r, s)
          /\ Increasing(a.page)
          /\ SeqsIn(a.page) = {s \in from..(a.next - 1) : Shown(d, r, s)}
      BY <2>3, <2>6 DEF Scanned, PageExact
    <3>6. InBudget(d, a.page)
      BY <2>3, <2>6 DEF Scanned, Budget, InBudget
    <3> QED  BY <2>6, <3>2, <3>4, <3>5, <3>6 DEF Paged
  <2> QED  BY <2>5, <2>7, <2>8 DEF GoodAnswer
<1> QED  BY <1>2, <1>3

(* The statuses of a channel, and those of a channel in good data.         *)
LEMMA ChannelStatusIs ==
  ASSUME NEW d, NEW p, NEW c
  PROVE  /\ GetChannelStatus(d, p, c)
              \in {"OK", "NOT_FOUND", "PERMISSION_DENIED", "DATA_LOSS"}
         /\ GoodDb(d) => GetChannelStatus(d, p, c) # "DATA_LOSS"
<1>1. GetChannelStatus(d, p, c)
        \in {"OK", "NOT_FOUND", "PERMISSION_DENIED", "DATA_LOSS"}
  BY DEF GetChannelStatus, ChannelStatus, Check, ??
<1>2. ASSUME GoodDb(d)
      PROVE  GetChannelStatus(d, p, c) # "DATA_LOSS"
  <2>1. \A x \in DOMAIN d.chan : ValidStoredChannel(d.chan[x])
    BY <1>2 DEF GoodDb, RecordsValid
  <2>2. ChannelStatus(d, c) # "DATA_LOSS"
    BY <2>1 DEF ChannelStatus, Check, ??
  <2> QED  BY <2>2 DEF GetChannelStatus, Check, ??
<1> QED  BY <1>1, <1>2

(* Every query answers well.                                               *)
LEMMA QueryIs ==
  ASSUME NEW d, DbTypeOK(d), NEW r, NEW from \in Nat
  PROVE  GoodAnswer(d, r, from, Query(d, r, from))
<1>1. CASE r.op # "Fetch"
  BY <1>1, ScanFromIs DEF Query, ListAllMessages
<1>2. CASE r.op = "Fetch"
  <2> DEFINE v == ValidateReadableChannels(d, r.cred[1], r.channels)
             status == Authenticate(d, r.cred) ?? v
             a == Answer(status, <<>>, from)
  <2>1. Query(d, r, from) = IF status = "OK" THEN ScanFrom(d, r, from) ELSE a
    BY <1>2 DEF Query, Fetch, FetchVisible
  <2>2. v = "OK" \/ \E p, c : v = GetChannelStatus(d, p, c)
    BY DEF ValidateReadableChannels
  <2>3. /\ v \in {"OK", "NOT_FOUND", "PERMISSION_DENIED", "DATA_LOSS"}
        /\ GoodDb(d) => v # "DATA_LOSS"
    <3> HIDE DEF v
    <3> QED  BY <2>2, ChannelStatusIs
  <2> HIDE DEF v
  <2>4. /\ status # "scanning" /\ (GoodDb(d) => status # "DATA_LOSS")
    BY <2>3 DEF Authenticate, Check, ??
  <2> HIDE DEF status
  <2>5. a.status = status
    BY <2>4 DEF Answer
  <2>6. CASE status = "OK"
    BY <2>1, <2>6, ScanFromIs
  <2>7. CASE status # "OK"
    <3>1. GoodAnswer(d, r, from, a)
      BY <2>4, <2>5, <2>7 DEF GoodAnswer
    <3> QED  BY <2>1, <2>7, <3>1
  <2> QED  BY <2>6, <2>7
<1> QED  BY <1>1, <1>2

(***************************************************************************)
(* The inductive invariant.  Data is good until it is damaged, and typed   *)
(* even then; what a client has lies in the log it has passed.             *)
(***************************************************************************)
Families == {"meta", "log", "uuid", "chan", "tokens"}

Readers ==
  [active: BOOLEAN, request: SUBSET Requests, from: Nat, cursor: Nat,
   page: Seq(Nat), got: Seq(Nat)]

DbInv ==
  /\ DOMAIN db = Families /\ DbTypeOK(db)
  /\ damaged \in BOOLEAN /\ fatal \in BOOLEAN
  /\ ~damaged => GoodDb(db)
  /\ fatal => damaged

ReaderInv ==
  /\ reader \in Readers /\ reader.from <= reader.cursor
  /\ \A q, r \in reader.request : q = r
  /\ \A x \in SeqsIn(reader.got) :
       x \in reader.from..(reader.cursor - 1) /\ x <= GetMaxSeq(db)
  /\ \A x \in SeqsIn(reader.page) : x <= GetMaxSeq(db)
  /\ ~damaged => InBudget(db, reader.page)

IInv == DbInv /\ ReaderInv

(* The client without a query.                                             *)
LEMMA IdleIs ==
  /\ Idle \in Readers /\ Idle.from = 0 /\ Idle.cursor = 0 /\ Idle.page = <<>>
  /\ Idle.got = <<>> /\ Idle.active = FALSE /\ Idle.request = {}
<1>1. <<>> \in Seq(Nat) /\ 0 \in Nat
  BY SMT
<1> QED  BY <1>1 DEF Idle, Readers

(* The empty page.                                                         *)
LEMMA NothingIs ==
  /\ SeqsIn(<<>>) = {} /\ Len(<<>>) <= 1 /\ Increasing(<<>>)
  /\ <<>> \in Seq(Nat)
<1>1. DOMAIN <<>> = 1..0 /\ 1..0 = {} /\ Len(<<>>) <= 1 /\ <<>> \in Seq(Nat)
  BY SMT
<1> QED  BY <1>1 DEF SeqsIn, Increasing

(* A client that has nothing fulfils its part.                             *)
LEMMA NewReader ==
  ASSUME NEW x, x \in Readers, x.from = x.cursor, x.page = <<>>, x.got = <<>>,
         \A q, r \in x.request : q = r, reader' = x
  PROVE  ReaderInv'
<1>1. x.from \in Nat /\ x.cursor \in Nat
  BY DEF Readers
<1>2. x.from <= x.cursor
  BY <1>1, SMT
<1> QED  BY <1>2, NothingIs DEF ReaderInv, InBudget

(* The initial state.                                                      *)
LEMMA InitInv == Init => IInv
<1> SUFFICES ASSUME Init  PROVE IInv
  OBVIOUS
<1>1. DbInv
  <2>1. DOMAIN StartDb = Families /\ GoodDb(StartDb)
    BY StartAssumption DEF Families
  <2>2. DbTypeOK(StartDb)
    BY <2>1 DEF GoodDb
  <2> QED  BY <2>1, <2>2 DEF Init, DbInv
<1>2. ReaderInv
  <2>1. 0 <= 0
    BY SMT
  <2> QED  BY <2>1, IdleIs, NothingIs DEF Init, ReaderInv, InBudget
<1> QED  BY <1>1, <1>2 DEF IInv

(* A step of the data that keeps the log keeps what a client has.          *)
LEMMA ReaderStays ==
  ASSUME IInv, DbTypeOK(db'), UNCHANGED reader, GetMaxSeq(db) <= GetMaxSeq(db'),
         ~damaged' =>
           ~damaged /\ \A s \in 0..GetMaxSeq(db) : db'.log[s] = db.log[s]
  PROVE  ReaderInv'
<1>1. GetMaxSeq(db) \in Nat /\ GetMaxSeq(db') \in Nat
  BY MaxIs DEF IInv, DbInv
<1>2. \A x \in Nat : x <= GetMaxSeq(db) => x <= GetMaxSeq(db')
  BY <1>1, SMT
<1>3. /\ reader \in Readers /\ reader.got \in Seq(Nat) /\ reader.page \in Seq(Nat)
  BY DEF IInv, ReaderInv, Readers
<1>4. /\ SeqsIn(reader.got) \subseteq Nat /\ SeqsIn(reader.page) \subseteq Nat
      /\ DOMAIN reader.page = 1..Len(reader.page)
  <2>1. /\ DOMAIN reader.page = 1..Len(reader.page)
        /\ \A i \in DOMAIN reader.page : reader.page[i] \in Nat
        /\ \A i \in DOMAIN reader.got : reader.got[i] \in Nat
    BY <1>3, SMT
  <2> QED  BY <2>1 DEF SeqsIn
<1>5. ASSUME ~damaged'
      PROVE  InBudget(db', reader.page)
  <2>1. ASSUME NEW i \in 1..Len(reader.page)
        PROVE  db'.log[reader.page[i]] = db.log[reader.page[i]]
    <3>1. reader.page[i] \in SeqsIn(reader.page)
      BY <1>4 DEF SeqsIn
    <3>2. reader.page[i] <= GetMaxSeq(db) /\ reader.page[i] \in Nat
      BY <1>4, <3>1 DEF IInv, ReaderInv
    <3>3. reader.page[i] \in 0..GetMaxSeq(db)
      BY <1>1, <3>2, SMT
    <3> QED  BY <1>5, <3>3
  <2>2. PageBytes(db', reader.page) = PageBytes(db, reader.page)
    BY <1>3, <2>1, BytesSame
  <2>3. InBudget(db, reader.page)
    BY <1>5 DEF IInv, ReaderInv
  <2> QED  BY <2>2, <2>3 DEF InBudget
<1> QED  BY <1>2, <1>4, <1>5 DEF IInv, ReaderInv

(* A batch of the core keeps the log that is there and the data good.      *)
LEMMA GoodBatch ==
  ASSUME NEW b, IInv, ~damaged, GoodStep(b, db), db' = Apply(b, db),
         UNCHANGED <<damaged, fatal, reader>>
  PROVE  IInv'
<1>1. GoodDb(db) /\ GoodDb(db') /\ Extends(db, db')
  BY DEF IInv, DbInv, GoodStep
<1>2. DbTypeOK(db') /\ DbTypeOK(db)
  BY <1>1 DEF GoodDb
<1>3. DOMAIN db' = Families
  BY DEF Apply, Families
<1>4. DbInv'
  BY <1>1, <1>2, <1>3 DEF IInv, DbInv
<1>5. /\ DOMAIN db.log = 0..GetMaxSeq(db) /\ DOMAIN db'.log = 0..GetMaxSeq(db')
      /\ GetMaxSeq(db) \in Nat /\ GetMaxSeq(db') \in Nat
  BY <1>1, <1>2, MaxIs DEF GoodDb, LogDense
<1>6. /\ \A s \in 0..GetMaxSeq(db) : db'.log[s] = db.log[s]
      /\ \A s \in 0..GetMaxSeq(db) : s \in 0..GetMaxSeq(db')
  BY <1>1, <1>5 DEF Extends
<1>7. GetMaxSeq(db) <= GetMaxSeq(db')
  <2>1. GetMaxSeq(db) \in 0..GetMaxSeq(db)
    BY <1>5, SMT
  <2>2. GetMaxSeq(db) \in 0..GetMaxSeq(db')
    BY <1>6, <2>1
  <2> QED  BY <1>5, <2>2, SMT
<1>8. ReaderInv'
  BY <1>2, <1>6, <1>7, ReaderStays
<1> QED  BY <1>4, <1>8 DEF IInv

(* Publishing.                                                             *)
LEMMA PublishInv ==
  ASSUME IInv, Publish
  PROVE  IInv'
<1>1. GoodDb(db) /\ DbTypeOK(db) /\ ~damaged
  BY DEF IInv, DbInv, Publish, CanGrow
<1>2. PICK c \in DOMAIN db.chan, R \in SUBSET Principals :
        LET q == db.chan[c].creator
            u == CHOOSE v \in AvailableUuids : TRUE
        IN  /\ ValidatePublishTarget(db, q, c, R) = "OK"
            /\ db' = Apply(BuildPublishBatch(q, c, GetMaxSeq(db) + 1, u, R), db)
  BY DEF Publish
<1>3. PICK q : q = db.chan[c].creator
  OBVIOUS
<1>4. PICK u : u = CHOOSE v \in AvailableUuids : TRUE
  OBVIOUS
<1>5. PICK s : s = GetMaxSeq(db) + 1
  OBVIOUS
<1>6. u \in AvailableUuids
  BY <1>4 DEF Publish
<1>7. ValidateAvailableUuid(db, u) = "OK" /\ u \in 1..(GetNextUuid(db) - 1)
  BY <1>6 DEF AvailableUuids
<1>8. u \in Nat
  <2>1. GetNextUuid(db) \in Nat
    BY <1>1 DEF DbTypeOK, GetNextUuid, MetaKeys
  <2> QED  BY <1>7, <2>1, SMT
<1>9. q \in Principals
  <2>1. db.chan[c] \in Channels
    BY <1>1 DEF DbTypeOK
  <2> QED  BY <1>3, <2>1 DEF Channels
<1>10. ValidatePublishTarget(db, q, c, R) = "OK"
  BY <1>2, <1>3
<1>11. GoodStep(BuildPublishBatch(q, c, s, u, R), db)
  BY <1>1, <1>5, <1>7, <1>8, <1>9, <1>10, PublishGood
<1>12. db' = Apply(BuildPublishBatch(q, c, s, u, R), db)
  BY <1>2, <1>3, <1>4, <1>5
<1>13. UNCHANGED <<damaged, fatal, reader>>
  BY DEF Publish
<1> QED  BY <1>1, <1>11, <1>12, <1>13, GoodBatch

(* Changes of members.                                                     *)
LEMMA ChangeMembersInv ==
  ASSUME IInv, ChangeMembers
  PROVE  IInv'
<1>1. GoodDb(db) /\ ~damaged
  BY DEF IInv, DbInv, ChangeMembers, CanGrow
<1>2. UNCHANGED <<damaged, fatal, reader>>
  BY DEF ChangeMembers
<1>3. PICK c \in DOMAIN db.chan, q \in Principals :
        \/ /\ ValidateAddMember(db, db.chan[c].creator, c, q) = "OK"
           /\ db' = Apply(AddMemberBatch(db, c, q), db)
        \/ /\ ValidateRemoveMember(db, db.chan[c].creator, c, q) = "OK"
           /\ db' = Apply(RemoveMemberBatch(db, c, q), db)
  BY DEF ChangeMembers
<1>4. PICK p : p = db.chan[c].creator
  OBVIOUS
<1>5. CASE /\ ValidateAddMember(db, p, c, q) = "OK"
           /\ db' = Apply(AddMemberBatch(db, c, q), db)
  <2>1. GoodStep(AddMemberBatch(db, c, q), db)
    BY <1>1, <1>5, AddMemberGood
  <2> QED  BY <1>1, <1>2, <1>5, <2>1, GoodBatch
<1>6. CASE /\ ValidateRemoveMember(db, p, c, q) = "OK"
           /\ db' = Apply(RemoveMemberBatch(db, c, q), db)
  <2>1. GoodStep(RemoveMemberBatch(db, c, q), db)
    BY <1>1, <1>6, RemoveMemberGood
  <2> QED  BY <1>1, <1>2, <1>6, <2>1, GoodBatch
<1> QED  BY <1>3, <1>4, <1>5, <1>6

(* Deleting a token, of good data or damaged.                              *)
LEMMA DeleteTokenInv ==
  ASSUME IInv, DeleteToken
  PROVE  IInv'
<1>1. PICK cred \in db.tokens : db' = Apply(DeleteTokenBatch(cred), db)
  BY DEF DeleteToken
<1>2. UNCHANGED <<damaged, fatal, reader>>
  BY DEF DeleteToken
<1>3. DbTypeOK(db)
  BY DEF IInv, DbInv
<1>4. CASE ~damaged
  <2>1. GoodDb(db) /\ cred \in Credentials
    BY <1>3, <1>4 DEF IInv, DbInv, DbTypeOK
  <2>2. GoodStep(DeleteTokenBatch(cred), db)
    BY <2>1, DeleteTokenGood
  <2> QED  BY <1>1, <1>2, <1>4, <2>2, GoodBatch
<1>5. CASE damaged
  <2> DEFINE b == DeleteTokenBatch(cred)
  <2>1. /\ b.meta = NoPairs /\ b.log = NoPairs /\ b.uuid = NoPairs
        /\ b.chan = NoPairs /\ b.addTokens = {}
    BY DEF DeleteTokenBatch, EmptyBatch
  <2> HIDE DEF b
  <2>2. /\ db'.meta = Put(db.meta, NoPairs) /\ db'.log = Put(db.log, NoPairs)
        /\ db'.uuid = Put(db.uuid, NoPairs) /\ db'.chan = Put(db.chan, NoPairs)
        /\ db'.tokens \subseteq db.tokens /\ DOMAIN db' = Families
    <3>1. db' = Apply(b, db)
      BY <1>1 DEF b
    <3> QED  BY <2>1, <3>1 DEF Apply, Families
  <2>3. db'.meta = db.meta /\ db'.log = db.log
    BY <1>3, <2>2, PutNothing DEF DbTypeOK
  <2>4. db'.uuid = db.uuid /\ db'.chan = db.chan
    BY <1>3, <2>2, PutNothing DEF DbTypeOK
  <2>5. DbTypeOK(db')
    BY <1>3, <2>2, <2>3, <2>4 DEF DbTypeOK
  <2>6. GetMaxSeq(db') = GetMaxSeq(db) /\ GetMaxSeq(db) <= GetMaxSeq(db)
    <3>1. GetMaxSeq(db) <= GetMaxSeq(db)
      BY <1>3, MaxIs, SMT
    <3> QED  BY <2>3, <3>1 DEF GetMaxSeq
  <2>7. ReaderInv'
    BY <1>2, <1>5, <2>5, <2>6, ReaderStays
  <2>8. DbInv'
    BY <1>2, <1>5, <2>2, <2>5 DEF IInv, DbInv
  <2> QED  BY <2>7, <2>8 DEF IInv
<1> QED  BY <1>4, <1>5 DEF IInv, DbInv

(* Data with another log or other channels is typed if they are.           *)
LEMMA DamagedData ==
  ASSUME NEW d, DOMAIN d = Families, DbTypeOK(d), NEW e, NEW f,
         DOMAIN f \subseteq Nat,
         \/ e = [d EXCEPT !.log = f] /\ f \in [DOMAIN f -> Messages]
         \/ e = [d EXCEPT !.chan = f] /\ f \in [DOMAIN f -> Channels]
  PROVE  DOMAIN e = Families /\ DbTypeOK(e) /\ GetMaxSeq(e) = GetMaxSeq(d)
<1>1. CASE e = [d EXCEPT !.log = f] /\ f \in [DOMAIN f -> Messages]
  <2>1. /\ DOMAIN e = Families /\ e.log = f /\ e.meta = d.meta /\ e.uuid = d.uuid
        /\ e.chan = d.chan /\ e.tokens = d.tokens
    BY <1>1 DEF Families
  <2> QED  BY <1>1, <2>1 DEF DbTypeOK, GetMaxSeq
<1>2. CASE e = [d EXCEPT !.chan = f] /\ f \in [DOMAIN f -> Channels]
  <2>1. /\ DOMAIN e = Families /\ e.chan = f /\ e.meta = d.meta /\ e.uuid = d.uuid
        /\ e.log = d.log /\ e.tokens = d.tokens
    BY <1>2 DEF Families
  <2> QED  BY <1>2, <2>1 DEF DbTypeOK, GetMaxSeq
<1> QED  BY <1>1, <1>2

(* Damage from outside.                                                    *)
LEMMA DamageInv ==
  ASSUME IInv, Damage
  PROVE  IInv'
<1>1. DOMAIN db = Families /\ DbTypeOK(db)
  BY DEF IInv, DbInv
<1>2. /\ db.log \in [DOMAIN db.log -> Messages] /\ DOMAIN db.log \subseteq Nat
      /\ db.chan \in [DOMAIN db.chan -> Channels] /\ DOMAIN db.chan \subseteq Nat
  BY <1>1 DEF DbTypeOK
<1>3. DOMAIN db' = Families /\ DbTypeOK(db') /\ GetMaxSeq(db') = GetMaxSeq(db)
  <2>1. ASSUME NEW s \in DOMAIN db.log, db' = [db EXCEPT !.log = Without(@, s)]
        PROVE  <1>3!:
    <3>1. PICK f : f = Without(db.log, s)
      OBVIOUS
    <3>2. f \in [DOMAIN f -> Messages] /\ DOMAIN f \subseteq Nat
      BY <1>2, <3>1 DEF Without
    <3>3. db' = [db EXCEPT !.log = f]
      BY <2>1, <3>1
    <3> QED  BY <1>1, <3>2, <3>3, DamagedData
  <2>2. ASSUME NEW s \in DOMAIN db.log, db' = [db EXCEPT !.log[s].uuid = 0]
        PROVE  <1>3!:
    <3>1. PICK f : f = [db.log EXCEPT ![s] = [db.log[s] EXCEPT !.uuid = 0]]
      OBVIOUS
    <3>2. [db.log[s] EXCEPT !.uuid = 0] \in Messages
      <4>1. 0 \in Nat /\ db.log[s] \in Messages
        BY <1>2, SMT
      <4> QED  BY <4>1 DEF Messages
    <3>3. f \in [DOMAIN f -> Messages] /\ DOMAIN f \subseteq Nat
      BY <1>2, <3>1, <3>2
    <3>4. db' = [db EXCEPT !.log = f]
      BY <2>2, <3>1
    <3> QED  BY <1>1, <3>3, <3>4, DamagedData
  <2>3. ASSUME NEW c \in DOMAIN db.chan, db' = [db EXCEPT !.chan = Without(@, c)]
        PROVE  <1>3!:
    <3>1. PICK f : f = Without(db.chan, c)
      OBVIOUS
    <3>2. f \in [DOMAIN f -> Channels] /\ DOMAIN f \subseteq Nat
      BY <1>2, <3>1 DEF Without
    <3>3. db' = [db EXCEPT !.chan = f]
      BY <2>3, <3>1
    <3> QED  BY <1>1, <3>2, <3>3, DamagedData
  <2>4. ASSUME NEW c \in DOMAIN db.chan, db' = [db EXCEPT !.chan[c].members = {}]
        PROVE  <1>3!:
    <3>1. PICK f : f = [db.chan EXCEPT ![c] = [db.chan[c] EXCEPT !.members = {}]]
      OBVIOUS
    <3>2. [db.chan[c] EXCEPT !.members = {}] \in Channels
      <4>1. db.chan[c] \in Channels
        BY <1>2
      <4> QED  BY <4>1 DEF Channels
    <3>3. f \in [DOMAIN f -> Channels] /\ DOMAIN f \subseteq Nat
      BY <1>2, <3>1, <3>2
    <3>4. db' = [db EXCEPT !.chan = f]
      BY <2>4, <3>1
    <3> QED  BY <1>1, <3>3, <3>4, DamagedData
  <2> QED  BY <2>1, <2>2, <2>3, <2>4 DEF Damage
<1>4. damaged' = TRUE /\ UNCHANGED <<fatal, reader>>
  BY DEF Damage
<1>5. GetMaxSeq(db) <= GetMaxSeq(db')
  BY <1>1, <1>3, MaxIs, SMT
<1>6. ReaderInv'
  BY <1>3, <1>4, <1>5, ReaderStays
<1>7. DbInv'
  BY <1>3, <1>4 DEF IInv, DbInv
<1> QED  BY <1>6, <1>7 DEF IInv

(* The client's requests.                                                  *)
LEMMA BeginInv ==
  ASSUME IInv, Begin
  PROVE  IInv'
<1>1. PICK r \in Requests, s \in 0..(MaxSeq + 1) :
        reader' = [Idle EXCEPT !.active = TRUE, !.request = {r}, !.from = s,
                               !.cursor = s]
  BY DEF Begin
<1>2. s \in Nat
  BY QueryAssumption, SMT
<1>3. PICK x : x = [Idle EXCEPT !.active = TRUE, !.request = {r}, !.from = s,
                               !.cursor = s]
  OBVIOUS
<1>4. x \in Readers /\ x.from = s /\ x.cursor = s /\ x.page = <<>> /\ x.got = <<>>
        /\ x.request = {r}
  BY <1>2, <1>3, IdleIs DEF Readers
<1>5. ReaderInv'
  BY <1>1, <1>3, <1>4, NewReader
<1>6. DbInv'
  BY DEF IInv, DbInv, Begin
<1> QED  BY <1>5, <1>6 DEF IInv

(* The client without a request.                                           *)
LEMMA IdleInv ==
  ASSUME reader' = Idle
  PROVE  ReaderInv'
<1>1. Idle \in Readers /\ Idle.from = Idle.cursor /\ Idle.page = <<>>
        /\ Idle.got = <<>> /\ Idle.request = {}
  BY IdleIs
<1> QED  BY <1>1, NewReader

(* The end of a client, and the corruption that a look finds.              *)
LEMMA LookUpInv ==
  ASSUME IInv, LookUp \/ Leave
  PROVE  IInv'
<1>1. CASE Leave
  <2>1. ReaderInv'
    BY <1>1, IdleInv DEF Leave
  <2>2. DbInv'
    BY <1>1 DEF IInv, DbInv, Leave
  <2> QED  BY <2>1, <2>2 DEF IInv
<1>2. CASE LookUp
  <2>1. StoredChannelsStatus(db) = "DATA_LOSS"
    BY <1>2 DEF LookUp
  <2>2. ~\A c \in DOMAIN db.chan : ValidStoredChannel(db.chan[c])
    BY <2>1 DEF StoredChannelsStatus, Check
  <2>3. ~GoodDb(db)
    BY <2>2 DEF GoodDb, RecordsValid
  <2>4. damaged
    BY <2>3 DEF IInv, DbInv
  <2>5. DbInv'
    BY <1>2, <2>4 DEF IInv, DbInv, LookUp
  <2>6. ReaderInv'
    BY <1>2 DEF IInv, ReaderInv, LookUp
  <2> QED  BY <2>5, <2>6 DEF IInv
<1> QED  BY <1>1, <1>2

(* What every good answer gives a client.                                  *)
Progress(d, from, a) ==
  /\ a.next \in Nat /\ a.page \in Seq(Nat)
  /\ a.next = GetMaxSeq(d) + 1 \/ from < a.next
  /\ \A x \in SeqsIn(a.page) : x \in from..(a.next - 1) /\ x <= GetMaxSeq(d)
  /\ InBudget(d, a.page)

(* A good answer has it.                                                   *)
LEMMA AnswerProgress ==
  ASSUME NEW d, DbTypeOK(d), NEW r, NEW from \in Nat, NEW a,
         GoodAnswer(d, r, from, a), a.status = "OK"
  PROVE  Progress(d, from, a)
<1>1. GetMaxSeq(d) \in Nat /\ GetMaxSeq(d) + 1 \in Nat
  BY MaxIs, SMT
<1>2. CASE AtEnd(d, from, a)
  BY <1>1, <1>2, NothingIs DEF AtEnd, Progress, InBudget
<1>3. CASE Paged(d, r, from, a)
  <2>1. ASSUME NEW x \in SeqsIn(a.page)
        PROVE  x \in from..(a.next - 1) /\ x <= GetMaxSeq(d)
    <3>1. x \in from..(a.next - 1) /\ a.next \in Nat /\ a.next <= GetMaxSeq(d) + 1
      BY <1>3, <2>1 DEF Paged
    <3> QED  BY <1>1, <3>1, SMT
  <2> QED  BY <1>3, <2>1 DEF Paged, Progress
<1> QED  BY <1>2, <1>3 DEF GoodAnswer

(* The seqs of two pages.                                                  *)
LEMMA ConcatPages ==
  ASSUME NEW p \in Seq(Nat), NEW q \in Seq(Nat)
  PROVE  p \o q \in Seq(Nat) /\ SeqsIn(p \o q) \subseteq SeqsIn(p) \cup SeqsIn(q)
<1>1. /\ p \o q \in Seq(Nat) /\ DOMAIN p = 1..Len(p) /\ DOMAIN q = 1..Len(q)
      /\ DOMAIN (p \o q) = 1..(Len(p) + Len(q)) /\ Len(p) \in Nat /\ Len(q) \in Nat
      /\ \A i \in 1..(Len(p) + Len(q)) :
           (p \o q)[i] = IF i <= Len(p) THEN p[i] ELSE q[i - Len(p)]
  BY SMT
<1>2. ASSUME NEW i \in DOMAIN (p \o q)
      PROVE  (p \o q)[i] \in SeqsIn(p) \cup SeqsIn(q)
  <2>1. CASE i <= Len(p)
    <3>1. i \in DOMAIN p
      BY <1>1, <1>2, <2>1, SMT
    <3> QED  BY <1>1, <1>2, <2>1, <3>1 DEF SeqsIn
  <2>2. CASE ~(i <= Len(p))
    <3>1. i - Len(p) \in DOMAIN q
      BY <1>1, <1>2, <2>2, SMT
    <3> QED  BY <1>1, <1>2, <2>2, <3>1 DEF SeqsIn
  <2> QED  BY <2>1, <2>2
<1> QED  BY <1>1, <1>2 DEF SeqsIn

(* A page with status OK, as it reaches the client.                        *)
Receives(r, a) ==
  /\ r \in reader.request /\ a = Query(db, r, reader.cursor) /\ a.status = "OK"
  /\ reader' = [reader EXCEPT
                  !.from = IF a.next < reader.from THEN a.next ELSE reader.from,
                  !.cursor = a.next, !.page = a.page,
                  !.got = reader.got \o a.page]

(* The client with the next page.                                          *)
LEMMA ReceivesInv ==
  ASSUME IInv, NEW r, NEW a, Receives(r, a), UNCHANGED <<db, damaged, fatal>>
  PROVE  ReaderInv'
<1>1. /\ reader \in Readers /\ reader.cursor \in Nat /\ reader.from \in Nat
      /\ reader.got \in Seq(Nat) /\ DbTypeOK(db)
  BY DEF IInv, ReaderInv, DbInv, Readers
<1>2. Progress(db, reader.cursor, a)
  BY <1>1, QueryIs, AnswerProgress DEF Receives
<1>3. GetMaxSeq(db) \in Nat
  BY <1>1, MaxIs
<1>4. a.next \in Nat /\ a.page \in Seq(Nat)
  BY <1>2 DEF Progress
<1>5. PICK f : f = IF a.next < reader.from THEN a.next ELSE reader.from
  OBVIOUS
<1>6. f \in Nat /\ f <= a.next /\ f <= reader.from
  BY <1>1, <1>4, <1>5, SMT
<1>7. PICK g : g = reader.got \o a.page
  OBVIOUS
<1>8. g \in Seq(Nat) /\ SeqsIn(g) \subseteq SeqsIn(reader.got) \cup SeqsIn(a.page)
  BY <1>1, <1>4, <1>7, ConcatPages
<1>9. reader' = [reader EXCEPT !.from = f, !.cursor = a.next, !.page = a.page,
                              !.got = g]
  BY <1>5, <1>7 DEF Receives
<1>10. /\ reader' \in Readers /\ reader'.from = f /\ reader'.cursor = a.next
       /\ reader'.page = a.page /\ reader'.got = g
       /\ reader'.request = reader.request
  BY <1>1, <1>4, <1>6, <1>8, <1>9 DEF Readers
<1>11. ASSUME NEW x \in SeqsIn(g)
       PROVE  x \in f..(a.next - 1) /\ x <= GetMaxSeq(db)
  <2>1. CASE x \in SeqsIn(reader.got)
    <3>1. x \in reader.from..(reader.cursor - 1) /\ x <= GetMaxSeq(db)
      BY <2>1 DEF IInv, ReaderInv
    <3>2. a.next = GetMaxSeq(db) + 1 \/ reader.cursor < a.next
      BY <1>2 DEF Progress
    <3> QED  BY <1>1, <1>3, <1>4, <1>6, <3>1, <3>2, SMT
  <2>2. CASE x \in SeqsIn(a.page)
    <3>1. x \in reader.cursor..(a.next - 1) /\ x <= GetMaxSeq(db)
      BY <1>2, <2>2 DEF Progress
    <3>2. reader.from <= reader.cursor
      BY DEF IInv, ReaderInv
    <3> QED  BY <1>1, <1>3, <1>4, <1>6, <3>1, <3>2, SMT
  <2> QED  BY <1>8, <2>1, <2>2
<1>12. /\ \A x \in SeqsIn(a.page) : x <= GetMaxSeq(db)
       /\ InBudget(db, a.page)
  BY <1>2 DEF Progress
<1> QED  BY <1>6, <1>10, <1>11, <1>12 DEF IInv, ReaderInv

(* What NextPage does.                                                     *)
LEMMA NextPageCases ==
  ASSUME IInv, NextPage
  PROVE  /\ UNCHANGED <<db, damaged>> /\ ~fatal
         /\ \/ (\E r, a : Receives(r, a)) /\ UNCHANGED fatal
            \/ \E r \in reader.request :
                 /\ reader' = Idle
                 /\ fatal' = (Query(db, r, reader.cursor).status = "DATA_LOSS")
<1>1. PICK answer \in {Query(db, r, reader.cursor) : r \in reader.request} :
        \/ /\ answer.status = "OK"
           /\ reader' = [reader EXCEPT
                           !.from = IF answer.next < reader.from
                                    THEN answer.next ELSE reader.from,
                           !.cursor = answer.next,
                           !.page = answer.page,
                           !.got = reader.got \o answer.page]
           /\ UNCHANGED fatal
        \/ /\ answer.status # "OK"
           /\ reader' = Idle
           /\ fatal' = (answer.status = "DATA_LOSS")
  BY DEF NextPage
<1>2. PICK r \in reader.request : answer = Query(db, r, reader.cursor)
  OBVIOUS
<1>3. UNCHANGED <<db, damaged>> /\ ~fatal
  BY DEF NextPage
<1>4. CASE answer.status = "OK"
  <2>1. Receives(r, answer) /\ UNCHANGED fatal
    BY <1>1, <1>2, <1>4 DEF Receives
  <2> QED  BY <1>3, <2>1
<1>5. CASE answer.status # "OK"
  BY <1>1, <1>2, <1>3, <1>5
<1> QED  BY <1>4, <1>5

(* The next page.                                                          *)
LEMMA NextPageInv ==
  ASSUME IInv, NextPage
  PROVE  IInv'
<1>1. UNCHANGED <<db, damaged>>
  BY NextPageCases
<1>2. CASE (\E r, a : Receives(r, a)) /\ UNCHANGED fatal
  <2>1. ReaderInv'
    BY <1>1, <1>2, ReceivesInv
  <2>2. DbInv'
    BY <1>1, <1>2 DEF IInv, DbInv
  <2> QED  BY <2>1, <2>2 DEF IInv
<1>3. ASSUME NEW r \in reader.request, reader' = Idle,
             fatal' = (Query(db, r, reader.cursor).status = "DATA_LOSS")
      PROVE  IInv'
  <2>1. DbTypeOK(db) /\ reader.cursor \in Nat
    BY DEF IInv, DbInv, ReaderInv, Readers
  <2>2. GoodAnswer(db, r, reader.cursor, Query(db, r, reader.cursor))
    BY <2>1, QueryIs
  <2>3. fatal' \in BOOLEAN /\ (fatal' => ~GoodDb(db))
    BY <1>3, <2>2 DEF GoodAnswer
  <2>4. DbInv'
    BY <1>1, <2>3 DEF IInv, DbInv
  <2>5. ReaderInv'
    BY <1>3, IdleInv
  <2> QED  BY <2>4, <2>5 DEF IInv
<1> QED  BY <1>2, <1>3, NextPageCases

(***************************************************************************)
(* The theorems.                                                           *)
(***************************************************************************)
(* Every step keeps the invariant.                                         *)
LEMMA NextInv == IInv /\ [Next]_vars => IInv'
<1> SUFFICES ASSUME IInv, [Next]_vars  PROVE IInv'
  OBVIOUS
<1>1. CASE UNCHANGED vars
  BY <1>1 DEF vars, IInv, DbInv, ReaderInv
<1> QED
  BY <1>1, BeginInv, NextPageInv, LookUpInv, PublishInv, ChangeMembersInv,
     DeleteTokenInv, DamageInv DEF Next

(* The invariant always holds.                                             *)
THEOREM QueriesAreSafe == Spec => []IInv
BY InitInv, NextInv, PTL DEF Spec

(* Whatever limits end its pages, no client gets a page of several         *)
(* messages beyond the soft limit, as long as the data is not damaged      *)
(* (FetchVisible, ListAllMessages).                                        *)
THEOREM PagesStayInBudget == Spec => []PagesKeepBudget
<1>1. IInv => PagesKeepBudget
  BY DEF IInv, ReaderInv, PagesKeepBudget, InBudget
<1> QED  BY <1>1, QueriesAreSafe, PTL

(* Good data never ends the process with StorageCorruption, whatever a     *)
(* client asks and however the log grows (ScanMessages, ListChannels).     *)
THEOREM NoAlarmWithoutDamage == Spec => []NoFalseAlarm
<1>1. IInv => NoFalseAlarm
  BY DEF IInv, DbInv, NoFalseAlarm
<1> QED  BY <1>1, QueriesAreSafe, PTL

(* Every query that is answered takes its client forward or finds it at    *)
(* the end of the log (FetchVisible, ListAllMessages).                     *)
THEOREM ClientsAdvance == Spec => []PagingAdvances
<1>1. ASSUME IInv
      PROVE  PagingAdvances
  <2>1. /\ DbTypeOK(db) /\ reader.cursor \in Nat /\ reader.from \in Nat
        /\ reader.request \subseteq Requests
    BY <1>1 DEF IInv, DbInv, ReaderInv, Readers
  <2>2. TypeOK
    <3>1. \A i \in DOMAIN reader.got : reader.got[i] \in SeqsIn(reader.got)
      BY DEF SeqsIn
    <3> QED  BY <1>1, <2>1, <3>1 DEF TypeOK, IInv, DbInv, ReaderInv
  <2>3. ASSUME NEW r \in reader.request, NEW a, a = Query(db, r, reader.cursor)
        PROVE  \/ a.status # "OK"
               \/ a.next > reader.cursor
               \/ a.next = GetMaxSeq(db) + 1
    <3>1. GoodAnswer(db, r, reader.cursor, a)
      BY <2>1, <2>3, QueryIs
    <3>2. CASE a.status = "OK"
      <4>1. Progress(db, reader.cursor, a)
        BY <2>1, <3>1, <3>2, AnswerProgress
      <4>2. a.next \in Nat /\ (a.next = GetMaxSeq(db) + 1 \/ reader.cursor < a.next)
        BY <4>1 DEF Progress
      <4> QED  BY <2>1, <4>2, SMT
    <3> QED  BY <3>2
  <2> QED  BY <2>2, <2>3 DEF PagingAdvances
<1> QED  BY <1>1, QueriesAreSafe, PTL

(* A client that stays active has the page of one answer, or is as it was. *)
LEMMA ActiveSteps ==
  ASSUME IInv, [Next]_vars, reader.active, reader'.active
  PROVE  reader' = reader \/ \E r, a : Receives(r, a)
<1>1. Idle.active = FALSE
  BY IdleIs
<1>2. CASE NextPage
  <2>1. \/ \E r, a : Receives(r, a)
        \/ reader' = Idle
    BY <1>2, NextPageCases
  <2> QED  BY <1>1, <2>1
<1> QED
  BY <1>1, <1>2 DEF Next, vars, Begin, LookUp, Leave, Publish, ChangeMembers,
                   DeleteToken, Damage

(* Of the messages that a scan has passed, it shows those that are wanted. *)
LEMMA ShownIsWanted ==
  ASSUME NEW d, DbTypeOK(d), NEW r, NEW S, \A s \in S : Clean(d, r, s)
  PROVE  {s \in S : Shown(d, r, s)} = Wanted(d, r, S)
<1> DEFINE W(s) == r.op = "Fetch" =>
             /\ r.channels # <<>> =>
                  \E i \in DOMAIN r.channels : r.channels[i] = d.log[s].channel
             /\ d.log[s].channel # 0 =>
                  d.chan[d.log[s].channel].visibility # "private"
                    \/ r.cred[1] \in d.chan[d.log[s].channel].members
             /\ r.mine => r.cred[1] \in d.log[s].recipients
<1>1. Wanted(d, r, S) = {s \in S : W(s)}
  BY DEF Wanted
<1>2. ASSUME NEW s \in S
      PROVE  Shown(d, r, s) <=> W(s)
  <2>1. PICK m : m = d.log[s]
    OBVIOUS
  <2>2. PICK c : c = m.channel
    OBVIOUS
  <2>3. (r.op = "Fetch" => Requested(r, m)) => ChannelStatus(d, c) = "OK"
    BY <2>1, <2>2 DEF Clean
  <2>4. Shown(d, r, s) <=>
          /\ ChannelStatus(d, c) = "OK"
          /\ r.op = "Fetch" => Requested(r, m) /\ Readable(d, r, m)
    BY <2>1, <2>2 DEF Shown
  <2>5. Requested(r, m) <=>
          (r.channels # <<>> => \E i \in DOMAIN r.channels : r.channels[i] = c)
    BY <2>2 DEF Requested
  <2>6. ASSUME ChannelStatus(d, c) = "OK"
        PROVE  CanRead(LoadChannel(d, c), r.cred[1]) <=>
                 (c # 0 => d.chan[c].visibility # "private"
                             \/ r.cred[1] \in d.chan[c].members)
    <3>1. CASE c = 0
      <4>1. LoadChannel(d, c) = SystemChannel
        BY <3>1 DEF LoadChannel
      <4>2. SystemChannel.visibility = "protected"
        BY DEF SystemChannel
      <4> QED  BY <3>1, <4>1, <4>2 DEF CanRead
    <3>2. CASE c # 0
      <4>1. c \in DOMAIN d.chan
        BY <2>6, <3>2 DEF ChannelStatus, Check, ??
      <4>2. d.chan[c] \in Channels
        BY <4>1 DEF DbTypeOK
      <4>3. d.chan[c].visibility \in {"public", "protected", "private"}
        BY <4>2 DEF Channels, Visibilities
      <4>4. LoadChannel(d, c) = d.chan[c]
        BY <3>2 DEF LoadChannel
      <4> QED  BY <3>2, <4>3, <4>4 DEF CanRead
    <3> QED  BY <3>1, <3>2
  <2>7. Readable(d, r, m) <=>
          CanRead(LoadChannel(d, c), r.cred[1]) /\ (r.mine => r.cred[1] \in m.recipients)
    BY <2>2 DEF Readable
  <2>8. W(s) <=>
          (r.op = "Fetch" =>
             /\ r.channels # <<>> => \E i \in DOMAIN r.channels : r.channels[i] = c
             /\ c # 0 => d.chan[c].visibility # "private"
                           \/ r.cred[1] \in d.chan[c].members
             /\ r.mine => r.cred[1] \in m.recipients)
    BY <2>1, <2>2
  <2> HIDE DEF W
  <2> QED  BY <2>3, <2>4, <2>5, <2>6, <2>7, <2>8
<1> QED  BY <1>1, <1>2

(* What a page with status OK gives its client.                            *)
LEMMA ReceivedPage ==
  ASSUME IInv, NEW r, NEW a, Receives(r, a)
  PROVE  /\ AtEnd(db, reader.cursor, a) \/ Paged(db, r, reader.cursor, a)
         /\ reader'.cursor = a.next /\ reader'.page = a.page
         /\ reader'.got = reader.got \o a.page
         /\ r \in reader.request /\ DbTypeOK(db)
         /\ GetMaxSeq(db) \in Nat /\ reader.cursor \in Nat
         /\ reader.got \in Seq(Nat)
<1>1. /\ DbTypeOK(db) /\ reader \in Readers /\ reader.cursor \in Nat
      /\ reader.got \in Seq(Nat)
  BY DEF IInv, DbInv, ReaderInv, Readers
<1>2. GoodAnswer(db, r, reader.cursor, a)
  BY <1>1, QueryIs DEF Receives
<1>3. AtEnd(db, reader.cursor, a) \/ Paged(db, r, reader.cursor, a)
  BY <1>2 DEF GoodAnswer, Receives
<1>4. /\ reader'.cursor = a.next /\ reader'.page = a.page
      /\ reader'.got = reader.got \o a.page
  BY <1>1 DEF Receives, Readers
<1> QED  BY <1>1, <1>3, <1>4, MaxIs DEF Receives

(* Each page holds exactly what its client asked for and may read of the   *)
(* messages between its cursor and the next, in order, for every request,  *)
(* limit, budget and log, damaged or not (FetchVisible, ListAllMessages,   *)
(* ScanMessages).                                                          *)
THEOREM PagesHoldWhatIsWanted == Spec => PagesAreExact
<1> DEFINE Exact(r) ==
      Len(reader'.got) > Len(reader.got) \/ reader'.cursor > reader.cursor =>
        /\ reader'.got = reader.got \o reader'.page
        /\ Increasing(reader'.page)
        /\ SeqsIn(reader'.page) = Wanted(db, r, reader.cursor..(reader'.cursor - 1))
<1>1. ASSUME IInv, [Next]_vars, reader.active, reader'.active,
             NEW r \in reader.request
      PROVE  Exact(r)
  <2>1. CASE reader' = reader
    <3>1. reader.cursor \in Nat /\ reader.got \in Seq(Nat)
      BY <1>1 DEF IInv, ReaderInv, Readers
    <3>2. ~(Len(reader.got) > Len(reader.got)) /\ ~(reader.cursor > reader.cursor)
      BY <3>1, SMT
    <3> QED  BY <2>1, <3>2
  <2>2. ASSUME NEW q, NEW a, Receives(q, a)
        PROVE  Exact(r)
    <3>1. /\ AtEnd(db, reader.cursor, a) \/ Paged(db, q, reader.cursor, a)
          /\ reader'.cursor = a.next /\ reader'.page = a.page
          /\ reader'.got = reader.got \o a.page
          /\ q \in reader.request /\ DbTypeOK(db)
          /\ GetMaxSeq(db) \in Nat /\ reader.cursor \in Nat
          /\ reader.got \in Seq(Nat)
      BY <1>1, <2>2, ReceivedPage
    <3>2. q = r
      BY <1>1, <3>1 DEF IInv, ReaderInv
    <3>3. CASE AtEnd(db, reader.cursor, a)
      <4>1. /\ reader.cursor > GetMaxSeq(db) /\ a.page = <<>>
            /\ a.next = GetMaxSeq(db) + 1
        BY <3>3 DEF AtEnd
      <4>2. ~(a.next > reader.cursor)
        BY <3>1, <4>1, SMT
      <4>3. ~(Len(reader.got \o <<>>) > Len(reader.got))
        BY <3>1, SMT
      <4> QED  BY <3>1, <4>1, <4>2, <4>3
    <3>4. CASE Paged(db, r, reader.cursor, a)
      <4>1. PICK S : S = reader.cursor..(a.next - 1)
        OBVIOUS
      <4>2. /\ \A s \in S : Clean(db, r, s)
            /\ Increasing(a.page)
            /\ SeqsIn(a.page) = {s \in S : Shown(db, r, s)}
        BY <3>4, <4>1 DEF Paged
      <4>3. SeqsIn(a.page) = Wanted(db, r, S)
        BY <3>1, <4>2, ShownIsWanted
      <4> QED  BY <3>1, <4>1, <4>2, <4>3
    <3> QED  BY <3>1, <3>2, <3>3, <3>4
  <2> QED  BY <1>1, <2>1, <2>2, ActiveSteps
<1>2. IInv /\ [Next]_vars =>
        [reader'.active /\ reader.active => \A r \in reader.request : Exact(r)]_vars
  BY <1>1
<1> QED  BY <1>2, QueriesAreSafe, PTL DEF Spec, PagesAreExact

(* No cursor moves across a message that is missing or not valid, and no   *)
(* page holds one of such a channel, whatever was damaged, and when        *)
(* (ScanMessages and its visitors).                                        *)
THEOREM DamageIsReported == Spec => NoDamageIsHidden
<1> DEFINE Seen(s) ==
      /\ s \in DOMAIN db.log /\ ValidStoredMessage(s, db.log[s])
      /\ s \in SeqsIn(reader'.page) => ChannelStatus(db, db.log[s].channel) = "OK"
<1>1. ASSUME IInv, [Next]_vars, reader.active, reader'.active,
             NEW s \in reader.cursor..(reader'.cursor - 1)
      PROVE  Seen(s)
  <2>1. reader.cursor \in Nat
    BY <1>1 DEF IInv, ReaderInv, Readers
  <2>2. CASE reader' = reader
    <3>1. reader.cursor..(reader.cursor - 1) = {}
      BY <2>1, SMT
    <3> QED  BY <1>1, <2>2, <3>1
  <2>3. ASSUME NEW q, NEW a, Receives(q, a)
        PROVE  Seen(s)
    <3>1. /\ AtEnd(db, reader.cursor, a) \/ Paged(db, q, reader.cursor, a)
          /\ reader'.cursor = a.next /\ reader'.page = a.page
          /\ GetMaxSeq(db) \in Nat
      BY <1>1, <2>3, ReceivedPage
    <3>2. CASE AtEnd(db, reader.cursor, a)
      <4>1. reader.cursor > GetMaxSeq(db) /\ a.next = GetMaxSeq(db) + 1
        BY <3>2 DEF AtEnd
      <4>2. reader.cursor..(a.next - 1) = {}
        BY <2>1, <3>1, <4>1, SMT
      <4> QED  BY <1>1, <3>1, <4>2
    <3>3. CASE Paged(db, q, reader.cursor, a)
      <4>1. s \in reader.cursor..(a.next - 1)
        BY <1>1, <3>1
      <4>2. Clean(db, q, s)
        BY <3>3, <4>1 DEF Paged
      <4>3. s \in SeqsIn(a.page) => Shown(db, q, s)
        BY <3>3, <4>1 DEF Paged
      <4> QED  BY <3>1, <4>2, <4>3 DEF Clean, Sound, Shown
    <3> QED  BY <3>1, <3>2, <3>3
  <2> QED  BY <1>1, <2>2, <2>3, ActiveSteps
<1>2. IInv /\ [Next]_vars =>
        [reader.active /\ reader'.active =>
           \A s \in reader.cursor..(reader'.cursor - 1) : Seen(s)]_vars
  BY <1>1
<1> QED  BY <1>2, QueriesAreSafe, PTL DEF Spec, NoDamageIsHidden

(* A request for one channel is refused exactly if GetChannel refuses it.  *)
LEMMA OneChannel ==
  ASSUME NEW d, NEW p, NEW c
  PROVE  ValidateReadableChannels(d, p, <<c>>) = "OK"
           <=> GetChannelStatus(d, p, c) = "OK"
<1> DEFINE refused == {i \in DOMAIN <<c>> :
                         GetChannelStatus(d, p, <<c>>[i]) # "OK"}
           first == CHOOSE i \in refused : \A j \in refused : i <= j
<1>1. DOMAIN <<c>> = 1..1 /\ <<c>>[1] = c /\ 1..1 = {1} /\ 1 <= 1
  BY SMT
<1>2. ValidateReadableChannels(d, p, <<c>>) =
        IF refused = {} THEN "OK" ELSE GetChannelStatus(d, p, <<c>>[first])
  BY DEF ValidateReadableChannels
<1>3. CASE GetChannelStatus(d, p, c) = "OK"
  <2>1. refused = {}
    BY <1>1, <1>3
  <2> QED  BY <1>2, <1>3, <2>1
<1>4. CASE GetChannelStatus(d, p, c) # "OK"
  <2>1. refused = {1}
    BY <1>1, <1>4
  <2> HIDE DEF refused
  <2>2. first \in refused
    <3>1. \E i \in refused : \A j \in refused : i <= j
      BY <1>1, <2>1
    <3> QED  BY <3>1
  <2> HIDE DEF first
  <2>3. first = 1 /\ refused # {}
    BY <2>1, <2>2
  <2>4. ValidateReadableChannels(d, p, <<c>>) = GetChannelStatus(d, p, c)
    BY <1>1, <1>2, <2>3
  <2> QED  BY <1>4, <2>4
<1> QED  BY <1>3, <1>4

(* Nobody is ever a member of the system channel.                          *)
LEMMA NoMemberOfSystemChannel ==
  ASSUME NEW d, GoodDb(d), NEW p
  PROVE  ~MemberAt(d.log, 0, p, GetMaxSeq(d))
<1> SUFFICES ASSUME NEW s \in 0..GetMaxSeq(d)
             PROVE  ~Adds(d.log[s], 0, p)
  BY DEF MemberAt
<1>1. ValidStoredMessage(s, d.log[s])
  BY DEF GoodDb, LogDense, RecordsValid
<1>2. CASE s = 0
  <2>1. d.log[s] = InitializationMessage
    BY <1>1, <1>2 DEF ValidStoredMessage
  <2>2. InitializationMessage.kind = "initialization"
    BY DEF InitializationMessage
  <2> QED  BY <2>1, <2>2 DEF Adds
<1>3. CASE s # 0
  BY <1>1, <1>3 DEF ValidStoredMessage, Adds
<1> QED  BY <1>2, <1>3

(* The listings of good data, for one principal.                           *)
LEMMA ListingsOfGood ==
  ASSUME NEW d, GoodDb(d), NEW p \in Principals
  PROVE  /\ StoredChannelsStatus(d) = "OK"
         /\ ListChannels(d, p, "owned") \subseteq ListChannels(d, p, "joined")
         /\ ListChannels(d, p, "joined") \subseteq ListChannels(d, p, "all")
         /\ \A c : c \in ListChannels(d, p, "all")
                     <=> ValidateReadableChannels(d, p, <<c>>) = "OK"
         /\ \A c : c \in ListChannels(d, p, "joined")
                     <=> MemberAt(d.log, c, p, GetMaxSeq(d))
<1>1. \A c \in DOMAIN d.chan : ValidStoredChannel(d.chan[c])
  BY DEF GoodDb, RecordsValid
<1>2. 0 \notin DOMAIN d.chan
  <2>1. DOMAIN d.chan = 1..(GetNextChannelId(d) - 1)
    BY DEF GoodDb, RecordsValid
  <2>2. GetNextChannelId(d) \in Nat
    BY DEF GoodDb, DbTypeOK, GetNextChannelId, MetaKeys
  <2>3. 0 \notin 1..(GetNextChannelId(d) - 1)
    BY <2>2, SMT
  <2> QED  BY <2>1, <2>3
<1>3. StoredChannelsStatus(d) = "OK"
  BY <1>1 DEF StoredChannelsStatus, Check
<1>4. /\ ListChannels(d, p, "all") = {c \in DOMAIN d.chan : CanRead(d.chan[c], p)}
                                       \cup {0}
      /\ ListChannels(d, p, "joined") =
           {c \in DOMAIN d.chan : p \in d.chan[c].members}
      /\ ListChannels(d, p, "owned") =
           {c \in DOMAIN d.chan : CanRead(d.chan[c], p) /\ d.chan[c].creator = p}
  BY DEF ListChannels, CanRead
<1>5. ListChannels(d, p, "owned") \subseteq ListChannels(d, p, "joined")
  BY <1>1, <1>4 DEF ValidStoredChannel
<1>6. ListChannels(d, p, "joined") \subseteq ListChannels(d, p, "all")
  BY <1>4 DEF CanRead
<1>7. ASSUME NEW c
      PROVE  c \in ListChannels(d, p, "all")
               <=> ValidateReadableChannels(d, p, <<c>>) = "OK"
  <2>1. GetChannelStatus(d, p, c) = "OK" <=>
          c = 0 \/ (c \in DOMAIN d.chan /\ CanRead(d.chan[c], p))
    <3>1. CASE c = 0
      <4>1. CanRead(SystemChannel, p)
        BY DEF CanRead, SystemChannel
      <4> QED
        BY <3>1, <4>1 DEF GetChannelStatus, ChannelStatus, LoadChannel, Check, ??
    <3>2. CASE c # 0 /\ c \in DOMAIN d.chan
      BY <1>1, <3>2 DEF GetChannelStatus, ChannelStatus, LoadChannel, Check, ??
    <3>3. CASE c # 0 /\ c \notin DOMAIN d.chan
      BY <3>3 DEF GetChannelStatus, ChannelStatus, Check, ??
    <3> QED  BY <3>1, <3>2, <3>3
  <2> QED  BY <1>4, <2>1, OneChannel
<1>8. ASSUME NEW c
      PROVE  c \in ListChannels(d, p, "joined")
               <=> MemberAt(d.log, c, p, GetMaxSeq(d))
  <2>1. CASE c \in DOMAIN d.chan
    BY <1>4, <2>1 DEF GoodDb, MembersMatchLog
  <2>2. CASE c = 0
    BY <1>2, <1>4, <2>2, NoMemberOfSystemChannel
  <2>3. CASE c # 0 /\ c \notin DOMAIN d.chan
    BY <1>4, <2>3, NoMemberOfNewChannel
  <2> QED  BY <2>1, <2>2, <2>3
<1> QED  BY <1>3, <1>5, <1>6, <1>7, <1>8

(* However the log grows and members and tokens change, a channel is       *)
(* listed exactly if its messages can be fetched, and joined exactly if    *)
(* the log says so (ListChannels, GetChannel, ValidateReadableChannels).   *)
THEOREM ListingsAlwaysAgree == Spec => []ListingsAgree
<1>1. ASSUME IInv
      PROVE  ListingsAgree
  <2>1. ~damaged => GoodDb(db)
    BY <1>1 DEF IInv, DbInv
  <2> QED  BY <2>1, ListingsOfGood DEF ListingsAgree
<1> QED  BY <1>1, QueriesAreSafe, PTL

=============================================================================
