--------------------------- MODULE SubscriptionProofs ---------------------------
(***************************************************************************)
(* Proofs about Subscription, for any number of subscribers, any set of    *)
(* visible messages and any page and scan limits: streams deliver the      *)
(* visible messages in order without a gap (DeliversInOrder), every        *)
(* acquired snapshot holds the commits acknowledged before it was asked    *)
(* for (SeesPriorCommits), and nothing is delivered under a token whose    *)
(* deletion was acknowledged before (NothingAfterRevocation).              *)
(***************************************************************************)
EXTENDS Subscription, FiniteSetTheorems, TLAPS

(* First-order steps go to Zenon; steps with arithmetic name SMT.           *)
USE Zenon

Labels == {"idle", "start", "startWait", "accepted", "loop", "fetch",
           "fetchWait", "write", "wait"}

Commits == {"message"} \cup Subscribers

(* The types of the variables that the argument is about.                  *)
CoreTypes ==
  /\ db \in Seq(Commits) /\ committing \in BOOLEAN
  /\ generation \in Nat /\ acked \in Nat

SnapshotTypes ==
  /\ shared \in [commits : Nat, generation : Nat, version : Nat,
                 attempt : Nat, ok : BOOLEAN]
  /\ refresher \in [at : {"wait", "create", "install", "raise", "stopped"},
                    generation : Nat, commits : Nat, ok : BOOLEAN]

FailureTypes ==
  fatal \in BOOLEAN /\ raised \in {"no", "notify", "handler"}

StreamTypes ==
  /\ asleep \subseteq Subscribers
  /\ pc \in [Subscribers -> Labels] /\ cursor \in [Subscribers -> Nat]
  /\ need \in [Subscribers -> Nat] /\ observed \in [Subscribers -> Nat]
  /\ used \in [Subscribers -> Nat] /\ floor \in [Subscribers -> Nat]
  /\ from \in [Subscribers -> Nat] /\ unsent \in [Subscribers -> Seq(Nat)]
  /\ delivered \in [Subscribers -> Seq(Nat)]

Types == CoreTypes /\ SnapshotTypes /\ FailureTypes /\ StreamTypes

(* A commit is counted after it is written; a snapshot is taken after its  *)
(* generation was read and holds no less than the one before.              *)
Order ==
  /\ generation <= Len(db) /\ (committing => generation < Len(db))
  /\ acked <= Len(db)
  /\ shared.commits <= Len(db) /\ shared.generation <= generation
  /\ refresher.generation <= generation
  /\ refresher.at = "install" =>
       /\ refresher.commits <= Len(db)
       /\ shared.commits <= refresher.commits
  /\ raised # "no" <=> fatal
  /\ \A c \in asleep : pc[c] \in {"startWait", "fetchWait"}
  /\ \A c \in Subscribers : need[c] <= generation /\ floor[c] <= acked

(* A snapshot of generation g that holds n commits holds those that were   *)
(* acknowledged when any generation up to g was current.                   *)
Covers(g, n) ==
  /\ g = generation => acked <= n
  /\ \A c \in Subscribers : need[c] <= g => floor[c] <= n

Stamps ==
  /\ Covers(shared.generation, shared.commits)
  /\ refresher.at = "install" => Covers(refresher.generation, refresher.commits)

Seen ==
  \A c \in Subscribers :
    pc[c] \in {"accepted", "write", "loop", "wait"} =>
      floor[c] <= used[c] \/ fatal

(* What is being written was fetched under a token that was valid in the   *)
(* snapshot of the batch.                                                  *)
Entitled ==
  \A c \in Subscribers :
    pc[c] = "write" => used[c] <= Len(db) /\ Authorized(c, used[c])

(* A stream that has started is at most one past the end of the shared     *)
(* snapshot, so FetchVisible never moves it back.                          *)
Started == Labels \ {"idle", "start", "startWait"}

InRange ==
  \A c \in Subscribers :
    /\ from[c] <= cursor[c]
    /\ pc[c] \in Started => cursor[c] <= GetMaxSeq(shared.commits) + 1

(* What a stream has delivered, followed by what it has still to write, is *)
(* the page from from_seq to its cursor.                                   *)
Sent ==
  \A c \in Subscribers :
    /\ unsent[c] # << >> <=> pc[c] = "write"
    /\ IF pc[c] = "idle" THEN Begins(delivered[c], Page(from[c], cursor[c]))
                         ELSE delivered[c] \o unsent[c] = Page(from[c], cursor[c])

IInv ==
  Types /\ Order /\ Stamps /\ Seen /\ InRange /\ Entitled /\ Sent

-----------------------------------------------------------------------------
(***************************************************************************)
(* Pages.  Lists(s, S): s holds the members of S, each once, in order.     *)
(***************************************************************************)
Lists(s, S) ==
  /\ s \in Seq(S)
  /\ \A i, j \in 1..Len(s) : i < j => s[i] < s[j]
  /\ \A v \in S : \E i \in 1..Len(s) : s[i] = v

Span(first, next) == Visible \cap first..(next - 1)

(* The least-number principle, from the well-foundedness of finite sets:   *)
(* the scan of a page, one seq after the other, is reasoned about with it. *)
LEMMA LeastNatural ==
  ASSUME NEW D, D \subseteq Nat, D # {}
  PROVE  \E n \in D : \A m \in D : n <= m
<1> DEFINE T == {1..n : n \in D}
           R == StrictSubsetOrdering(Nat)
<1>1. IsWellFoundedOn(R, FiniteSubsetsOf(Nat))
  BY FS_StrictSubsetOrderingWellFounded
<1>2. \A n \in Nat : IsFiniteSet(1..n) /\ 1..n \subseteq Nat
  BY FS_Interval, SMT
<1>3. T \subseteq FiniteSubsetsOf(Nat) /\ T # {}
  BY <1>2 DEF FiniteSubsetsOf
<1> HIDE DEF R
<1>4. PICK s \in T : \A t \in T : ~(<<t, s>> \in R)
  <2> HIDE DEF T
  <2> QED  BY <1>1, <1>3, WFMin
<1>5. PICK n \in D : s = 1..n
  OBVIOUS
<1>6. ASSUME NEW m \in D, m < n  PROVE FALSE
  <2>1. /\ m \in Nat /\ n \in Nat /\ 1..m \subseteq 1..n /\ n \in 1..n
        /\ n \notin 1..m /\ 1..n \subseteq Nat
    BY <1>6, SMT
  <2>2. <<1..m, 1..n>> \in R
    BY <2>1 DEF R, StrictSubsetOrdering
  <2> QED  BY <1>4, <1>5, <2>2
<1> QED  BY <1>6, SMT

(* A set that is listed by s has as many members as s has places.          *)
LEMMA ListsSize ==
  ASSUME NEW S \in SUBSET Nat, NEW s, Lists(s, S)
  PROVE  /\ IsFiniteSet(S) /\ Cardinality(S) = Len(s) /\ Len(s) \in Nat
         /\ s \in [1..Len(s) -> S]
<1>1. s \in Seq(S) /\ Len(s) \in Nat /\ s \in [1..Len(s) -> S]
  BY SMT DEF Lists
<1>2. \A i, j \in 1..Len(s) : s[i] = s[j] => i = j
  <2> SUFFICES ASSUME NEW i \in 1..Len(s), NEW j \in 1..Len(s), s[i] = s[j]
               PROVE  i = j
    OBVIOUS
  <2>1. ~(s[i] < s[i])
    <3>1. s[i] \in Nat
      BY <1>1
    <3>2. \A k \in Nat : ~(k < k)
      BY SMT
    <3> QED  BY <3>1, <3>2
  <2>2. ~(i < j) /\ ~(j < i)
    BY <2>1 DEF Lists
  <2>3. i \in Int /\ j \in Int
    BY <1>1, SMT
  <2> QED  BY <2>2, <2>3, SMT
<1>3. s \in Injection(1..Len(s), S)
  BY <1>1, <1>2 DEF Injection, IsInjective
<1>4. s \in Surjection(1..Len(s), S)
  BY <1>1 DEF Surjection, Lists
<1>5. ExistsBijection(1..Len(s), S)
  BY <1>3, <1>4 DEF ExistsBijection, Bijection
<1>6. IsFiniteSet(1..Len(s)) /\ Cardinality(1..Len(s)) = Len(s)
  <2>1. PICK n \in Nat : n = Len(s)
    BY <1>1
  <2>2. IsFiniteSet(1..n) /\ Cardinality(1..n) = n
    BY FS_Interval, SMT
  <2> QED  BY <2>1, <2>2
<1> QED  BY <1>1, <1>5, <1>6, FS_Bijection

(* The list of a set followed by the list of a later set.                  *)
LEMMA ListsJoin ==
  ASSUME NEW S \in SUBSET Nat, NEW T \in SUBSET Nat, NEW s, NEW t,
         Lists(s, S), Lists(t, T), \A v \in S, w \in T : v < w
  PROVE  Lists(s \o t, S \cup T)
<1>1. /\ s \in Seq(S) /\ t \in Seq(T) /\ Len(s) \in Nat /\ Len(t) \in Nat
      /\ \A i \in 1..Len(s) : s[i] \in S
      /\ \A i \in 1..Len(t) : t[i] \in T
  BY SMT DEF Lists
<1> DEFINE u == s \o t
<1>2. /\ u \in Seq(S \cup T) /\ Len(u) = Len(s) + Len(t)
      /\ \A i \in 1..Len(s) : u[i] = s[i]
      /\ \A i \in 1..Len(t) : u[Len(s) + i] = t[i]
      /\ \A i \in 1..Len(u) : i \notin 1..Len(s) =>
           i - Len(s) \in 1..Len(t) /\ u[i] = t[i - Len(s)]
  BY <1>1, SMT
<1> HIDE DEF u
<1>3. \A i, j \in 1..Len(u) : i < j => u[i] < u[j]
  <2> SUFFICES ASSUME NEW i \in 1..Len(u), NEW j \in 1..Len(u), i < j
               PROVE  u[i] < u[j]
    OBVIOUS
  <2>1. CASE j \in 1..Len(s)
    <3>1. i \in 1..Len(s)
      BY <1>1, <1>2, <2>1, SMT
    <3> QED  BY <1>2, <2>1, <3>1 DEF Lists
  <2>2. CASE i \in 1..Len(s) /\ j \notin 1..Len(s)
    BY <1>1, <1>2, <2>2
  <2>3. CASE i \notin 1..Len(s)
    <3>1. j \notin 1..Len(s) /\ i - Len(s) < j - Len(s)
      BY <1>1, <1>2, <2>3, SMT
    <3>2. /\ i - Len(s) \in 1..Len(t) /\ u[i] = t[i - Len(s)]
          /\ j - Len(s) \in 1..Len(t) /\ u[j] = t[j - Len(s)]
      BY <1>2, <2>3, <3>1
    <3>3. PICK k \in 1..Len(t), l \in 1..Len(t) :
            k = i - Len(s) /\ l = j - Len(s)
      BY <3>2
    <3>4. t[k] < t[l]
      BY <3>1, <3>3 DEF Lists
    <3> QED  BY <3>2, <3>3, <3>4
  <2> QED  BY <2>1, <2>2, <2>3
<1>4. \A v \in S \cup T : \E i \in 1..Len(u) : u[i] = v
  <2>1. \A i \in 1..Len(s) : i \in 1..Len(u)
    BY <1>1, <1>2, SMT
  <2>2. \A i \in 1..Len(t) : Len(s) + i \in 1..Len(u)
    BY <1>1, <1>2, SMT
  <2>3. ASSUME NEW v \in S  PROVE \E i \in 1..Len(u) : u[i] = v
    <3>1. PICK i \in 1..Len(s) : s[i] = v
      BY DEF Lists
    <3> QED  BY <1>2, <2>1, <3>1
  <2>4. ASSUME NEW v \in T  PROVE \E i \in 1..Len(u) : u[i] = v
    <3>1. PICK i \in 1..Len(t) : t[i] = v
      BY DEF Lists
    <3> QED  BY <1>2, <2>2, <3>1
  <2> QED  BY <2>3, <2>4
<1> QED  BY <1>2, <1>3, <1>4 DEF Lists, u

(* Two lists of the same set agree at a place before which they agree.     *)
LEMMA ListsNotBelow ==
  ASSUME NEW S \in SUBSET Nat, NEW s, NEW t, Lists(s, S), Lists(t, S),
         NEW i \in 1..Len(s), i \in 1..Len(t),
         \A j \in 1..(i - 1) : s[j] = t[j], s[i] < t[i]
  PROVE  FALSE
<1>1. /\ Len(s) \in Nat /\ Len(t) \in Nat
      /\ \A k \in 1..Len(s) : s[k] \in S
      /\ \A k \in 1..Len(t) : t[k] \in S
  BY SMT DEF Lists
<1>2. PICK j \in 1..Len(t) : t[j] = s[i]
  BY <1>1 DEF Lists
<1>3. s[i] \in Nat /\ t[i] \in Nat /\ t[j] \in Nat /\ i \in Nat /\ j \in Nat
  <2>1. s[i] \in S /\ t[i] \in S /\ t[j] \in S
    BY <1>1
  <2>2. i \in Nat /\ j \in Nat
    BY <1>1, SMT
  <2> QED  BY <2>1, <2>2
<1>4. CASE j < i
  <2>1. j \in 1..(i - 1) /\ j \in 1..Len(s)
    BY <1>1, <1>3, <1>4, SMT
  <2>2. s[j] < s[i] /\ s[j] = s[i]
    BY <1>2, <1>4, <2>1 DEF Lists
  <2> QED  BY <1>3, <2>2, SMT
<1>5. CASE i < j
  <2>1. t[i] < t[j]
    BY <1>5 DEF Lists
  <2> QED  BY <1>2, <1>3, <2>1, SMT
<1>6. CASE i = j
  BY <1>2, <1>3, <1>6, SMT
<1> QED  BY <1>3, <1>4, <1>5, <1>6, SMT

(* A set has one list.                                                     *)
LEMMA ListsUnique ==
  ASSUME NEW S \in SUBSET Nat, NEW s, NEW t, Lists(s, S), Lists(t, S)
  PROVE  s = t
<1>1. /\ s \in [1..Len(s) -> S] /\ t \in [1..Len(s) -> S]
      /\ Len(s) = Len(t) /\ Len(s) \in Nat
  BY ListsSize
<1> DEFINE D == {i \in 1..Len(s) : s[i] # t[i]}
<1> SUFFICES ASSUME D # {}  PROVE FALSE
  BY <1>1, SMT
<1>2. D \subseteq Nat
  BY <1>1, SMT
<1>3. PICK i \in D : \A j \in D : i <= j
  <2> HIDE DEF D
  <2> QED  BY <1>2, LeastNatural
<1>4. \A j \in 1..(i - 1) : s[j] = t[j]
  <2> SUFFICES ASSUME NEW j \in 1..(i - 1), j \in D  PROVE FALSE
    <3>1. \A j \in 1..(i - 1) : j \in 1..Len(s)
      BY <1>1, <1>2, SMT
    <3> QED  BY <3>1
  <2>1. i <= j
    BY <1>3
  <2> QED  BY <1>1, <2>1, SMT
<1>5. s[i] \in Nat /\ t[i] \in Nat /\ s[i] # t[i]
  BY <1>1
<1>6. s[i] < t[i] \/ t[i] < s[i]
  BY <1>5, SMT
<1>7. \A j \in 1..(i - 1) : t[j] = s[j]
  BY <1>4
<1>8. i \in 1..Len(s) /\ i \in 1..Len(t)
  BY <1>1
<1> HIDE DEF D
<1> QED  BY <1>4, <1>6, <1>7, <1>8, ListsNotBelow

(* Every span of the log has a list: the scan adds one seq at a time.      *)
LEMMA SpanHasList ==
  ASSUME NEW first \in Nat, NEW next \in Nat
  PROVE  \E s : Lists(s, Span(first, next))
<1> DEFINE Has(n) == \E s : Lists(s, Span(first, n))
           D == {n \in Nat : ~Has(n)}
<1> SUFFICES ASSUME D # {}  PROVE FALSE
  OBVIOUS
<1>1. PICK n \in D : \A m \in D : n <= m
  <2>1. D \subseteq Nat
    OBVIOUS
  <2> HIDE DEF D
  <2> QED  BY <2>1, LeastNatural
<1>2. CASE n <= first
  <2>1. Span(first, n) = {}
    BY <1>2, SMT DEF Span
  <2>2. Lists(<< >>, {})
    BY SMT DEF Lists
  <2> QED  BY <2>1, <2>2
<1>3. CASE n > first
  <2>1. PICK m \in Nat : m = n - 1
    BY <1>3, SMT
  <2>2. ~(n <= m)
    BY <2>1, SMT
  <2>3. PICK s : Lists(s, Span(first, m))
    BY <1>1, <2>2
  <2>4. /\ Span(first, m) \in SUBSET Nat
        /\ \A v \in Span(first, m) : v < m
    BY <2>1, SMT DEF Span
  <2>5. CASE m \in Visible
    <3>1. Lists(<<m>>, {m})
      BY SMT DEF Lists
    <3>2. Span(first, n) = Span(first, m) \cup {m}
      BY <1>3, <2>1, <2>5, SMT DEF Span
    <3>3. Lists(s \o <<m>>, Span(first, m) \cup {m})
      BY <2>3, <2>4, <3>1, ListsJoin
    <3> QED  BY <3>2, <3>3
  <2>6. CASE m \notin Visible
    <3>1. Span(first, n) = Span(first, m)
      BY <1>3, <2>1, <2>6, SMT DEF Span
    <3> QED  BY <2>3, <3>1
  <2> QED  BY <2>5, <2>6
<1> QED  BY <1>2, <1>3, SMT

(* A page lists the visible seqs of its span.                              *)
LEMMA PageLists ==
  ASSUME NEW first \in Nat, NEW next \in Nat
  PROVE  Lists(Page(first, next), Span(first, next))
<1> DEFINE S == Span(first, next)
           I == 1..Cardinality(S)
           Good(s) == \A i, j \in I : i < j => s[i] < s[j]
           p == Page(first, next)
<1>1. S \in SUBSET Nat
  BY SMT DEF Span
<1>2. PICK s : Lists(s, S)
  BY SpanHasList
<1>3. /\ IsFiniteSet(S) /\ Cardinality(S) = Len(s) /\ Cardinality(S) \in Nat
      /\ s \in [I -> S]
  <2> HIDE DEF S
  <2> QED  BY <1>1, <1>2, ListsSize
<1>4. Good(s)
  BY <1>2, <1>3 DEF Lists
<1>5. p = CHOOSE q \in [I -> S] : Good(q)
  BY DEF Page, Span
<1>6. p \in [I -> S] /\ Good(p)
  <2> HIDE DEF p, Good, I
  <2> QED  BY <1>3, <1>4, <1>5
<1> HIDE DEF S, p
<1>7. \A i, j \in I : p[i] = p[j] => i = j
  <2> SUFFICES ASSUME NEW i \in I, NEW j \in I, p[i] = p[j]  PROVE i = j
    OBVIOUS
  <2>1. ~(p[i] < p[j]) /\ ~(p[j] < p[i])
    <3>1. p[i] \in Nat
      BY <1>1, <1>6
    <3>2. \A k \in Nat : ~(k < k)
      BY SMT
    <3> QED  BY <3>1, <3>2
  <2>2. i \in Int /\ j \in Int
    BY <1>3, SMT
  <2> QED  BY <1>6, <2>1, <2>2, SMT
<1>8. p \in Injection(I, S)
  BY <1>6, <1>7 DEF Injection, IsInjective
<1>9. Cardinality(I) = Cardinality(S)
  <2>1. PICK n \in Nat : n = Cardinality(S)
    BY <1>3
  <2>2. Cardinality(1..n) = n
    BY FS_Interval, SMT
  <2> QED  BY <2>1, <2>2
<1>10. p \in Surjection(I, S)
  <2> HIDE DEF I
  <2> QED  BY <1>3, <1>8, <1>9, FS_Injection
<1>11. p \in Seq(S) /\ Len(p) = Cardinality(S)
  BY <1>3, <1>6, SMT
<1> QED  BY <1>6, <1>10, <1>11 DEF Lists, Surjection, S, p

(* Pages follow one another without a gap.                                 *)
LEMMA PageJoin ==
  ASSUME NEW first \in Nat, NEW mid \in Nat, NEW next \in Nat,
         first <= mid, mid <= next
  PROVE  /\ Page(first, next) = Page(first, mid) \o Page(mid, next)
         /\ Page(first, next) \in Seq(Nat)
<1>1. /\ Span(first, next) = Span(first, mid) \cup Span(mid, next)
      /\ Span(first, mid) \in SUBSET Nat /\ Span(mid, next) \in SUBSET Nat
      /\ \A v \in Span(first, mid), w \in Span(mid, next) : v < w
  BY SMT DEF Span
<1>2. Lists(Page(first, mid) \o Page(mid, next), Span(first, next))
  <2>1. PICK p, q, S, T :
          /\ p = Page(first, mid) /\ q = Page(mid, next)
          /\ S = Span(first, mid) /\ T = Span(mid, next)
    OBVIOUS
  <2>2. Lists(p, S) /\ Lists(q, T)
    BY <2>1, PageLists
  <2>3. /\ S \in SUBSET Nat /\ T \in SUBSET Nat
        /\ \A v \in S, w \in T : v < w
    BY <1>1, <2>1
  <2>4. Lists(p \o q, S \cup T)
    BY <2>2, <2>3, ListsJoin
  <2> QED  BY <1>1, <2>1, <2>4
<1>3. Span(first, next) \in SUBSET Nat
  BY <1>1
<1>4. Page(first, next) = Page(first, mid) \o Page(mid, next)
  BY <1>2, <1>3, PageLists, ListsUnique
<1>5. Page(first, next) \in Seq(Span(first, next))
  BY PageLists DEF Lists
<1>6. Page(first, next) \in Seq(Nat)
  BY <1>3, <1>5, SMT
<1> QED  BY <1>4, <1>6

(* A page that ends where it begins is empty.                              *)
LEMMA PageEmpty ==
  ASSUME NEW first \in Nat
  PROVE  Page(first, first) = << >>
<1>1. Span(first, first) = {} /\ {} \in SUBSET Nat
  BY SMT DEF Span
<1>2. Lists(<< >>, {})
  BY SMT DEF Lists
<1> QED  BY <1>1, <1>2, PageLists, ListsUnique

(* FetchVisible answers the page from the cursor to the next cursor, which *)
(* is not before the cursor and at most one past the snapshot's end.       *)
LEMMA FetchesPage ==
  ASSUME NEW first \in Nat, NEW max \in Nat, first <= max + 1,
         NEW batch \in FetchVisible(first, max)
  PROVE  /\ batch.next \in Nat /\ first <= batch.next /\ batch.next <= max + 1
         /\ batch.messages = Page(first, batch.next)
<1> DEFINE last == IF max < first + MaxScan THEN max ELSE first + MaxScan - 1
           found == Visible \cap first..last
<1>1. CASE first > max
  <2>1. batch = [messages |-> << >>, next |-> max + 1]
    BY <1>1 DEF FetchVisible
  <2>2. max + 1 = first
    BY <1>1, SMT
  <2>3. batch.next = first /\ batch.messages = << >>
    BY <2>1, <2>2
  <2> QED  BY <2>2, <2>3, PageEmpty, SMT
<1>2. CASE ~(first > max)
  <2>1. /\ last \in Nat /\ first <= last /\ last <= max
        /\ \A v \in found : v \in Nat /\ first <= v /\ v <= max
    BY <1>2, SubscriptionAssumption, SMT
  <2>2. \E v \in found \cup {last} :
          \/ batch = [messages |-> Page(first, v), next |-> v]
          \/ batch = [messages |-> Page(first, v + 1), next |-> v + 1]
    BY <1>2 DEF FetchVisible
  <2> HIDE DEF last, found
  <2>3. PICK v \in found \cup {last} :
          \/ batch = [messages |-> Page(first, v), next |-> v]
          \/ batch = [messages |-> Page(first, v + 1), next |-> v + 1]
    BY <2>2
  <2>4. v \in Nat /\ first <= v /\ v <= max
    BY <2>1
  <2>5. PICK n \in {v, v + 1} : batch = [messages |-> Page(first, n), next |-> n]
    BY <2>3
  <2>6. n \in Nat /\ first <= n /\ n <= max + 1
    BY <2>4, SMT
  <2> QED  BY <2>5, <2>6
<1> QED  BY <1>1, <1>2

(* A longer prefix of the commits holds no fewer messages.                 *)
LEMMA MaxSeqGrows ==
  ASSUME NEW m \in Nat, NEW n \in Nat, m <= n
  PROVE  /\ GetMaxSeq(m) \in Nat /\ GetMaxSeq(n) \in Nat
         /\ GetMaxSeq(m) <= GetMaxSeq(n)
<1> DEFINE S(k) == {i \in 1..k : db[i] = "message"}
<1>1. \A k \in Nat : IsFiniteSet(S(k)) /\ Cardinality(S(k)) \in Nat
  <2> SUFFICES ASSUME NEW k \in Nat
               PROVE  IsFiniteSet(S(k)) /\ Cardinality(S(k)) \in Nat
    OBVIOUS
  <2>1. IsFiniteSet(1..k)
    BY FS_Interval, SMT
  <2>2. S(k) \in SUBSET (1..k)
    OBVIOUS
  <2> HIDE DEF S
  <2>3. IsFiniteSet(S(k))
    BY <2>1, <2>2, FS_Subset
  <2> QED  BY <2>3, FS_CardinalityType
<1>2. S(m) \in SUBSET S(n)
  BY SMT
<1> HIDE DEF S
<1>3. Cardinality(S(m)) <= Cardinality(S(n))
  BY <1>1, <1>2, FS_Subset
<1> QED  BY <1>1, <1>3 DEF GetMaxSeq, S

(* A commit leaves what a snapshot holds as it was.                        *)
LEMMA MaxSeqKept ==
  ASSUME NEW n \in Nat, n <= Len(db), Len(db) \in Nat,
         \A i \in 1..Len(db) : db'[i] = db[i]
  PROVE  GetMaxSeq(n)' = GetMaxSeq(n)
<1>1. \A i \in 1..n : i \in 1..Len(db)
  BY SMT
<1>2. {i \in 1..n : db'[i] = "message"} = {i \in 1..n : db[i] = "message"}
  BY <1>1
<1> QED  BY <1>2 DEF GetMaxSeq

-----------------------------------------------------------------------------
(***************************************************************************)
(* Preservation.  What a step leaves alone, conjunct by conjunct.          *)
(***************************************************************************)
(* Snapshots keep their stamps while no one commits, refreshes or acquires.*)
LEMMA SameStamps ==
  ASSUME Stamps, UNCHANGED <<generation, acked, shared, refresher, need, floor>>
  PROVE  Stamps'
BY DEF Stamps, Covers

(* What a stream has seen changes with its own steps only.                 *)
LEMMA SameSeen ==
  ASSUME Seen, fatal => fatal', UNCHANGED <<pc, used, floor>>
  PROVE  Seen'
BY DEF Seen

(* Cursors stay in range while the snapshot's end does not move back.      *)
LEMMA SameInRange ==
  ASSUME Types, InRange, UNCHANGED <<pc, cursor, from>>,
         GetMaxSeq(shared.commits) \in Nat,
         GetMaxSeq(shared.commits)' \in Nat,
         GetMaxSeq(shared.commits) <= GetMaxSeq(shared.commits)'
  PROVE  InRange'
<1>1. ASSUME NEW c \in Subscribers
      PROVE  /\ from'[c] <= cursor'[c]
             /\ pc'[c] \in Started =>
                  cursor'[c] <= GetMaxSeq(shared.commits)' + 1
  <2>1. cursor[c] \in Nat
    BY DEF Types, StreamTypes
  <2>2. PICK m \in Nat, n \in Nat : /\ m = GetMaxSeq(shared.commits)
                                    /\ n = GetMaxSeq(shared.commits)'
    OBVIOUS
  <2>3. from[c] <= cursor[c] /\ (pc[c] \in Started => cursor[c] <= m + 1)
    BY <2>2 DEF InRange
  <2>4. m <= n
    BY <2>2
  <2>5. cursor[c] <= m + 1 => cursor[c] <= n + 1
    BY <2>1, <2>4, SMT
  <2> QED  BY <2>2, <2>3, <2>5
<1> QED  BY <1>1 DEF InRange

(* Streams stand still.                                                    *)
LEMMA SameSent ==
  ASSUME Sent, UNCHANGED <<pc, cursor, from, unsent, delivered>>
  PROVE  Sent'
BY DEF Sent

(* No commit, and no stream fetches or goes on.                            *)
LEMMA SameEntitled ==
  ASSUME Entitled, UNCHANGED <<db, pc, used>>
  PROVE  Entitled'
BY DEF Entitled, Authorized

(* The end of the shared snapshot, as a number.                            *)
LEMMA SharedEnd ==
  ASSUME Types
  PROVE  GetMaxSeq(shared.commits) \in Nat /\ shared.commits \in Nat
<1>1. shared.commits \in Nat
  BY DEF Types, SnapshotTypes
<1>2. PICK n \in Nat : n = shared.commits
  BY <1>1
<1>3. n <= n
  BY SMT
<1> QED  BY <1>1, <1>2, <1>3, MaxSeqGrows

(* FatalStorageError is for good, and tells the handler once.              *)
LEMMA FatalStays ==
  ASSUME Types, Order, SetFatal \/ UNCHANGED failure
  PROVE  /\ fatal => fatal'
         /\ fatal' \in BOOLEAN /\ raised' \in {"no", "notify", "handler"}
         /\ raised' # "no" <=> fatal'
<1>1. /\ fatal \in BOOLEAN /\ raised \in {"no", "notify", "handler"}
      /\ raised # "no" <=> fatal
  BY DEF Types, FailureTypes, Order
<1>2. CASE SetFatal
  BY <1>1, <1>2 DEF SetFatal
<1>3. CASE UNCHANGED failure
  BY <1>1, <1>3 DEF failure
<1> QED  BY <1>2, <1>3

(* CommitBatch writes: snapshots, counters and streams are as before.      *)
LEMMA WriteInv ==
  ASSUME IInv, Write
  PROVE  IInv'
<1>1. Types /\ Order /\ Stamps /\ Seen /\ InRange /\ Entitled /\ Sent
  BY DEF IInv
<1>2. /\ UNCHANGED <<generation, acked, shared, refresher, asleep>>
      /\ UNCHANGED <<pc, cursor, need, observed, used, floor, from, unsent, delivered>>
      /\ ~committing
  BY DEF Write, streams
<1>3. PICK k \in Commits :
        \/ db' = Append(db, k) /\ committing' = TRUE /\ fatal' = fatal
             /\ raised' = raised
        \/ db' \in {db, Append(db, k)} /\ SetFatal /\ committing' = committing
  BY DEF Write, Commits, failure
<1>4. /\ db \in Seq(Commits) /\ Len(db) \in Nat /\ generation \in Nat
      /\ acked \in Nat
  BY <1>1, SMT DEF Types, CoreTypes
<1>5. /\ Append(db, k) \in Seq(Commits) /\ Len(Append(db, k)) = Len(db) + 1
      /\ \A i \in 1..Len(db) : Append(db, k)[i] = db[i]
  BY <1>4, SMT
<1>6. /\ db' \in Seq(Commits) /\ Len(db') \in {Len(db), Len(db) + 1}
      /\ \A i \in 1..Len(db) : db'[i] = db[i]
      /\ committing' => Len(db') = Len(db) + 1
  <2>1. CASE db' = Append(db, k)
    BY <1>4, <1>5, <2>1
  <2>2. CASE db' = db /\ committing' = committing
    BY <1>2, <1>4, <2>2
  <2> QED  BY <1>3, <2>1, <2>2
<1>7. /\ fatal => fatal'
      /\ fatal' \in BOOLEAN /\ raised' \in {"no", "notify", "handler"}
      /\ raised' # "no" <=> fatal'
      /\ committing' \in BOOLEAN
  <2>1. SetFatal \/ UNCHANGED failure
    BY <1>3 DEF failure
  <2>2. committing' \in BOOLEAN
    BY <1>1, <1>3 DEF Types, CoreTypes
  <2> QED  BY <1>1, <2>1, <2>2, FatalStays
<1>8. Types'
  BY <1>1, <1>2, <1>4, <1>6, <1>7 DEF Types, CoreTypes, SnapshotTypes,
         FailureTypes, StreamTypes
<1>9. Order'
  <2>1. /\ generation <= Len(db') /\ (committing' => generation < Len(db'))
        /\ acked <= Len(db')
        /\ \A n \in Nat : n <= Len(db) => n <= Len(db')
    <3>1. PICK l, k2 : l = Len(db) /\ k2 = Len(db') /\ l \in Nat
      BY <1>4
    <3>2. k2 \in {l, l + 1} /\ (committing' => k2 = l + 1)
      BY <1>6, <3>1
    <3>3. generation <= l /\ acked <= l
      BY <1>1, <3>1 DEF Order
    <3> QED  BY <1>4, <3>1, <3>2, <3>3, SMT
  <2>2. shared.commits \in Nat /\ refresher.commits \in Nat
    BY <1>1 DEF Types, SnapshotTypes
  <2> QED  BY <1>1, <1>2, <1>7, <2>1, <2>2 DEF Order
<1>10. GetMaxSeq(shared.commits)' = GetMaxSeq(shared.commits)
  <2>1. PICK n \in Nat : n = shared.commits
    BY <1>1, SharedEnd
  <2>2. n <= Len(db)
    BY <1>1, <2>1 DEF Order
  <2>3. GetMaxSeq(n)' = GetMaxSeq(n)
    BY <1>4, <1>6, <2>2, MaxSeqKept
  <2> QED  BY <1>2, <2>1, <2>3 DEF GetMaxSeq
<1>11. InRange'
  <2>1. \A n \in Nat : n <= n
    BY SMT
  <2> QED  BY <1>1, <1>2, <1>10, <2>1, SharedEnd, SameInRange
<1>12. Entitled'
  <2> SUFFICES ASSUME NEW c \in Subscribers, pc[c] = "write"
               PROVE  used[c] <= Len(db') /\ Authorized(c, used[c])'
    BY <1>2 DEF Entitled, Authorized
  <2>1. used[c] <= Len(db) /\ Authorized(c, used[c])
    BY <1>1 DEF Entitled
  <2>2. PICK n, l, m :
          /\ n \in Nat /\ l \in Nat
          /\ n = used[c] /\ l = Len(db) /\ m = Len(db') /\ n <= l
          /\ m \in {l, l + 1}
    BY <1>1, <1>4, <1>6, <2>1 DEF Types, StreamTypes
  <2>3. n <= m /\ \A i \in 1..n : i \in 1..l
    BY <2>2, SMT
  <2>4. \A i \in 1..n : db'[i] # c
    BY <1>6, <2>1, <2>2, <2>3 DEF Authorized
  <2> QED  BY <1>2, <2>2, <2>3, <2>4 DEF Authorized
<1> QED  BY <1>1, <1>2, <1>7, <1>8, <1>9, <1>11, <1>12, SameStamps, SameSeen,
             SameSent DEF IInv

(* Steps that leave db and the shared snapshot alone leave its end alone.  *)
LEMMA SameEnd ==
  ASSUME IInv, UNCHANGED <<db, shared, pc, cursor, from>>
  PROVE  InRange'
<1>1. GetMaxSeq(shared.commits)' = GetMaxSeq(shared.commits)
  BY DEF GetMaxSeq
<1>2. \A n \in Nat : n <= n
  BY SMT
<1> QED  BY <1>1, <1>2, SharedEnd, SameInRange DEF IInv

(* CommitBatch counts its commit after the write: what earlier snapshots   *)
(* claim, they claim of smaller generations.                               *)
LEMMA CountCommitInv ==
  ASSUME IInv, CountCommit
  PROVE  IInv'
<1>1. Types /\ Order /\ Stamps /\ Seen /\ InRange /\ Entitled /\ Sent
  BY DEF IInv
<1>2. /\ committing /\ committing' = FALSE
      /\ generation' = generation + 1 /\ acked' = Len(db)
      /\ UNCHANGED <<db, shared, refresher, fatal, raised, asleep>>
      /\ UNCHANGED <<pc, cursor, need, observed, used, floor, from, unsent, delivered>>
  BY DEF CountCommit, streams, failure
<1>3. /\ Len(db) \in Nat /\ generation \in Nat /\ acked \in Nat
      /\ shared.generation \in Nat /\ refresher.generation \in Nat
      /\ shared.commits \in Nat
  BY <1>1, SMT DEF Types, CoreTypes, SnapshotTypes
<1>4. /\ generation < Len(db) /\ acked <= Len(db)
      /\ shared.generation <= generation /\ refresher.generation <= generation
  BY <1>1, <1>2 DEF Order
<1>5. /\ generation + 1 \in Nat /\ generation + 1 <= Len(db)
      /\ shared.generation <= generation + 1
      /\ refresher.generation <= generation + 1
      /\ shared.generation # generation + 1
      /\ refresher.generation # generation + 1
      /\ Len(db) <= Len(db)
  BY <1>3, <1>4, SMT
<1>6. Types'
  BY <1>1, <1>2, <1>3, <1>5 DEF Types, CoreTypes, SnapshotTypes,
         FailureTypes, StreamTypes
<1>7. \A c \in Subscribers : need[c] <= generation + 1 /\ floor[c] <= Len(db)
  <2> SUFFICES ASSUME NEW c \in Subscribers
               PROVE  need[c] <= generation + 1 /\ floor[c] <= Len(db)
    OBVIOUS
  <2>1. need[c] \in Nat /\ floor[c] \in Nat
    BY <1>1 DEF Types, StreamTypes
  <2>2. need[c] <= generation /\ floor[c] <= acked
    BY <1>1 DEF Order
  <2> QED  BY <1>3, <1>4, <2>1, <2>2, SMT
<1>8. Order'
  BY <1>1, <1>2, <1>5, <1>7 DEF Order
<1>9. Stamps'
  BY <1>1, <1>2, <1>5 DEF Stamps, Covers
<1> QED  BY <1>1, <1>2, <1>6, <1>8, <1>9, SameEnd, SameSeen, SameEntitled, SameSent
         DEF IInv

(* FatalStorageError wakes everyone.                                       *)
LEMMA FatalNotifyInv ==
  ASSUME IInv, FatalNotify
  PROVE  IInv'
<1>1. Types /\ Order /\ Stamps /\ Seen /\ InRange /\ Entitled /\ Sent
  BY DEF IInv
<1>2. /\ raised = "notify" /\ raised' = "handler" /\ asleep' = {}
      /\ UNCHANGED <<db, committing, generation, acked, shared, refresher, fatal>>
      /\ UNCHANGED <<pc, cursor, need, observed, used, floor, from, unsent, delivered>>
  BY DEF FatalNotify, streams, core
<1>3. Types'
  BY <1>1, <1>2 DEF Types, CoreTypes, SnapshotTypes, FailureTypes, StreamTypes
<1>4. Order'
  BY <1>1, <1>2 DEF Order
<1> QED  BY <1>1, <1>2, <1>3, <1>4, SameEnd, SameStamps, SameSeen, SameEntitled,
             SameSent DEF IInv

(* Cancellations and the stop of the server change no stream by            *)
(* themselves.                                                             *)
LEMMA SameInv ==
  ASSUME IInv, UNCHANGED <<core, shared, refresher, failure, asleep, streams>>
  PROVE  IInv'
<1>1. Types /\ Order /\ Stamps /\ Seen /\ InRange /\ Entitled /\ Sent
  BY DEF IInv
<1>2. /\ UNCHANGED <<db, committing, generation, acked, shared, refresher, fatal>>
      /\ UNCHANGED <<pc, cursor, need, observed, used, floor, from, unsent, delivered>>
      /\ UNCHANGED <<raised, asleep>>
  BY DEF streams, core, failure
<1>3. Types'
  BY <1>1, <1>2 DEF Types, CoreTypes, SnapshotTypes, FailureTypes, StreamTypes
<1>4. Order'
  BY <1>1, <1>2 DEF Order
<1> QED  BY <1>1, <1>2, <1>3, <1>4, SameEnd, SameStamps, SameSeen, SameEntitled,
             SameSent DEF IInv

(* A step of the refresher that has no snapshot in hand afterwards.        *)
LEMMA RefresherInv ==
  ASSUME IInv, UNCHANGED <<core, shared, asleep, streams>>,
         SetFatal \/ UNCHANGED failure,
         NEW l \in {"wait", "create", "raise", "stopped"}, NEW g \in Nat,
         g <= generation,
         refresher' = [refresher EXCEPT !.at = l, !.generation = g]
  PROVE  IInv'
<1>1. Types /\ Order /\ Stamps /\ Seen /\ InRange /\ Entitled /\ Sent
  BY DEF IInv
<1>2. /\ UNCHANGED <<db, committing, generation, acked, shared, asleep>>
      /\ UNCHANGED <<pc, cursor, need, observed, used, floor, from, unsent, delivered>>
  BY DEF core, streams
<1>3. /\ refresher' \in [at : {"wait", "create", "install", "raise", "stopped"},
                         generation : Nat, commits : Nat, ok : BOOLEAN]
      /\ refresher'.generation = g /\ refresher'.at # "install"
  BY <1>1 DEF Types, SnapshotTypes
<1>4. /\ fatal => fatal'
      /\ fatal' \in BOOLEAN /\ raised' \in {"no", "notify", "handler"}
      /\ raised' # "no" <=> fatal'
  BY <1>1, FatalStays
<1>5. Types'
  BY <1>1, <1>2, <1>3, <1>4 DEF Types, CoreTypes, SnapshotTypes, FailureTypes,
         StreamTypes
<1>6. Order'
  BY <1>1, <1>2, <1>3, <1>4 DEF Order
<1>7. Stamps'
  BY <1>1, <1>2, <1>3 DEF Stamps, Covers
<1> QED  BY <1>1, <1>2, <1>4, <1>5, <1>6, <1>7, SameEnd, SameSeen, SameEntitled,
             SameSent DEF IInv

(* The refresher reads commit_generation_ before it takes its snapshot.    *)
LEMMA RefreshTickInv ==
  ASSUME IInv, RefreshTick
  PROVE  IInv'
<1>1. Types /\ Order
  BY DEF IInv
<1>2. /\ UNCHANGED <<core, shared, asleep, streams>> /\ UNCHANGED failure
  BY DEF RefreshTick
<1>3. /\ refresher.generation \in Nat /\ generation \in Nat
      /\ refresher.generation <= generation
  BY <1>1 DEF Types, CoreTypes, SnapshotTypes, Order
<1>4. generation <= generation
  BY <1>3, SMT
<1>5. PICK g, h : g = generation /\ h = refresher.generation
  OBVIOUS
<1>6. \/ refresher' = [refresher EXCEPT !.at = "stopped", !.generation = h]
      \/ refresher' = [refresher EXCEPT !.at = "create", !.generation = g]
  BY <1>1, <1>5 DEF RefreshTick, Types, SnapshotTypes
<1>7. g \in Nat /\ h \in Nat /\ g <= generation /\ h <= generation
  BY <1>3, <1>4, <1>5
<1> QED  BY <1>2, <1>6, <1>7, RefresherInv

(* CreateSnapshot holds every commit that was written: all acknowledged    *)
(* ones.                                                                   *)
LEMMA RefreshCreateInv ==
  ASSUME IInv, RefreshCreate
  PROVE  IInv'
<1>1. Types /\ Order /\ Stamps /\ Seen /\ InRange /\ Entitled /\ Sent
  BY DEF IInv
<1>2. /\ UNCHANGED <<db, committing, generation, acked, shared, asleep>>
      /\ UNCHANGED <<pc, cursor, need, observed, used, floor, from, unsent, delivered>>
      /\ UNCHANGED <<fatal, raised>>
  BY DEF RefreshCreate, core, streams, failure
<1>3. PICK ok \in BOOLEAN :
        refresher' = [refresher EXCEPT !.at = "install", !.commits = Len(db),
                                       !.ok = ok]
  BY DEF RefreshCreate
<1>4. Len(db) \in Nat /\ acked \in Nat /\ acked <= Len(db)
  BY <1>1, SMT DEF Types, CoreTypes, Order
<1>5. PICK n \in Nat : n = Len(db)
  BY <1>4
<1>6. /\ refresher' \in [at : {"wait", "create", "install", "raise", "stopped"},
                         generation : Nat, commits : Nat, ok : BOOLEAN]
      /\ refresher'.generation = refresher.generation
      /\ refresher'.commits = n
  BY <1>1, <1>3, <1>5 DEF Types, SnapshotTypes
<1>7. Types'
  BY <1>1, <1>2, <1>6 DEF Types, CoreTypes, SnapshotTypes, FailureTypes,
         StreamTypes
<1>8. Order'
  <2>1. n <= n
    BY SMT
  <2> QED  BY <1>1, <1>2, <1>5, <1>6, <2>1 DEF Order
<1>9. Stamps'
  <2>1. \A c \in Subscribers : floor[c] <= n
    <3> SUFFICES ASSUME NEW c \in Subscribers  PROVE floor[c] <= n
      OBVIOUS
    <3>1. floor[c] \in Nat /\ floor[c] <= acked
      BY <1>1 DEF Types, StreamTypes, Order
    <3> QED  BY <1>4, <1>5, <3>1, SMT
  <2>2. acked <= n
    BY <1>4, <1>5
  <2> QED  BY <1>1, <1>2, <1>6, <2>1, <2>2 DEF Stamps, Covers
<1> QED  BY <1>1, <1>2, <1>7, <1>8, <1>9, SameEnd, SameSeen, SameEntitled, SameSent
         DEF IInv

(* The new snapshot takes the place of the shared one: it holds no less,   *)
(* and what its generation claims was true when it was taken.              *)
LEMMA RefreshInstallInv ==
  ASSUME IInv, RefreshInstall
  PROVE  IInv'
<1>1. Types /\ Order /\ Stamps /\ Seen /\ InRange /\ Entitled /\ Sent
  BY DEF IInv
<1>2. /\ UNCHANGED <<db, committing, generation, acked>>
      /\ UNCHANGED <<pc, cursor, need, observed, used, floor, from, unsent, delivered>>
      /\ UNCHANGED <<fatal, raised>> /\ refresher.at = "install"
      /\ asleep' \in {asleep, {}}
  BY DEF RefreshInstall, core, streams, failure
<1>3. /\ refresher \in [at : {"wait", "create", "install", "raise", "stopped"},
                        generation : Nat, commits : Nat, ok : BOOLEAN]
      /\ shared \in [commits : Nat, generation : Nat, version : Nat,
                     attempt : Nat, ok : BOOLEAN]
  BY <1>1 DEF Types, SnapshotTypes
<1>4. PICK l \in {"wait", "raise", "stopped"} :
        refresher' = [refresher EXCEPT !.at = l]
  BY DEF RefreshInstall
<1>5. /\ refresher' \in [at : {"wait", "create", "install", "raise", "stopped"},
                         generation : Nat, commits : Nat, ok : BOOLEAN]
      /\ refresher'.generation = refresher.generation
      /\ refresher'.at # "install"
  BY <1>3, <1>4
<1>6. PICK n \in Nat, g \in Nat, v \in Nat, a \in Nat, ok \in BOOLEAN :
        /\ shared' = [commits |-> n, generation |-> g, version |-> v,
                      attempt |-> a, ok |-> ok]
        /\ \/ n = shared.commits /\ g = shared.generation
           \/ n = refresher.commits /\ g = refresher.generation
  <2>1. CASE shared' = shared
    BY <1>3, <2>1
  <2>2. CASE shared' = [shared EXCEPT !.attempt = refresher.generation,
                                      !.ok = FALSE]
    <3>1. shared' = [commits |-> shared.commits,
                     generation |-> shared.generation,
                     version |-> shared.version,
                     attempt |-> refresher.generation, ok |-> FALSE]
      BY <1>3, <2>2
    <3> QED  BY <1>3, <3>1
  <2>3. CASE shared' = [commits |-> refresher.commits,
                        generation |-> refresher.generation,
                        version |-> shared.version + 1,
                        attempt |-> refresher.generation, ok |-> TRUE]
    <3>1. shared.version + 1 \in Nat
      BY <1>3, SMT
    <3> QED  BY <1>3, <2>3, <3>1
  <2> QED  BY <2>1, <2>2, <2>3 DEF RefreshInstall
<1>7. /\ shared' \in [commits : Nat, generation : Nat, version : Nat,
                      attempt : Nat, ok : BOOLEAN]
      /\ shared'.commits = n /\ shared'.generation = g
  BY <1>6
<1>8. Types'
  BY <1>1, <1>2, <1>5, <1>7 DEF Types, CoreTypes, SnapshotTypes, FailureTypes,
         StreamTypes
<1>9. n <= Len(db) /\ g <= generation /\ Covers(g, n)
  BY <1>1, <1>2, <1>6 DEF Order, Stamps
<1>10. Order'
  BY <1>1, <1>2, <1>5, <1>7, <1>9 DEF Order
<1>11. Stamps'
  BY <1>2, <1>5, <1>7, <1>9 DEF Stamps, Covers
<1>12. InRange'
  <2>1. PICK m \in Nat : m = shared.commits
    BY <1>3
  <2>2. m <= n
    <3>1. m <= m
      BY SMT
    <3> QED  BY <1>1, <1>2, <1>6, <2>1, <3>1 DEF Order
  <2>3. /\ GetMaxSeq(m) \in Nat /\ GetMaxSeq(n) \in Nat
        /\ GetMaxSeq(m) <= GetMaxSeq(n)
    BY <2>2, MaxSeqGrows
  <2>4. GetMaxSeq(shared.commits)' = GetMaxSeq(n)
    BY <1>2, <1>7 DEF GetMaxSeq
  <2> QED  BY <1>1, <1>2, <2>1, <2>3, <2>4, SameInRange
<1> QED  BY <1>1, <1>2, <1>8, <1>10, <1>11, <1>12, SameSeen, SameEntitled, SameSent
         DEF IInv

(* A refresh that failed ends in the fatal error.                          *)
LEMMA RefreshFailsInv ==
  ASSUME IInv, RefreshFails
  PROVE  IInv'
<1>1. Types /\ Order
  BY DEF IInv
<1>2. UNCHANGED <<core, shared, asleep, streams>> /\ SetFatal
  BY DEF RefreshFails
<1>3. PICK h \in Nat : h = refresher.generation
  BY <1>1 DEF Types, SnapshotTypes
<1>4. /\ refresher' = [refresher EXCEPT !.at = "stopped", !.generation = h]
      /\ h <= generation
  BY <1>1, <1>3 DEF RefreshFails, Types, SnapshotTypes, Order
<1> QED  BY <1>2, <1>4, RefresherInv

-----------------------------------------------------------------------------
(***************************************************************************)
(* The steps of a stream: what the invariant says of subscriber c.         *)
(***************************************************************************)
Fits(c) ==
  /\ need[c] <= generation /\ floor[c] <= acked
  /\ need[c] <= shared.generation => floor[c] <= shared.commits
  /\ refresher.at = "install" /\ need[c] <= refresher.generation =>
       floor[c] <= refresher.commits
  /\ pc[c] \in {"accepted", "write", "loop", "wait"} =>
       floor[c] <= used[c] \/ fatal
  /\ pc[c] = "write" => used[c] <= Len(db) /\ Authorized(c, used[c])

InSpan(c) ==
  /\ from[c] <= cursor[c]
  /\ pc[c] \in Started => cursor[c] <= GetMaxSeq(shared.commits) + 1
  /\ unsent[c] # << >> <=> pc[c] = "write"
  /\ IF pc[c] = "idle" THEN Begins(delivered[c], Page(from[c], cursor[c]))
                       ELSE delivered[c] \o unsent[c] = Page(from[c], cursor[c])

(* A step that touches no subscriber but c.                                *)
OnlyStream(c) ==
  \A a \in Subscribers \ {c} :
    /\ pc'[a] = pc[a] /\ cursor'[a] = cursor[a] /\ need'[a] = need[a]
    /\ used'[a] = used[a] /\ floor'[a] = floor[a] /\ from'[a] = from[a]
    /\ unsent'[a] = unsent[a] /\ delivered'[a] = delivered[a]

(* The invariant is about each subscriber alone.                           *)
LEMMA EachStream ==
  ASSUME IInv, NEW c \in Subscribers
  PROVE  Fits(c) /\ InSpan(c)
<1>1. Fits(c)
  BY DEF IInv, Order, Stamps, Covers, Seen, Entitled, Fits
<1>2. InSpan(c)
  BY DEF IInv, InRange, Sent, InSpan
<1> QED  BY <1>1, <1>2

(* A step of one stream that keeps its part keeps the invariant.           *)
LEMMA StreamInv ==
  ASSUME IInv, NEW c \in Subscribers, c \notin asleep,
         UNCHANGED <<core, shared, refresher, asleep>>,
         SetFatal \/ UNCHANGED failure,
         StreamTypes', OnlyStream(c), Fits(c)', InSpan(c)'
  PROVE  IInv'
<1>1. Types /\ Order /\ Stamps /\ Seen /\ InRange /\ Entitled /\ Sent
  BY DEF IInv
<1>2. UNCHANGED <<db, committing, generation, acked, shared, refresher, asleep>>
  BY DEF core
<1>3. /\ fatal => fatal'
      /\ fatal' \in BOOLEAN /\ raised' \in {"no", "notify", "handler"}
      /\ raised' # "no" <=> fatal'
  BY <1>1, FatalStays
<1>4. Types'
  BY <1>1, <1>2, <1>3 DEF Types, CoreTypes, SnapshotTypes, FailureTypes
<1>5. ASSUME NEW a \in Subscribers  PROVE Fits(a)' /\ InSpan(a)'
  <2>1. CASE a = c
    BY <2>1
  <2>2. CASE a # c
    <3>1. /\ pc'[a] = pc[a] /\ cursor'[a] = cursor[a] /\ need'[a] = need[a]
          /\ used'[a] = used[a] /\ floor'[a] = floor[a] /\ from'[a] = from[a]
          /\ unsent'[a] = unsent[a] /\ delivered'[a] = delivered[a]
      BY <2>2 DEF OnlyStream
    <3>2. Fits(a) /\ InSpan(a)
      BY EachStream
    <3>3. Fits(a)'
      BY <1>2, <1>3, <3>1, <3>2 DEF Fits, Authorized
    <3>4. GetMaxSeq(shared.commits)' = GetMaxSeq(shared.commits)
      BY <1>2 DEF GetMaxSeq
    <3>5. InSpan(a)'
      BY <3>1, <3>2, <3>4 DEF InSpan
    <3> QED  BY <3>3, <3>5
  <2> QED  BY <2>1, <2>2
<1>6. Order'
  <2>1. \A a \in asleep : pc'[a] \in {"startWait", "fetchWait"}
    BY <1>1 DEF Order, OnlyStream, Types, StreamTypes
  <2> QED  BY <1>1, <1>2, <1>3, <1>5, <2>1 DEF Order, Fits
<1>7. Stamps'
  BY <1>1, <1>2, <1>5 DEF Stamps, Covers, Fits
<1>8. Seen' /\ Entitled'
  BY <1>5 DEF Seen, Entitled, Fits
<1>9. InRange' /\ Sent'
  BY <1>5 DEF InRange, Sent, InSpan
<1> QED  BY <1>4, <1>6, <1>7, <1>8, <1>9 DEF IInv

(* The places of a concatenation.                                          *)
LEMMA JoinAt ==
  ASSUME NEW s \in Seq(Nat), NEW t \in Seq(Nat)
  PROVE  /\ s \o t \in Seq(Nat) /\ Len(s \o t) = Len(s) + Len(t)
         /\ \A i \in 1..Len(s) : (s \o t)[i] = s[i]
         /\ \A i \in 1..(Len(s) + Len(t)) : i \notin 1..Len(s) =>
              i - Len(s) \in 1..Len(t) /\ (s \o t)[i] = t[i - Len(s)]
BY SMTT(30)

(* What was sent of a page is what the page begins with.                   *)
LEMMA PartOfPage ==
  ASSUME NEW s \in Seq(Nat), NEW t \in Seq(Nat)
  PROVE  Begins(s, s \o t)
<1> DEFINE w == s \o t
<1>1. /\ w \in Seq(Nat) /\ Len(w) = Len(s) + Len(t)
      /\ \A i \in 1..Len(s) : w[i] = s[i]
  BY JoinAt
<1> HIDE DEF w
<1>2. /\ s = [i \in 1..Len(s) |-> s[i]]
      /\ SubSeq(w, 1, Len(s)) = [i \in 1..Len(s) |-> w[i]]
      /\ Len(s) \in 0..Len(w)
  BY <1>1, SMT
<1>3. s = SubSeq(w, 1, Len(s))
  BY <1>1, <1>2
<1>4. Begins(s, w)
  BY <1>2, <1>3 DEF Begins
<1> QED  BY <1>4 DEF w

(* A message moves from what is to be written to what was delivered.       *)
LEMMA MoveOne ==
  ASSUME NEW s \in Seq(Nat), NEW t \in Seq(Nat), t # << >>
  PROVE  /\ Append(s, Head(t)) \in Seq(Nat) /\ Tail(t) \in Seq(Nat)
         /\ Append(s, Head(t)) \o Tail(t) = s \o t
<1>1. Len(t) \in Nat /\ Len(t) > 0 /\ Head(t) \in Nat /\ Head(t) = t[1]
  BY SMT
<1>2. PICK h \in Nat, r \in Seq(Nat), u \in Seq(Nat) :
        h = Head(t) /\ r = Tail(t) /\ u = Append(s, h)
  <2>1. Tail(t) \in Seq(Nat) /\ \A h \in Nat : Append(s, h) \in Seq(Nat)
    BY SMT
  <2> QED  BY <1>1, <2>1
<1>3. u \o r = s \o t
  BY <1>1, <1>2, SMTT(60)
<1> QED  BY <1>2, <1>3

(* Nothing is left to write.                                               *)
LEMMA WholePage ==
  ASSUME NEW s \in Seq(Nat)
  PROVE  s \o << >> = s
BY SMT

(* A stream that ends with what it had delivered.                          *)
LEMMA EndInv ==
  ASSUME IInv, NEW c \in Subscribers, c \notin asleep, pc[c] # "idle", End(c),
         UNCHANGED <<core, shared, refresher, asleep, cursor, from, delivered>>,
         SetFatal \/ UNCHANGED failure
  PROVE  IInv'
<1>1. Types /\ Fits(c) /\ InSpan(c)
  BY EachStream DEF IInv
<1>2. UNCHANGED <<db, committing, generation, acked>>
  BY DEF core
<1>3. StreamTypes' /\ OnlyStream(c)
  <2>1. << >> \in Seq(Nat)
    BY SMT
  <2> QED  BY <1>1, <2>1, ZenonT(30)
           DEF End, Clear, Types, StreamTypes, OnlyStream, Labels
<1>4. /\ pc'[c] = "idle" /\ need'[c] = 0 /\ floor'[c] = 0
      /\ unsent'[c] = << >>
  BY <1>1 DEF End, Clear, Types, StreamTypes
<1>5. Fits(c)'
  <2>1. \A n \in Nat : 0 <= n
    BY SMT
  <2>2. /\ generation \in Nat /\ acked \in Nat /\ shared.commits \in Nat
        /\ refresher.commits \in Nat
    BY <1>1 DEF Types, CoreTypes, SnapshotTypes
  <2> QED  BY <1>2, <1>4, <2>1, <2>2 DEF Fits
<1>6. InSpan(c)'
  <2>1. Begins(delivered[c], delivered[c] \o unsent[c])
    BY <1>1, PartOfPage DEF Types, StreamTypes
  <2>2. /\ delivered[c] \o unsent[c] = Page(from[c], cursor[c])
        /\ from[c] <= cursor[c]
    BY <1>1 DEF InSpan
  <2> QED  BY <1>4, <2>1, <2>2 DEF InSpan, Started, Labels
<1> QED  BY <1>3, <1>5, <1>6, StreamInv

(* A stream that goes on to another step of its loop.                      *)
LEMMA GotoInv ==
  ASSUME IInv, NEW c \in Subscribers, c \notin asleep,
         NEW l \in {"loop", "fetch"}, pc[c] \in Started, pc[c] # "write",
         l = "loop" => pc[c] = "wait", Goto(c, l),
         UNCHANGED <<core, shared, refresher, failure, asleep, cursor, from,
                     delivered>>
  PROVE  IInv'
<1>1. Types /\ Fits(c) /\ InSpan(c)
  BY EachStream DEF IInv
<1>2. UNCHANGED <<db, committing, generation, acked>>
  BY DEF core
<1>3. StreamTypes' /\ OnlyStream(c)
  BY <1>1 DEF Goto, Types, StreamTypes, OnlyStream, Labels
<1>4. pc'[c] = l /\ UNCHANGED <<need, floor, used, unsent, fatal>>
  BY <1>1 DEF Goto, Types, StreamTypes, failure
<1>5. Fits(c)'
  BY <1>1, <1>2, <1>4 DEF Fits
<1>6. InSpan(c)'
  <2>1. GetMaxSeq(shared.commits)' = GetMaxSeq(shared.commits)
    BY <1>2 DEF GetMaxSeq
  <2>2. pc[c] # "idle"
    BY DEF Started
  <2> QED  BY <1>1, <1>4, <2>1, <2>2 DEF InSpan
<1> QED  BY <1>3, <1>5, <1>6, StreamInv

(* Only a subscriber that waits sleeps.                                    *)
LEMMA Awake ==
  ASSUME IInv, NEW c \in Subscribers, pc[c] \notin {"startWait", "fetchWait"}
  PROVE  c \notin asleep
BY DEF IInv, Order

(* RunSubscription begins: nothing is delivered yet.                       *)
LEMMA SubscribeInv ==
  ASSUME IInv, NEW c \in Subscribers, Subscribe(c)
  PROVE  IInv'
<1>1. Types /\ Fits(c) /\ InSpan(c)
  BY EachStream DEF IInv
<1>2. /\ UNCHANGED <<db, committing, generation, acked, shared, refresher>>
      /\ UNCHANGED <<core, failure, asleep>>
      /\ pc[c] = "idle" /\ Goto(c, "start")
      /\ delivered' = [delivered EXCEPT ![c] = << >>]
  BY DEF Subscribe, core
<1>3. PICK s \in 0..(MaxCommits + 1) :
        /\ from' = [from EXCEPT ![c] = s] /\ cursor' = [cursor EXCEPT ![c] = s]
  BY DEF Subscribe
<1>4. s \in Nat /\ s <= s
  BY SubscriptionAssumption, SMT
<1>5. << >> \in Seq(Nat)
  BY SMT
<1>6. StreamTypes' /\ OnlyStream(c)
  BY <1>1, <1>2, <1>3, <1>4, <1>5
     DEF Goto, Types, StreamTypes, OnlyStream, Labels
<1>7. /\ pc'[c] = "start" /\ UNCHANGED <<need, floor, unsent>> /\ from'[c] = s
      /\ cursor'[c] = s /\ delivered'[c] = << >>
  BY <1>1, <1>2, <1>3 DEF Goto, Types, StreamTypes
<1>8. Fits(c)'
  BY <1>1, <1>2, <1>7 DEF Fits
<1>9. InSpan(c)'
  <2>1. unsent[c] = << >> /\ << >> \o << >> = << >>
    BY <1>1, <1>2, <1>5, WholePage DEF InSpan
  <2> QED  BY <1>4, <1>7, <2>1, PageEmpty DEF InSpan, Started
<1>10. c \notin asleep
  BY <1>2, Awake
<1> QED  BY <1>2, <1>6, <1>8, <1>9, <1>10, StreamInv

(* AcquireSubscriptionSnapshot: the subscriber asks for the generation     *)
(* that is current, and so for all that is acknowledged.                   *)
LEMMA AcquireInv ==
  ASSUME IInv, NEW c \in Subscribers, NEW at \in {"start", "fetch"},
         NEW then, then = IF at = "start" THEN "startWait" ELSE "fetchWait",
         Acquire(c, at, then)
  PROVE  IInv'
<1>1. Types /\ Fits(c) /\ InSpan(c) /\ Order /\ Stamps
  BY EachStream DEF IInv
<1>2. /\ pc[c] = at /\ UNCHANGED <<db, committing, generation, acked>>
      /\ UNCHANGED <<core, shared, refresher, failure, asleep>>
      /\ UNCHANGED <<cursor, from, delivered>>
  BY DEF Acquire, core
<1>3. c \notin asleep /\ pc[c] # "idle"
  BY <1>2, Awake
<1>4. CASE End(c)
  BY <1>2, <1>3, <1>4, EndInv
<1>5. CASE ~End(c)
  <2>1. /\ pc' = [pc EXCEPT ![c] = then]
        /\ need' = [need EXCEPT ![c] = generation]
        /\ floor' = [floor EXCEPT ![c] = acked]
        /\ UNCHANGED <<observed, used, unsent>>
    BY <1>5 DEF Acquire
  <2>2. generation \in Nat /\ acked \in Nat
    BY <1>1 DEF Types, CoreTypes
  <2>3. StreamTypes' /\ OnlyStream(c)
    BY <1>1, <1>2, <2>1, <2>2 DEF Types, StreamTypes, OnlyStream, Labels
  <2>4. pc'[c] = then /\ need'[c] = generation /\ floor'[c] = acked
    BY <1>1, <2>1 DEF Types, StreamTypes
  <2>5. Fits(c)'
    <3>1. /\ generation <= generation /\ acked <= acked
          /\ generation <= shared.generation => shared.generation = generation
          /\ generation <= refresher.generation =>
               refresher.generation = generation
      <4>1. shared.generation \in Nat /\ refresher.generation \in Nat
        BY <1>1 DEF Types, SnapshotTypes
      <4>2. shared.generation <= generation /\ refresher.generation <= generation
        BY <1>1 DEF Order
      <4> QED  BY <2>2, <4>1, <4>2, SMT
    <3>2. /\ shared.generation = generation => acked <= shared.commits
          /\ refresher.at = "install" /\ refresher.generation = generation =>
               acked <= refresher.commits
      BY <1>1 DEF Stamps, Covers
    <3> QED  BY <1>2, <2>4, <3>1, <3>2 DEF Fits
  <2>6. InSpan(c)'
    <3>1. GetMaxSeq(shared.commits)' = GetMaxSeq(shared.commits)
      BY <1>2 DEF GetMaxSeq
    <3>2. pc'[c] \in Started => pc[c] \in Started
      BY <1>2, <2>4 DEF Started, Labels
    <3>3. pc[c] # "write" /\ pc'[c] \notin {"idle", "write"}
      BY <1>2, <2>4
    <3> QED  BY <1>1, <1>2, <1>3, <2>1, <3>1, <3>2, <3>3 DEF InSpan
  <2> QED  BY <1>2, <1>3, <2>3, <2>5, <2>6, StreamInv
<1> QED  BY <1>4, <1>5

(* WaitForSubscriptionSnapshot blocks: only the set of sleepers changes.   *)
LEMMA SleepInv ==
  ASSUME IInv, NEW c \in Subscribers, Sleep(c)
  PROVE  IInv'
<1>1. Types /\ Order /\ Stamps /\ Seen /\ InRange /\ Entitled /\ Sent
  BY DEF IInv
<1>2. /\ UNCHANGED <<db, committing, generation, acked, shared, refresher>>
      /\ UNCHANGED <<fatal, raised, streams>>
      /\ asleep' = asleep \cup {c} /\ pc[c] \in {"startWait", "fetchWait"}
  BY DEF Sleep, core, failure
<1>3. UNCHANGED <<pc, cursor, need, observed, used, floor, from, unsent, delivered>>
  BY <1>2 DEF streams
<1>4. Types'
  BY <1>1, <1>2, <1>3 DEF Types, CoreTypes, SnapshotTypes, FailureTypes,
         StreamTypes
<1>5. Order'
  BY <1>1, <1>2, <1>3 DEF Order
<1>6. Stamps' /\ Seen' /\ Entitled'
  BY <1>1, <1>2, <1>3, SameEntitled DEF Stamps, Covers, Seen
<1>7. InRange' /\ Sent'
  <2>1. GetMaxSeq(shared.commits)' = GetMaxSeq(shared.commits)
    BY <1>2 DEF GetMaxSeq
  <2> QED  BY <1>1, <1>3, <2>1, SameSent DEF InRange
<1> QED  BY <1>4, <1>5, <1>6, <1>7 DEF IInv

(* AcquireSubscriptionSnapshot returns: the shared snapshot holds what was *)
(* acknowledged when it was called, unless a fatal error woke it up.       *)
LEMMA AcquiredCovers ==
  ASSUME IInv, NEW c \in Subscribers, Ready(c), ~Failed(c)
  PROVE  fatal \/ floor[c] <= shared.commits
<1>1. Types /\ Fits(c)
  BY EachStream DEF IInv
<1>2. need[c] \in Nat /\ shared.generation \in Nat
  BY <1>1 DEF Types, StreamTypes, SnapshotTypes
<1>3. shared.generation >= need[c] => need[c] <= shared.generation
  BY <1>2, SMT
<1> QED  BY <1>1, <1>3 DEF Ready, Fits

(* The number of messages of the shared snapshot is a number.              *)
LEMMA SharedMaxSeq ==
  ASSUME IInv
  PROVE  GetMaxSeq(shared.commits) \in Nat
<1>1. PICK n \in Nat : n = shared.commits
  BY DEF IInv, Types, SnapshotTypes
<1>2. n <= n
  BY SMT
<1>3. GetMaxSeq(n) \in Nat
  BY <1>2, MaxSeqGrows
<1> QED  BY <1>1, <1>3

(* GetSubscriptionMaxSeq: a stream starts with from_seq at most one past   *)
(* the end of its snapshot.                                                *)
LEMMA StartInv ==
  ASSUME IInv, NEW c \in Subscribers, Start(c)
  PROVE  IInv'
<1>1. Types /\ Fits(c) /\ InSpan(c)
  BY EachStream DEF IInv
<1>2. /\ pc[c] = "startWait" /\ c \notin asleep /\ Ready(c)
      /\ UNCHANGED <<core, shared, refresher, asleep, cursor, from, delivered>>
      /\ SetFatal \/ UNCHANGED failure
  BY DEF Start
<1>3. pc[c] # "idle"
  BY <1>2
<1>4. CASE End(c)
  BY <1>2, <1>3, <1>4, EndInv
<1>5. CASE ~End(c)
  <2>1. /\ ~Failed(c) /\ ~(cursor[c] > GetMaxSeq(shared.commits) + 1)
        /\ used' = [used EXCEPT ![c] = shared.commits]
        /\ pc' = [pc EXCEPT ![c] = "accepted"]
        /\ UNCHANGED <<need, observed, floor, unsent, failure>>
    BY <1>5 DEF Start
  <2>2. UNCHANGED <<db, committing, generation, acked, fatal>>
    BY <1>2, <2>1 DEF core, failure
  <2>3. shared.commits \in Nat
    BY <1>1 DEF Types, SnapshotTypes
  <2>4. StreamTypes' /\ OnlyStream(c)
    BY <1>1, <1>2, <2>1, <2>3 DEF Types, StreamTypes, OnlyStream, Labels
  <2>5. pc'[c] = "accepted" /\ used'[c] = shared.commits
    BY <1>1, <2>1 DEF Types, StreamTypes
  <2>6. Fits(c)'
    <3>1. fatal \/ floor[c] <= shared.commits
      BY <1>2, <2>1, AcquiredCovers
    <3> QED  BY <1>1, <1>2, <2>1, <2>2, <2>5, <3>1 DEF Fits
  <2>7. InSpan(c)'
    <3>1. GetMaxSeq(shared.commits)' = GetMaxSeq(shared.commits)
      BY <1>2, <2>2 DEF GetMaxSeq
    <3>2. cursor[c] <= GetMaxSeq(shared.commits) + 1
      <4>1. PICK a \in Nat, b \in Nat :
              a = cursor[c] /\ b = GetMaxSeq(shared.commits)
        BY <1>1, SharedMaxSeq DEF Types, StreamTypes
      <4>2. ~(a > b + 1) => a <= b + 1
        BY SMT
      <4> QED  BY <2>1, <4>1, <4>2
    <3> QED  BY <1>1, <1>2, <1>3, <2>1, <2>5, <3>1, <3>2 DEF InSpan
  <2> QED  BY <1>2, <2>1, <2>4, <2>6, <2>7, StreamInv
<1> QED  BY <1>4, <1>5

(* The head of the loop: the stream ends when it is cancelled.             *)
LEMMA LoopInv ==
  ASSUME IInv, NEW c \in Subscribers, Loop(c)
  PROVE  IInv'
<1>1. /\ pc[c] \in Started /\ pc[c] \notin {"idle", "write"}
      /\ UNCHANGED <<core, shared, refresher, failure, asleep, cursor, from,
                     delivered>>
      /\ End(c) \/ Goto(c, "fetch")
  BY DEF Loop, Started, Labels
<1>2. c \notin asleep
  BY Awake DEF Loop
<1> QED  BY <1>1, <1>2, EndInv, GotoInv

(* The wait for a newer snapshot ends in the loop or with the stream.      *)
LEMMA WaitInv ==
  ASSUME IInv, NEW c \in Subscribers, Wait(c)
  PROVE  IInv'
<1>1. /\ pc[c] \in Started /\ pc[c] \notin {"idle", "write"}
      /\ UNCHANGED <<core, shared, refresher, failure, asleep, cursor, from,
                     delivered>>
      /\ End(c) \/ Goto(c, "loop")
  BY DEF Wait, Started, Labels
<1>2. c \notin asleep /\ pc[c] = "wait"
  BY Awake DEF Wait
<1> QED  BY <1>1, <1>2, EndInv, GotoInv

(* A function keeps its type when it is updated with a value of the type.  *)
LEMMA PutTyped ==
  ASSUME NEW S, NEW T, NEW F \in [S -> T], NEW c \in S, NEW v \in T
  PROVE  [F EXCEPT ![c] = v] \in [S -> T]
OBVIOUS

(* What a batch and a write put into the state of a stream, and what they  *)
(* leave there.                                                            *)
Puts(c, l, z, r, d, u, o) ==
  /\ l \in Labels /\ z \in Nat /\ r \in Seq(Nat) /\ d \in Seq(Nat)
  /\ u \in Nat /\ o \in Nat
  /\ pc' = [pc EXCEPT ![c] = l] /\ cursor' = [cursor EXCEPT ![c] = z]
  /\ unsent' = [unsent EXCEPT ![c] = r]
  /\ delivered' = [delivered EXCEPT ![c] = d]
  /\ used' = [used EXCEPT ![c] = u] /\ observed' = [observed EXCEPT ![c] = o]
  /\ UNCHANGED <<asleep, need, floor, from>>

Holds(c, l, z, r, d, u) ==
  /\ pc'[c] = l /\ cursor'[c] = z /\ unsent'[c] = r /\ delivered'[c] = d
  /\ used'[c] = u

(* A batch or a write keeps the types and touches one stream only.         *)
LEMMA WritesTyped ==
  ASSUME IInv, NEW c \in Subscribers, NEW l, NEW z, NEW r, NEW d, NEW u, NEW o,
         Puts(c, l, z, r, d, u, o)
  PROVE  StreamTypes' /\ OnlyStream(c) /\ Holds(c, l, z, r, d, u)
<1> USE DEF Puts
<1>1. StreamTypes
  BY DEF IInv, Types
<1>2. PICK P \in [Subscribers -> Labels], C \in [Subscribers -> Nat],
           R \in [Subscribers -> Seq(Nat)], D \in [Subscribers -> Seq(Nat)],
           U \in [Subscribers -> Nat], O \in [Subscribers -> Nat] :
        /\ P = pc /\ C = cursor /\ R = unsent /\ D = delivered /\ U = used
        /\ O = observed
  BY <1>1 DEF StreamTypes
<1>3. /\ pc' \in [Subscribers -> Labels] /\ cursor' \in [Subscribers -> Nat]
      /\ unsent' \in [Subscribers -> Seq(Nat)]
      /\ delivered' \in [Subscribers -> Seq(Nat)]
      /\ used' \in [Subscribers -> Nat] /\ observed' \in [Subscribers -> Nat]
  BY <1>2, PutTyped
<1>4. StreamTypes'
  BY <1>1, <1>3 DEF StreamTypes
<1>5. OnlyStream(c)
  BY <1>2, ZenonT(30) DEF OnlyStream
<1>6. Holds(c, l, z, r, d, u)
  BY <1>2 DEF Holds
<1> QED  BY <1>4, <1>5, <1>6

(* FetchSubscriptionBatch continues the page; nothing of it is written yet.*)
LEMMA BatchInv ==
  ASSUME IInv, NEW c \in Subscribers, c \notin asleep, pc[c] = "fetchWait",
         UNCHANGED <<core, shared, refresher, asleep, from, delivered, failure>>,
         fatal \/ floor[c] <= shared.commits, Authorized(c, shared.commits),
         NEW batch \in FetchVisible(cursor[c], GetMaxSeq(shared.commits)),
         cursor' = [cursor EXCEPT ![c] = batch.next],
         unsent' = [unsent EXCEPT ![c] = batch.messages],
         used' = [used EXCEPT ![c] = shared.commits],
         observed' = [observed EXCEPT ![c] = shared.version],
         NEW l \in {"write", "wait", "loop"}, pc' = [pc EXCEPT ![c] = l],
         batch.messages # << >> <=> l = "write",
         UNCHANGED <<need, floor>>
  PROVE  IInv'
<1>1. Types /\ Order /\ Fits(c) /\ InSpan(c)
  BY EachStream DEF IInv
<1>2. UNCHANGED <<db, committing, generation, acked, fatal>>
  BY DEF core, failure
<1>3. PICK f \in Nat, a \in Nat, max \in Nat, d \in Seq(Nat) :
        /\ f = from[c] /\ a = cursor[c] /\ max = GetMaxSeq(shared.commits)
        /\ d = delivered[c]
  BY <1>1, SharedMaxSeq DEF Types, StreamTypes
<1>4. f <= a /\ a <= max + 1 /\ d = Page(f, a)
  BY <1>1, <1>3, WholePage DEF InSpan, Started, Labels
<1>5. batch \in FetchVisible(a, max)
  BY <1>3
<1>6. /\ batch.next \in Nat /\ a <= batch.next /\ batch.next <= max + 1
      /\ batch.messages = Page(a, batch.next)
  BY <1>4, <1>5, FetchesPage
<1>7. PICK z \in Nat : z = batch.next
  BY <1>6
<1>8. a <= z /\ z <= max + 1 /\ batch.messages = Page(a, z)
  BY <1>6, <1>7
<1>9. f <= z /\ a <= a
  BY <1>4, <1>8, SMT
<1>10. Page(f, z) = Page(f, a) \o Page(a, z) /\ Page(a, z) \in Seq(Nat)
  BY <1>4, <1>8, <1>9, PageJoin, ZenonT(30)
<1>11. PICK r \in Seq(Nat) : r = Page(a, z) /\ r = batch.messages
  BY <1>8, <1>10
<1>12. PICK u \in Nat, o \in Nat : u = shared.commits /\ o = shared.version
  BY <1>1 DEF Types, SnapshotTypes
<1>13. /\ StreamTypes' /\ OnlyStream(c)
       /\ pc'[c] = l /\ cursor'[c] = z /\ unsent'[c] = r /\ delivered'[c] = d
       /\ used'[c] = u
  <2>1. delivered' = [delivered EXCEPT ![c] = d] /\ l \in Labels
    BY <1>1, <1>3 DEF Types, StreamTypes, Labels
  <2>2. Puts(c, l, z, r, d, u, o)
    BY <1>7, <1>11, <1>12, <2>1 DEF Puts
  <2> QED  BY <2>2, WritesTyped DEF Holds
<1>14. Fits(c)'
  <2>1. u <= Len(db) /\ Authorized(c, u)' /\ (floor[c] <= u \/ fatal)
    BY <1>1, <1>2, <1>12 DEF Order, Authorized
  <2> QED  BY <1>1, <1>2, <1>13, <2>1 DEF Fits
<1>15. InSpan(c)'
  <2>1. GetMaxSeq(shared.commits)' = max /\ from'[c] = f
    BY <1>2, <1>3 DEF GetMaxSeq
  <2> QED  BY <1>4, <1>8, <1>9, <1>10, <1>11, <1>13, <2>1 DEF InSpan
<1> QED  BY <1>13, <1>14, <1>15, StreamInv

(* FetchSubscriptionBatch and the head of the loop over its messages.      *)
LEMMA FetchBatchInv ==
  ASSUME IInv, NEW c \in Subscribers, FetchBatch(c)
  PROVE  IInv'
<1>1. /\ pc[c] = "fetchWait" /\ c \notin asleep /\ Ready(c)
      /\ UNCHANGED <<core, shared, refresher, asleep, from, delivered>>
      /\ SetFatal \/ UNCHANGED failure
      /\ Failed(c) \/ UNCHANGED failure
  BY DEF FetchBatch
<1>2. CASE Failed(c) \/ ~Authorized(c, shared.commits)
  <2>1. End(c) /\ UNCHANGED cursor /\ pc[c] # "idle"
    BY <1>1, <1>2 DEF FetchBatch
  <2> QED  BY <1>1, <2>1, EndInv
<1>3. CASE ~(Failed(c) \/ ~Authorized(c, shared.commits))
  <2>1. fatal \/ floor[c] <= shared.commits
    BY <1>1, <1>3, AcquiredCovers
  <2>2. PICK batch \in FetchVisible(cursor[c], GetMaxSeq(shared.commits)) :
          /\ cursor' = [cursor EXCEPT ![c] = batch.next]
          /\ WriteRest(c, batch.messages, batch.next,
                       GetMaxSeq(shared.commits))
          /\ used' = [used EXCEPT ![c] = shared.commits]
          /\ observed' = [observed EXCEPT ![c] = shared.version]
          /\ UNCHANGED <<need, floor>>
    BY <1>3 DEF FetchBatch
  <2>3. PICK l \in {"write", "wait", "loop"} :
          /\ pc' = [pc EXCEPT ![c] = l]
          /\ batch.messages # << >> <=> l = "write"
          /\ unsent' = [unsent EXCEPT ![c] = batch.messages]
    BY <2>2 DEF WriteRest
  <2> QED  BY <1>1, <1>3, <2>1, <2>2, <2>3, BatchInv
<1> QED  BY <1>2, <1>3

(* Write returns true: a message moves from the rest of the batch to what  *)
(* was delivered.                                                          *)
LEMMA SendInv ==
  ASSUME IInv, NEW c \in Subscribers, Send(c)
  PROVE  IInv'
<1>1. Types /\ Fits(c) /\ InSpan(c)
  BY EachStream DEF IInv
<1>2. /\ pc[c] = "write" /\ UNCHANGED <<core, shared, refresher, failure, asleep>>
      /\ UNCHANGED <<need, observed, used, floor, cursor, from>>
  BY DEF Send
<1>3. UNCHANGED <<db, committing, generation, acked, fatal>>
  BY <1>2 DEF core, failure
<1>4. PICK s \in Seq(Nat), t \in Seq(Nat) :
        /\ s = delivered[c] /\ t = unsent[c] /\ t # << >>
        /\ s \o t = Page(from[c], cursor[c])
  BY <1>1, <1>2 DEF Types, StreamTypes, InSpan
<1>5. PICK d \in Seq(Nat), r \in Seq(Nat) :
        d = Append(s, Head(t)) /\ r = Tail(t) /\ d \o r = s \o t
  <2>1. /\ Append(s, Head(t)) \in Seq(Nat) /\ Tail(t) \in Seq(Nat)
        /\ Append(s, Head(t)) \o Tail(t) = s \o t
    BY <1>4, MoveOne
  <2> QED  BY <2>1
<1>6. /\ delivered' = [delivered EXCEPT ![c] = d]
      /\ WriteRest(c, r, cursor[c], GetMaxSeq(used[c]))
  BY <1>1, <1>4, <1>5 DEF Send, Types, StreamTypes
<1>7. PICK l \in {"write", "wait", "loop"} :
        /\ pc' = [pc EXCEPT ![c] = l] /\ (r # << >> <=> l = "write")
        /\ unsent' = [unsent EXCEPT ![c] = r]
  BY <1>6 DEF WriteRest
<1>8. PICK z \in Nat, u \in Nat, o \in Nat :
        z = cursor[c] /\ u = used[c] /\ o = observed[c]
  BY <1>1 DEF Types, StreamTypes
<1>9. /\ StreamTypes' /\ OnlyStream(c)
      /\ pc'[c] = l /\ unsent'[c] = r /\ delivered'[c] = d
  <2>1. /\ cursor' = [cursor EXCEPT ![c] = z] /\ used' = [used EXCEPT ![c] = u]
        /\ observed' = [observed EXCEPT ![c] = o] /\ l \in Labels
    BY <1>1, <1>2, <1>8 DEF Types, StreamTypes, Labels
  <2>2. Puts(c, l, z, r, d, u, o)
    BY <1>2, <1>5, <1>6, <1>7, <1>8, <2>1 DEF Puts
  <2> QED  BY <2>2, WritesTyped DEF Holds
<1>10. Fits(c)'
  BY <1>1, <1>2, <1>3, <1>9 DEF Fits, Authorized
<1>11. InSpan(c)'
  <2>1. GetMaxSeq(shared.commits)' = GetMaxSeq(shared.commits)
    BY <1>2, <1>3 DEF GetMaxSeq
  <2>2. pc[c] \in Started
    BY <1>2 DEF Started, Labels
  <2> QED  BY <1>1, <1>2, <1>4, <1>5, <1>7, <1>9, <2>1, <2>2 DEF InSpan
<1>12. c \notin asleep
  BY <1>2, Awake
<1> QED  BY <1>2, <1>9, <1>10, <1>11, <1>12, StreamInv

(* Write returns false: the stream ends with what it had delivered.        *)
LEMMA SendFailsInv ==
  ASSUME IInv, NEW c \in Subscribers, SendFails(c)
  PROVE  IInv'
<1>1. c \notin asleep
  BY Awake DEF SendFails
<1> QED  BY <1>1, EndInv DEF SendFails

-----------------------------------------------------------------------------
(* The initial state: no commit, a first empty snapshot, no stream.        *)
LEMMA InitInv == Init => IInv
<1> SUFFICES ASSUME Init PROVE IInv
  OBVIOUS
<1>1. 0 \in Nat /\ 1 \in Nat /\ 0 <= 0 /\ << >> \in Seq(Commits)
      /\ << >> \in Seq(Nat) /\ Len(<< >>) = 0
  BY SMT
<1>2. Types
  <2>1. CoreTypes /\ FailureTypes
    BY <1>1 DEF Init, CoreTypes, FailureTypes
  <2>2. SnapshotTypes
    BY <1>1 DEF Init, SnapshotTypes
  <2>3. StreamTypes
    BY <1>1 DEF Init, StreamTypes, Labels
  <2> QED  BY <2>1, <2>2, <2>3 DEF Types
<1>3. Order
  BY <1>1 DEF Init, Order
<1>4. Stamps /\ Seen /\ Entitled
  BY <1>1, SMT DEF Init, Stamps, Covers, Seen, Entitled
<1>5. InRange
  BY <1>1, SMT DEF Init, InRange, Started
<1>6. Sent
  <2>1. Page(0, 0) = << >> /\ << >> \o << >> = << >>
    BY <1>1, PageEmpty, WholePage
  <2>2. Begins(<< >>, << >>)
    BY <1>1, <2>1, PartOfPage
  <2> QED  BY <2>1, <2>2 DEF Init, Sent
<1> QED  BY <1>2, <1>3, <1>4, <1>5, <1>6 DEF IInv

(* Every step of the commits, the refresher and the streams keeps the      *)
(* invariant.                                                              *)
LEMMA NextInv == IInv /\ [Next]_vars => IInv'
<1> SUFFICES ASSUME IInv, [Next]_vars PROVE IInv'
  OBVIOUS
<1>1. CASE UNCHANGED vars
  <2>1. UNCHANGED <<core, shared, refresher, failure, asleep, streams>>
    BY <1>1 DEF vars, core, failure, streams
  <2> QED  BY <2>1, SameInv
<1>2. CASE Write
  BY <1>2, WriteInv
<1>3. CASE CountCommit
  BY <1>3, CountCommitInv
<1>4. CASE FatalNotify
  BY <1>4, FatalNotifyInv
<1>5. CASE StopSubscriptions
  BY <1>5, SameInv DEF StopSubscriptions
<1>6. CASE Refresh
  BY <1>6, RefreshTickInv, RefreshCreateInv, RefreshInstallInv, RefreshFailsInv
     DEF Refresh
<1>7. ASSUME NEW c \in Subscribers,
             Subscribe(c) \/ StreamStep(c) \/ WriteStep(c) \/ Cancel(c)
      PROVE  IInv'
  <2>1. CASE Subscribe(c)
    BY <2>1, SubscribeInv
  <2>2. CASE Cancel(c)
    BY <2>2, SameInv DEF Cancel
  <2>3. CASE Acquire(c, "start", "startWait")
    BY <2>3, AcquireInv
  <2>4. CASE Acquire(c, "fetch", "fetchWait")
    BY <2>4, AcquireInv
  <2>5. CASE Sleep(c)
    BY <2>5, SleepInv
  <2>6. CASE Start(c)
    BY <2>6, StartInv
  <2>7. CASE Loop(c)
    BY <2>7, LoopInv
  <2>8. CASE FetchBatch(c)
    BY <2>8, FetchBatchInv
  <2>9. CASE Wait(c)
    BY <2>9, WaitInv
  <2>10. CASE Send(c)
    BY <2>10, SendInv
  <2>11. CASE SendFails(c)
    BY <2>11, SendFailsInv
  <2> QED  BY <1>7, <2>1, <2>2, <2>3, <2>4, <2>5, <2>6, <2>7, <2>8, <2>9,
               <2>10, <2>11 DEF StreamStep, WriteStep
<1> QED  BY <1>1, <1>2, <1>3, <1>4, <1>5, <1>6, <1>7 DEF Next

(* The inductive invariant holds of the commits, the shared snapshot and   *)
(* all streams.                                                            *)
THEOREM StreamsAreSafe == Spec => []IInv
BY InitInv, NextInv, PTL DEF Spec

(* Whatever pages, waits and refreshes come in between, every stream       *)
(* delivers the visible messages from from_seq on, each once, in order,    *)
(* without a gap (RunSubscription, FetchVisible).                          *)
THEOREM StreamsDeliverInOrder == Spec => []DeliversInOrder
<1>1. ASSUME IInv PROVE DeliversInOrder
  <2> SUFFICES ASSUME NEW c \in Subscribers
               PROVE  LET all == Page(from[c], cursor[c])
                      IN  IF pc[c] \in {"write", "idle"}
                          THEN Begins(delivered[c], all)
                          ELSE delivered[c] = all
    BY DEF DeliversInOrder
  <2>1. /\ delivered[c] \in Seq(Nat) /\ unsent[c] \in Seq(Nat)
        /\ unsent[c] # << >> <=> pc[c] = "write"
        /\ IF pc[c] = "idle"
           THEN Begins(delivered[c], Page(from[c], cursor[c]))
           ELSE delivered[c] \o unsent[c] = Page(from[c], cursor[c])
    BY <1>1 DEF IInv, Types, StreamTypes, Sent
  <2>2. /\ Begins(delivered[c], delivered[c] \o unsent[c])
        /\ delivered[c] \o << >> = delivered[c]
    BY <2>1, PartOfPage, WholePage
  <2> QED  BY <2>1, <2>2
<1> QED  BY <1>1, StreamsAreSafe, PTL

(* At its start and in every batch a subscription sees the commits that    *)
(* were acknowledged before it asked (AcquireSubscriptionSnapshot,         *)
(* RefreshSubscriptionSnapshots, CommitBatch).                             *)
THEOREM SubscribersSeePriorCommits == Spec => []SeesPriorCommits
<1>1. ASSUME IInv PROVE SeesPriorCommits
  <2>1. Types /\ Order /\ Seen
    BY <1>1 DEF IInv
  <2>2. TypeOK
    BY <2>1 DEF Types, CoreTypes, SnapshotTypes, FailureTypes, Order, TypeOK,
                Commits
  <2>3. ASSUME NEW c \in Subscribers,
               pc[c] \in {"accepted", "write", "loop", "wait"}
        PROVE  used[c] >= floor[c] \/ fatal
    <3>1. used[c] \in Nat /\ floor[c] \in Nat
      BY <2>1 DEF Types, StreamTypes
    <3>2. floor[c] <= used[c] => used[c] >= floor[c]
      BY <3>1, SMT
    <3> QED  BY <2>1, <2>3, <3>2 DEF Seen
  <2> QED  BY <2>2, <2>3 DEF SeesPriorCommits
<1> QED  BY <1>1, StreamsAreSafe, PTL

(* What a step of a stream may deliver to its subscriber.                  *)
LEMMA DeliversUnderToken ==
  ASSUME IInv, NEW c \in Subscribers, Next,
         Len(delivered'[c]) > Len(delivered[c]), ~fatal
  PROVE  \A i \in 1..floor[c] : db[i] # c
<1>1. PICK n \in Nat : n = Len(delivered[c])
  <2>1. PICK s \in Seq(Nat) : s = delivered[c]
    BY DEF IInv, Types, StreamTypes
  <2>2. Len(s) \in Nat
    BY SMT
  <2> QED  BY <2>1, <2>2
<1>2. ~(n > n) /\ ~(0 > n) /\ Len(<< >>) = 0
  BY SMT
<1>3. delivered'[c] # delivered[c] /\ delivered'[c] # << >>
  BY <1>1, <1>2
<1>4. ~UNCHANGED delivered
  BY <1>3
<1>5. PICK a \in Subscribers : Subscribe(a) \/ Send(a)
  BY <1>4 DEF Next, Write, CountCommit, FatalNotify, StopSubscriptions, Refresh,
     RefreshTick, RefreshCreate, RefreshInstall, RefreshFails, StreamStep,
     Acquire, Sleep, Start, Loop, FetchBatch, Wait, WriteStep, SendFails, Cancel,
     streams
<1>6. Types /\ Seen /\ Entitled
  BY DEF IInv
<1>7. ~Subscribe(a)
  BY <1>3, <1>6 DEF Subscribe, Types, StreamTypes
<1>8. PICK s : delivered' = [delivered EXCEPT ![a] = s]
  BY <1>5, <1>7 DEF Send
<1>9. a = c
  BY <1>3, <1>6, <1>8 DEF Types, StreamTypes
<1>10. pc[c] = "write"
  BY <1>5, <1>7, <1>9 DEF Send
<1>11. PICK f \in Nat, k \in Nat : f = floor[c] /\ k = used[c] /\ f <= k
  BY <1>6, <1>10 DEF Types, StreamTypes, Seen
<1>12. \A i \in 1..f : i \in 1..k
  BY <1>11, SMT
<1> QED  BY <1>6, <1>10, <1>11, <1>12 DEF Entitled, Authorized

(* A batch requested after a DeleteToken was acknowledged delivers nothing *)
(* under that token, unless the server has met a fatal error meanwhile     *)
(* (FetchSubscriptionBatch authenticates on the snapshot it acquired).     *)
THEOREM RevokedStreamsGetNothing == Spec => NothingAfterRevocation
<1> DEFINE Kept == \A c \in Subscribers :
             Len(delivered'[c]) > Len(delivered[c]) /\ ~fatal =>
               \A i \in 1..floor[c] : db[i] # c
<1>1. IInv /\ Next => Kept
  BY DeliversUnderToken
<1>2. IInv /\ [Next]_vars => [Kept]_vars
  BY <1>1
<1> QED  BY <1>2, StreamsAreSafe, PTL DEF Spec, NothingAfterRevocation

=============================================================================
