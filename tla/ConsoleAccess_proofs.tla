-------------------------- MODULE ConsoleAccess_proofs -------------------------
(***************************************************************************)
(* Proofs about ConsoleAccess for any budget, window, ticket lifetime,     *)
(* transit time and clock skew within the assumptions of the module.       *)
(*                                                                         *)
(* The limiter counts a request by the clock it read, up to Lag ticks      *)
(* before it is let through.  So what was let through in the last k ticks  *)
(* is in the window's last k + Lag, which the next request still finds.    *)
(* A ticket and the request that carries it age together.                  *)
(***************************************************************************)
EXTENDS ConsoleAccess, Integers, SequenceTheorems, WellFoundedInduction, TLAPS

HookState ==
    [pc : {"none", "new", "ticket", "opening", "open", "waiting", "gone"}, live : BOOLEAN,
     timer : 0..Retry, age : 0..Transit, ticket : Tickets \cup {None}]
ClickState ==
    [pc : {"idle", "ticket", "posting"}, age : 0..Transit, ticket : Tickets \cup {None}]
Asked == [pc : {"asked"}, age : 0..Transit, auth : BOOLEAN]
Answer == [pc : {"answer"}, age : 0..Transit, ticket : Tickets \cup {None}]

LimiterTyped ==
    /\ <<mode, backend>> \in Deployments
    /\ window \in [Ages -> Nat] /\ served \in [1..Window -> Nat]
    /\ expiry \in 0..Window

PageTyped ==
    /\ gate \in {"checking", "login", "console"} /\ session \in BOOLEAN
    /\ cached \in Tickets \cup {None}
    /\ inflight = None \/ inflight \in Asked \/ inflight \in Answer
    /\ hook \in [Hooks -> HookState]
    /\ click \in ClickState

BoundsTyped ==
    clicks \in 0..MaxClicks /\ others \in 0..MaxOthers /\ faults \in 0..MaxFaults

\* A request r that carries a ticket will arrive before the ticket expires.
InTime(r) == r.ticket \in Tickets /\ r.ticket.age + Transit < TTL + r.age

\* A run of the socket effect.
HookInv(s) ==
    /\ s.pc \in {"opening", "open"} => s.live
    /\ s.pc = "opening" => InTime(s)

\* A ticket on its way to the page is no older than its answer.
AnswerInv ==
    inflight # None /\ inflight \in Answer /\ inflight.ticket # None =>
        inflight.ticket.age <= inflight.age

PageInv ==
    /\ PageTyped
    /\ \A h \in Hooks : HookInv(hook[h])
    /\ click.pc = "posting" => InTime(click)
    /\ AnswerInv

\* How far a request's stamp may lie behind the moment it is let through.
Delay == IF backend = "memory" THEN 0 ELSE Lag

\* The sum of the first n entries of s.
Prefix(s, n) ==
    LET sum[i \in 0..n] == IF i = 0 THEN 0 ELSE s[i] + sum[i - 1]
    IN  sum[n]

\* f holds the sums of the first entries of s.
Sums(f, s, n) == f = [i \in 0..n |-> IF i = 0 THEN 0 ELSE s[i] + f[i - 1]]

\* What was let through is in the window, and the window outlives it.
LimiterInv ==
    /\ LimiterTyped
    /\ backend = "memory" => expiry = 0
    /\ backend = "redis" => \A i \in 1..Window : served[i] > 0 => Window < i + expiry
    /\ \A k \in 0..Window - Delay : Prefix(served, k) <= Prefix(window, k + Delay)
    /\ Prefix(served, Window - Delay) <= Budget

CInv == LimiterInv /\ PageInv /\ BoundsTyped

-----------------------------------------------------------------------------
(* Sums of prefixes.  Each fact is proved by looking at the least length    *)
(* for which it would fail.                                                *)

\* A set of naturals has a least member.
LEMMA Least ==
  ASSUME NEW S \in SUBSET Nat, S # {}
  PROVE  \E x \in S : \A y \in S : x <= y
  <1>1. IsWellFoundedOn(OpToRel(<, Nat), Nat)
    BY NatLessThanWellFounded
  <1>2. PICK x \in S : \A y \in S : ~(<<y, x>> \in OpToRel(<, Nat))
    BY <1>1, WFMin
  <1>3. \A y \in S : ~(y < x)
    BY <1>2 DEF OpToRel
  <1> QED
    BY <1>3

\* Prefix is the last of the sums.
LEMMA PrefixDef ==
  ASSUME NEW s, NEW n
  PROVE  Prefix(s, n) = (CHOOSE f : Sums(f, s, n))[n]
  BY DEF Prefix, Sums

\* Total, which the limiter compares with its budget, is the longest prefix sum.
LEMMA TotalIsPrefix ==
  ASSUME NEW s
  PROVE  Total(s) = Prefix(s, Len(s))
  BY DEF Total, Prefix

\* The sums exist.
LEMMA SumsExist ==
  ASSUME NEW s, NEW n \in Nat
  PROVE  \E f : Sums(f, s, n)
  <1> DEFINE Bad == {m \in Nat : ~ \E f : Sums(f, s, m)}
  <1>1. SUFFICES ASSUME Bad # {} PROVE FALSE
    OBVIOUS
  <1>2. PICK x \in Bad : \A y \in Bad : x <= y
    <2>1. Bad \in SUBSET Nat
      OBVIOUS
    <2> HIDE DEF Bad
    <2> QED
      BY <1>1, <2>1, Least
  <1>3. x \in Nat /\ ~ \E f : Sums(f, s, x)
    BY <1>2
  <1>4. x # 0
    <2>1. Sums([i \in 0..0 |-> 0], s, 0)
      BY DEF Sums
    <2> QED
      BY <1>3, <2>1
  <1>5. x - 1 \in Nat /\ x - 1 \notin Bad
    BY <1>2, <1>3, <1>4
  <1>6. PICK g : Sums(g, s, x - 1)
    BY <1>5
  <1> HIDE DEF Bad
  <1> DEFINE f == [i \in 0..x |-> IF i = x THEN s[x] + g[x - 1] ELSE g[i]]
  <1>7. ASSUME NEW i \in 0..x
        PROVE  f[i] = IF i = 0 THEN 0 ELSE s[i] + f[i - 1]
    <2>1. CASE i = x
      <3>1. x - 1 \in 0..x /\ x - 1 # x
        BY <1>3, <1>4
      <3> QED
        BY <1>3, <1>4, <2>1, <3>1
    <2>2. CASE i # x /\ i # 0
      <3>1. i \in 0..x - 1 /\ i - 1 \in 0..x /\ i - 1 # x
        BY <1>3, <1>4, <2>2
      <3>2. g[i] = s[i] + g[i - 1]
        BY <1>6, <2>2, <3>1 DEF Sums
      <3> QED
        BY <2>2, <3>1, <3>2
    <2>3. CASE i # x /\ i = 0
      <3>1. 0 \in 0..x - 1
        BY <1>3, <1>4
      <3>2. g[0] = 0
        BY <1>6, <3>1 DEF Sums
      <3> QED
        BY <2>3, <3>2
    <2> QED
      BY <2>1, <2>2, <2>3
  <1>8. Sums(f, s, x)
    <2>1. f = [i \in 0..x |-> f[i]]
      OBVIOUS
    <2> HIDE DEF f
    <2> QED
      BY <1>7, <2>1 DEF Sums
  <1> QED
    BY <1>3, <1>8

\* The sums of s and of t agree as far as s and t do.
LEMMA SumsAgree ==
  ASSUME NEW s, NEW t, NEW f, NEW g, NEW n \in Nat, NEW m \in Nat, NEW k \in Nat,
         Sums(f, s, n), Sums(g, t, m), k <= n, k <= m,
         \A i \in 1..k : s[i] = t[i]
  PROVE  f[k] = g[k]
  <1> DEFINE Bad == {j \in 0..k : f[j] # g[j]}
  <1>1. SUFFICES ASSUME Bad # {} PROVE FALSE
    OBVIOUS
  <1>2. PICK x \in Bad : \A y \in Bad : x <= y
    <2>1. Bad \in SUBSET Nat
      OBVIOUS
    <2> HIDE DEF Bad
    <2> QED
      BY <1>1, <2>1, Least
  <1>3. x \in 0..k /\ f[x] # g[x] /\ x \in 0..n /\ x \in 0..m
    BY <1>2
  <1>4. x # 0
    BY <1>3 DEF Sums
  <1>5. x - 1 \in 0..k /\ x - 1 \notin Bad /\ x \in 1..k
    BY <1>2, <1>3, <1>4
  <1>6. f[x - 1] = g[x - 1]
    BY <1>5
  <1> HIDE DEF Bad
  <1>7. f[x] = s[x] + f[x - 1] /\ g[x] = t[x] + g[x - 1]
    BY <1>3, <1>4 DEF Sums
  <1>8. s[x] = t[x]
    BY <1>5
  <1> QED
    BY <1>3, <1>6, <1>7, <1>8

\* Prefix obeys its recursion.
LEMMA PrefixSteps ==
  ASSUME NEW s, NEW n \in Nat
  PROVE  Prefix(s, 0) = 0 /\ Prefix(s, n + 1) = s[n + 1] + Prefix(s, n)
  <1>1. PICK z : z = CHOOSE f : Sums(f, s, 0)
    OBVIOUS
  <1>2. Sums(z, s, 0)
    BY <1>1, SumsExist
  <1>3. z[0] = 0
    BY <1>2 DEF Sums
  <1>4. PICK f : f = CHOOSE h : Sums(h, s, n)
    OBVIOUS
  <1>5. Sums(f, s, n)
    BY <1>4, SumsExist
  <1>6. PICK g : g = CHOOSE h : Sums(h, s, n + 1)
    OBVIOUS
  <1>7. n + 1 \in Nat
    OBVIOUS
  <1>8. Sums(g, s, n + 1)
    BY <1>6, <1>7, SumsExist
  <1>9. g[n + 1] = s[n + 1] + g[n]
    <2>1. n + 1 \in 0..n + 1 /\ n + 1 # 0 /\ (n + 1) - 1 = n
      OBVIOUS
    <2> QED
      BY <1>8, <2>1 DEF Sums
  <1>10. f[n] = g[n]
    <2>1. n <= n /\ n <= n + 1 /\ \A i \in 1..n : s[i] = s[i]
      OBVIOUS
    <2> QED
      BY <1>5, <1>7, <1>8, <2>1, SumsAgree
  <1> QED
    BY <1>1, <1>3, <1>4, <1>6, <1>9, <1>10, PrefixDef

\* Two lists that agree on their first n entries have the same sum there.
LEMMA PrefixEqual ==
  ASSUME NEW s, NEW t, NEW n \in Nat, \A i \in 1..n : s[i] = t[i]
  PROVE  Prefix(s, n) = Prefix(t, n)
  <1>1. PICK f : f = CHOOSE h : Sums(h, s, n)
    OBVIOUS
  <1>2. PICK g : g = CHOOSE h : Sums(h, t, n)
    OBVIOUS
  <1>3. Sums(f, s, n) /\ Sums(g, t, n)
    BY <1>1, <1>2, SumsExist
  <1>4. n <= n
    OBVIOUS
  <1>5. f[n] = g[n]
    BY <1>3, <1>4, SumsAgree
  <1> QED
    BY <1>1, <1>2, <1>5, PrefixDef

\* Sums of naturals are naturals.
LEMMA PrefixNat ==
  ASSUME NEW s, NEW n \in Nat, \A i \in 1..n : s[i] \in Nat
  PROVE  \A m \in 0..n : Prefix(s, m) \in Nat
  <1> DEFINE Bad == {m \in 0..n : Prefix(s, m) \notin Nat}
  <1>1. SUFFICES ASSUME Bad # {} PROVE FALSE
    OBVIOUS
  <1>2. PICK x \in Bad : \A y \in Bad : x <= y
    <2>1. Bad \in SUBSET Nat
      OBVIOUS
    <2> HIDE DEF Bad
    <2> QED
      BY <1>1, <2>1, Least
  <1>3. x \in 0..n /\ Prefix(s, x) \notin Nat
    BY <1>2
  <1>4. x # 0
    BY <1>3, PrefixSteps
  <1>5. x - 1 \in 0..n /\ x - 1 \notin Bad /\ x \in 1..n
    BY <1>2, <1>3, <1>4
  <1>6. Prefix(s, x - 1) \in Nat
    BY <1>5
  <1> HIDE DEF Bad
  <1>7. PICK y \in Nat : x = y + 1 /\ y = x - 1
    BY <1>3, <1>4
  <1>8. Prefix(s, y + 1) = s[y + 1] + Prefix(s, y)
    BY <1>7, PrefixSteps
  <1> QED
    BY <1>3, <1>5, <1>6, <1>7, <1>8

\* A longer prefix sums up to no less.
LEMMA PrefixGrows ==
  ASSUME NEW s, NEW n \in Nat, \A i \in 1..n : s[i] \in Nat, NEW k \in 0..n
  PROVE  Prefix(s, k) <= Prefix(s, n)
  <1>1. \A m \in 0..n : Prefix(s, m) \in Nat
    BY PrefixNat
  <1> DEFINE Bad == {m \in k..n : ~(Prefix(s, k) <= Prefix(s, m))}
  <1>2. SUFFICES ASSUME Bad # {} PROVE FALSE
    <2>1. n \in k..n
      OBVIOUS
    <2> QED
      BY <2>1
  <1>3. PICK x \in Bad : \A y \in Bad : x <= y
    <2>1. Bad \in SUBSET Nat
      OBVIOUS
    <2> HIDE DEF Bad
    <2> QED
      BY <1>2, <2>1, Least
  <1>4. x \in k..n /\ ~(Prefix(s, k) <= Prefix(s, x))
    BY <1>3
  <1>5. x # k
    BY <1>1, <1>4
  <1>6. x - 1 \in k..n /\ x - 1 \notin Bad /\ x \in 1..n
    BY <1>3, <1>4, <1>5
  <1>7. Prefix(s, k) <= Prefix(s, x - 1)
    BY <1>6
  <1> HIDE DEF Bad
  <1>8. PICK y \in Nat : x = y + 1 /\ y = x - 1
    BY <1>6
  <1>9. Prefix(s, y + 1) = s[y + 1] + Prefix(s, y)
    BY <1>8, PrefixSteps
  <1>10. Prefix(s, y) \in Nat /\ s[y + 1] \in Nat /\ Prefix(s, k) \in Nat
    <2>1. y \in 0..n /\ y + 1 \in 1..n
      BY <1>6, <1>8
    <2> QED
      BY <1>1, <2>1
  <1> QED
    BY <1>4, <1>7, <1>8, <1>9, <1>10

\* One more in entry j is one more in every sum that reaches j.
LEMMA PrefixBump ==
  ASSUME NEW s, NEW t, NEW n \in Nat, \A i \in 1..n : s[i] \in Nat, NEW j \in Nat \ {0},
         \A i \in 1..n : t[i] = IF i = j THEN s[i] + 1 ELSE s[i]
  PROVE  Prefix(t, n) = IF j <= n THEN Prefix(s, n) + 1 ELSE Prefix(s, n)
  <1>1. \A m \in 0..n : Prefix(s, m) \in Nat
    BY PrefixNat
  <1> DEFINE Bad == {m \in 0..n : Prefix(t, m) # IF j <= m THEN Prefix(s, m) + 1 ELSE Prefix(s, m)}
  <1>2. SUFFICES ASSUME Bad # {} PROVE FALSE
    <2>1. n \in 0..n
      OBVIOUS
    <2> QED
      BY <2>1
  <1>3. PICK x \in Bad : \A y \in Bad : x <= y
    <2>1. Bad \in SUBSET Nat
      OBVIOUS
    <2> HIDE DEF Bad
    <2> QED
      BY <1>2, <2>1, Least
  <1>4. x \in 0..n /\ Prefix(t, x) # IF j <= x THEN Prefix(s, x) + 1 ELSE Prefix(s, x)
    BY <1>3
  <1>5. x # 0
    <2>1. Prefix(t, 0) = 0 /\ Prefix(s, 0) = 0 /\ ~(j <= 0)
      BY PrefixSteps
    <2> QED
      BY <1>4, <2>1
  <1>6. x - 1 \in 0..n /\ x - 1 \notin Bad /\ x \in 1..n
    BY <1>3, <1>4, <1>5
  <1>7. PICK y \in Nat : x = y + 1 /\ y = x - 1
    BY <1>6
  <1>8. Prefix(t, y) = IF j <= y THEN Prefix(s, y) + 1 ELSE Prefix(s, y)
    BY <1>6, <1>7
  <1> HIDE DEF Bad
  <1>9. /\ Prefix(s, y + 1) = s[y + 1] + Prefix(s, y)
        /\ Prefix(t, y + 1) = t[y + 1] + Prefix(t, y)
    BY <1>7, PrefixSteps
  <1>10. /\ Prefix(s, y) \in Nat /\ s[y + 1] \in Nat
         /\ t[y + 1] = IF y + 1 = j THEN s[y + 1] + 1 ELSE s[y + 1]
    <2>1. y \in 0..n /\ y + 1 \in 1..n
      BY <1>6, <1>7
    <2> QED
      BY <1>1, <2>1
  <1> QED
    BY <1>4, <1>7, <1>8, <1>9, <1>10

\* A list shifted by one.
LEMMA PrefixShift ==
  ASSUME NEW s, NEW t, NEW n \in Nat, \A i \in 1..n : s[i] \in Nat,
         t[1] = 0, \A i \in 1..n : t[i + 1] = s[i]
  PROVE  Prefix(t, n + 1) = Prefix(s, n)
  <1>1. \A m \in 0..n : Prefix(s, m) \in Nat
    BY PrefixNat
  <1> DEFINE Bad == {m \in 0..n : Prefix(t, m + 1) # Prefix(s, m)}
  <1>2. SUFFICES ASSUME Bad # {} PROVE FALSE
    <2>1. n \in 0..n
      OBVIOUS
    <2> QED
      BY <2>1
  <1>3. PICK x \in Bad : \A y \in Bad : x <= y
    <2>1. Bad \in SUBSET Nat
      OBVIOUS
    <2> HIDE DEF Bad
    <2> QED
      BY <1>2, <2>1, Least
  <1>4. x \in 0..n /\ Prefix(t, x + 1) # Prefix(s, x)
    BY <1>3
  <1>5. x # 0
    <2>1. Prefix(t, 0) = 0 /\ Prefix(s, 0) = 0 /\ Prefix(t, 0 + 1) = t[0 + 1] + Prefix(t, 0)
      BY PrefixSteps
    <2> QED
      BY <1>4, <2>1
  <1>6. x - 1 \in 0..n /\ x - 1 \notin Bad /\ x \in 1..n
    BY <1>3, <1>4, <1>5
  <1>7. PICK y \in Nat : x = y + 1 /\ y = x - 1
    BY <1>6
  <1>8. Prefix(t, y + 1) = Prefix(s, y)
    BY <1>6, <1>7
  <1> HIDE DEF Bad
  <1>9. Prefix(s, y + 1) = s[y + 1] + Prefix(s, y)
    BY <1>7, PrefixSteps
  <1>10. Prefix(t, x + 1) = t[x + 1] + Prefix(t, x)
    BY <1>4, PrefixSteps
  <1>11. t[x + 1] = s[x]
    BY <1>6
  <1> QED
    BY <1>4, <1>7, <1>8, <1>9, <1>10, <1>11

\* Where nothing was served, the sum is zero.
LEMMA PrefixZero ==
  ASSUME NEW s, NEW n \in Nat, \A i \in 1..n : s[i] = 0
  PROVE  Prefix(s, n) = 0
  <1> DEFINE Bad == {m \in 0..n : Prefix(s, m) # 0}
  <1>1. SUFFICES ASSUME Bad # {} PROVE FALSE
    <2>1. n \in 0..n
      OBVIOUS
    <2> QED
      BY <2>1
  <1>2. PICK x \in Bad : \A y \in Bad : x <= y
    <2>1. Bad \in SUBSET Nat
      OBVIOUS
    <2> HIDE DEF Bad
    <2> QED
      BY <1>1, <2>1, Least
  <1>3. x \in 0..n /\ Prefix(s, x) # 0
    BY <1>2
  <1>4. x # 0
    BY <1>3, PrefixSteps
  <1>5. x - 1 \in 0..n /\ x - 1 \notin Bad /\ x \in 1..n
    BY <1>2, <1>3, <1>4
  <1>6. PICK y \in Nat : x = y + 1 /\ y = x - 1
    BY <1>5
  <1>7. Prefix(s, y) = 0
    BY <1>5, <1>6
  <1> HIDE DEF Bad
  <1>8. Prefix(s, y + 1) = s[y + 1] + Prefix(s, y)
    BY <1>6, PrefixSteps
  <1> QED
    BY <1>3, <1>5, <1>6, <1>7, <1>8

-----------------------------------------------------------------------------
(* The limiter. *)

\* What the assumptions say of the constants.
LEMMA Constants ==
  /\ Budget \in Nat \ {0} /\ Window \in Nat \ {0} /\ Retry \in Nat \ {0} /\ TTL \in Nat \ {0}
  /\ Margin \in Nat /\ Skew \in Nat /\ Transit \in Nat /\ Lag \in Nat /\ Mounts \in Nat
  /\ MaxClicks \in Nat /\ MaxOthers \in Nat /\ MaxFaults \in Nat
  /\ Lag < Window /\ Transit + Skew <= Margin /\ 2 * Transit < TTL
  BY ConsoleAssumption

\* The delay leaves at least one tick of the window.
LEMMA DelayFacts ==
  ASSUME LimiterTyped
  PROVE  /\ backend \in {"redis", "memory"}
         /\ Delay \in 0..Lag
         /\ Window - Delay \in 1..Window
  <1>1. backend \in {"redis", "memory"}
    BY ConsoleAssumption DEF LimiterTyped
  <1> QED
    BY <1>1, Constants DEF Delay

\* Total adds up the whole window.
LEMMA WindowTotal ==
  ASSUME NEW n \in Nat, NEW w \in [1..n -> Nat]
  PROVE  Total(w) = Prefix(w, n)
  <1>1. w \in Seq(Nat)
    BY IsASeq
  <1>2. Len(w) = n
    BY <1>1
  <1> QED
    BY <1>2, TotalIsPrefix

\* A request stamped a ticks ago adds one to every sum that reaches back that far.
LEMMA Bumped ==
  ASSUME LimiterTyped, NEW a \in 0..Lag,
         window' = [Kept(a) EXCEPT ![a + 1] = @ + 1]
  PROVE  /\ window' \in [Ages -> Nat]
         /\ \A n \in 0..Window :
               /\ Prefix(window, n) \in Nat
               /\ Prefix(window', n) =
                     IF a + 1 <= n THEN Prefix(window, n) + 1 ELSE Prefix(window, n)
  <1>1. window \in [Ages -> Nat]
    BY DEF LimiterTyped
  <1>2. Kept(a) \in [Ages -> Nat] /\ \A i \in Ages : i <= Window + a => Kept(a)[i] = window[i]
    BY <1>1, Constants DEF Kept, Ages
  <1>3. a + 1 \in Ages /\ a + 1 \in Nat \ {0}
    BY Constants DEF Ages
  <1>4. /\ window' \in [Ages -> Nat]
        /\ \A i \in Ages : window'[i] = IF i = a + 1 THEN Kept(a)[i] + 1 ELSE Kept(a)[i]
    BY <1>2, <1>3
  <1>5. ASSUME NEW n \in 0..Window
        PROVE  /\ Prefix(window, n) \in Nat
               /\ Prefix(window', n) =
                     IF a + 1 <= n THEN Prefix(window, n) + 1 ELSE Prefix(window, n)
    <2>1. n \in Nat /\ n \in 0..n /\ \A i \in 1..n : i \in Ages /\ i <= Window + a
      BY Constants DEF Ages
    <2>2. \A i \in 1..n : window[i] \in Nat
      BY <1>1, <2>1
    <2>3. \A i \in 1..n : window'[i] = IF i = a + 1 THEN window[i] + 1 ELSE window[i]
      BY <1>2, <1>4, <2>1
    <2>4. PICK w : w = window'
      OBVIOUS
    <2>5. \A i \in 1..n : w[i] = IF i = a + 1 THEN window[i] + 1 ELSE window[i]
      BY <2>3, <2>4
    <2>6. Prefix(w, n) = IF a + 1 <= n THEN Prefix(window, n) + 1 ELSE Prefix(window, n)
      BY <1>3, <2>1, <2>2, <2>5, PrefixBump
    <2>7. Prefix(window, n) \in Nat
      BY <2>1, <2>2, PrefixNat
    <2> QED
      BY <2>4, <2>6, <2>7
  <1> QED
    BY <1>4, <1>5

\* What a request finds in the window includes all that was let through lately.
LEMMA ServedInWindow ==
  ASSUME LimiterInv, NEW a \in 0..Lag
  PROVE  /\ Total(Kept(a)) \in Nat
         /\ Prefix(served, Window - Delay) <= Total(Kept(a))
  <1>1. LimiterTyped /\ window \in [Ages -> Nat]
    BY DEF LimiterInv, LimiterTyped
  <1>2. Window - Delay \in 1..Window /\ Delay \in 0..Lag /\ (Window - Delay) + Delay = Window
    BY <1>1, DelayFacts, Constants
  <1>3. Kept(a) \in [Ages -> Nat] /\ \A i \in Ages : i <= Window + a => Kept(a)[i] = window[i]
    BY <1>1, Constants DEF Kept, Ages
  <1>4. PICK n \in Nat : n = Window + Lag + 1
    BY Constants
  <1>5. Ages = 1..n /\ Window \in 0..n
    BY <1>4, Constants DEF Ages
  <1>6. PICK w \in [1..n -> Nat] : w = Kept(a)
    BY <1>3, <1>5
  <1>7. Total(w) = Prefix(w, n)
    BY WindowTotal
  <1>8. \A m \in 0..n : Prefix(w, m) \in Nat
    BY PrefixNat
  <1>9. Prefix(w, Window) <= Prefix(w, n)
    BY <1>5, PrefixGrows
  <1>10. Prefix(w, Window) = Prefix(window, Window)
    <2>1. Window \in Nat /\ \A i \in 1..Window : i \in Ages /\ i <= Window + a
      BY Constants DEF Ages
    <2>2. \A i \in 1..Window : w[i] = window[i]
      BY <1>3, <1>6, <2>1
    <2> QED
      BY <2>1, <2>2, PrefixEqual
  <1>11. Prefix(served, Window - Delay) <= Prefix(window, Window)
    <2>1. Window - Delay \in 0..Window - Delay
      BY <1>2, Constants
    <2>2. Prefix(served, Window - Delay) <= Prefix(window, (Window - Delay) + Delay)
      BY <2>1 DEF LimiterInv
    <2> QED
      BY <1>2, <2>2
  <1>12. Prefix(served, Window - Delay) \in Nat
    <2>1. PICK m \in Nat : m = Window - Delay
      BY <1>2, Constants
    <2>2. \A i \in 1..m : served[i] \in Nat
      BY <1>1, <1>2, <2>1, Constants DEF LimiterTyped
    <2>3. m \in 0..m
      OBVIOUS
    <2> QED
      BY <2>1, <2>2, <2>3, PrefixNat
  <1>13. n \in 0..n
    OBVIOUS
  <1> QED
    BY <1>5, <1>6, <1>7, <1>8, <1>9, <1>10, <1>11, <1>12, <1>13

\* A sum of what was served.
LEMMA ServedNat ==
  ASSUME LimiterTyped
  PROVE  /\ \A i \in 1..Window : served[i] \in Nat
         /\ \A k \in 0..Window : Prefix(served, k) \in Nat
  <1>1. \A i \in 1..Window : served[i] \in Nat
    BY DEF LimiterTyped
  <1>2. Window \in Nat
    BY Constants
  <1> QED
    BY <1>1, <1>2, PrefixNat

\* One more request is let through now.
LEMMA ServedOneMore ==
  ASSUME LimiterTyped, served' = [served EXCEPT ![1] = @ + 1]
  PROVE  /\ served' \in [1..Window -> Nat]
         /\ \A k \in 0..Window :
               Prefix(served', k) = IF 1 <= k THEN Prefix(served, k) + 1 ELSE Prefix(served, k)
  <1>1. served \in [1..Window -> Nat] /\ 1 \in 1..Window
    BY Constants DEF LimiterTyped
  <1>2. /\ served' \in [1..Window -> Nat]
        /\ \A i \in 1..Window : served'[i] = IF i = 1 THEN served[i] + 1 ELSE served[i]
    BY <1>1
  <1>3. ASSUME NEW k \in 0..Window
        PROVE  Prefix(served', k) = IF 1 <= k THEN Prefix(served, k) + 1 ELSE Prefix(served, k)
    <2>1. k \in Nat /\ \A i \in 1..k : i \in 1..Window
      BY Constants
    <2>2. PICK t : t = served'
      OBVIOUS
    <2>3. \A i \in 1..k : served[i] \in Nat
      BY <1>1, <2>1
    <2>4. \A i \in 1..k : t[i] = IF i = 1 THEN served[i] + 1 ELSE served[i]
      BY <1>2, <2>1, <2>2
    <2>5. 1 \in Nat \ {0}
      OBVIOUS
    <2>6. Prefix(t, k) = IF 1 <= k THEN Prefix(served, k) + 1 ELSE Prefix(served, k)
      BY <2>1, <2>3, <2>4, <2>5, PrefixBump
    <2> QED
      BY <2>2, <2>6
  <1> QED
    BY <1>2, <1>3

\* _check_rate_limit keeps the books, whatever it answers.
LEMMA CountedStep ==
  ASSUME LimiterInv, NEW age, NEW ok \in BOOLEAN, NEW a \in Stamps(age), Counted(a, ok),
         UNCHANGED <<mode, backend>>
  PROVE  LimiterInv'
  <1>1. /\ LimiterTyped
        /\ backend = "redis" => \A i \in 1..Window : served[i] > 0 => Window < i + expiry
        /\ \A k \in 0..Window - Delay : Prefix(served, k) <= Prefix(window, k + Delay)
        /\ Prefix(served, Window - Delay) <= Budget
    BY DEF LimiterInv
  <1>2. /\ ok = WithinBudget(a)
        /\ window' = [Kept(a) EXCEPT ![a + 1] = @ + 1]
        /\ expiry' = IF backend = "redis" THEN Window ELSE 0
        /\ served' = IF ok THEN [served EXCEPT ![1] = @ + 1] ELSE served
    BY DEF Counted
  <1>3. a \in 0..Lag /\ (backend = "memory" => a = 0)
    BY DEF Stamps
  <1>4. /\ backend \in {"redis", "memory"} /\ Delay \in 0..Lag
        /\ Window - Delay \in 1..Window /\ a <= Delay /\ Delay' = Delay
    BY <1>1, <1>3, DelayFacts, Constants DEF Delay
  <1>5. /\ window' \in [Ages -> Nat]
        /\ \A n \in 0..Window :
              /\ Prefix(window, n) \in Nat
              /\ Prefix(window', n) =
                    IF a + 1 <= n THEN Prefix(window, n) + 1 ELSE Prefix(window, n)
    BY <1>1, <1>2, <1>3, Bumped
  <1>6. /\ \A i \in 1..Window : served[i] \in Nat
        /\ \A k \in 0..Window : Prefix(served, k) \in Nat
    BY <1>1, ServedNat
  <1>7. /\ served' \in [1..Window -> Nat]
        /\ \A k \in 0..Window :
              Prefix(served', k) = IF ok /\ 1 <= k THEN Prefix(served, k) + 1 ELSE Prefix(served, k)
    <2>1. CASE ok
      BY <1>1, <1>2, <2>1, ServedOneMore
    <2>2. CASE ~ok
      BY <1>1, <1>2, <2>2 DEF LimiterTyped
    <2> QED
      BY <2>1, <2>2
  <1>8. LimiterTyped'
    <2>1. expiry' \in 0..Window
      BY <1>2, Constants
    <2> QED
      BY <1>1, <1>5, <1>7, <2>1 DEF LimiterTyped
  <1>9. \A k \in 0..Window - Delay : Prefix(served', k) <= Prefix(window', k + Delay)
    <2> SUFFICES ASSUME NEW k \in 0..Window - Delay
                 PROVE  Prefix(served', k) <= Prefix(window', k + Delay)
      OBVIOUS
    <2>1. k \in 0..Window /\ k + Delay \in 0..Window
      BY <1>4, Constants
    <2>2. 1 <= k => a + 1 <= k + Delay
      BY <1>3, <1>4, Constants
    <2>3. Prefix(served, k) <= Prefix(window, k + Delay)
      BY <1>1
    <2> QED
      BY <1>5, <1>6, <1>7, <2>1, <2>2, <2>3
  <1>10. Prefix(served', Window - Delay) <= Budget
    <2>1. Window - Delay \in 0..Window /\ 1 <= Window - Delay
      BY <1>4, Constants
    <2>2. CASE ok
      <3>1. Total(Kept(a)) < Budget
        BY <1>2, <2>2 DEF WithinBudget
      <3>2. Total(Kept(a)) \in Nat /\ Prefix(served, Window - Delay) <= Total(Kept(a))
        BY <1>3, ServedInWindow
      <3>3. Prefix(served', Window - Delay) = Prefix(served, Window - Delay) + 1
        BY <1>7, <2>1, <2>2
      <3>4. Prefix(served, Window - Delay) \in Nat
        BY <1>6, <2>1
      <3> QED
        BY <3>1, <3>2, <3>3, <3>4, Constants
    <2>3. CASE ~ok
      BY <1>1, <1>7, <2>1, <2>3
    <2> QED
      BY <2>2, <2>3
  <1>11. backend' = "memory" => expiry' = 0
    BY <1>2
  <1>12. backend' = "redis" => \A i \in 1..Window : served'[i] > 0 => Window < i + expiry'
    BY <1>2, Constants
  <1> QED
    BY <1>4, <1>8, <1>9, <1>10, <1>11, <1>12 DEF LimiterInv

\* A request Redis fails on is let through outside the count.
LEMMA FailsOpenStep ==
  ASSUME LimiterInv, NEW age, NEW ok \in BOOLEAN, NEW a \in Stamps(age), FailsOpen(a, ok),
         UNCHANGED <<mode, backend>>
  PROVE  LimiterInv'
  <1>1. /\ LimiterTyped
        /\ backend = "redis" => \A i \in 1..Window : served[i] > 0 => Window < i + expiry
        /\ \A k \in 0..Window - Delay : Prefix(served, k) <= Prefix(window, k + Delay)
        /\ Prefix(served, Window - Delay) <= Budget
    BY DEF LimiterInv
  <1>2. /\ backend = "redis"
        /\ window' = window \/ window' = [Kept(a) EXCEPT ![a + 1] = @ + 1]
        /\ expiry' = IF window' = window THEN expiry ELSE Window
        /\ served' = served
    BY DEF FailsOpen
  <1>3. a \in 0..Lag
    BY DEF Stamps
  <1>4. /\ Delay \in 0..Lag /\ Window - Delay \in 1..Window /\ Delay' = Delay
    BY <1>1, DelayFacts DEF Delay
  <1>5. /\ window' \in [Ages -> Nat]
        /\ \A n \in 0..Window : Prefix(window, n) <= Prefix(window', n)
    <2>1. CASE window' = window
      <3>1. window' \in [Ages -> Nat]
        BY <1>1, <2>1 DEF LimiterTyped
      <3>2. \A n \in 0..Window : Prefix(window, n) \in Nat
        <4>1. Window \in Nat /\ \A i \in 1..Window : window[i] \in Nat
          BY <1>1, Constants DEF LimiterTyped, Ages
        <4> QED
          BY <4>1, PrefixNat
      <3>3. \A n \in 0..Window : Prefix(window', n) = Prefix(window, n)
        BY <2>1
      <3> QED
        BY <3>1, <3>2, <3>3
    <2>2. CASE window' = [Kept(a) EXCEPT ![a + 1] = @ + 1]
      <3>1. /\ window' \in [Ages -> Nat]
            /\ \A n \in 0..Window :
                  /\ Prefix(window, n) \in Nat
                  /\ Prefix(window', n) =
                        IF a + 1 <= n THEN Prefix(window, n) + 1 ELSE Prefix(window, n)
        BY <1>1, <1>3, <2>2, Bumped
      <3> QED
        BY <3>1
    <2> QED
      BY <1>2, <2>1, <2>2
  <1>6. \A k \in 0..Window : Prefix(served, k) \in Nat
    BY <1>1, ServedNat
  <1>7. expiry' \in 0..Window /\ expiry <= expiry' /\ expiry \in 0..Window
    BY <1>1, <1>2, Constants DEF LimiterTyped
  <1>8. LimiterTyped'
    BY <1>1, <1>2, <1>5, <1>7 DEF LimiterTyped
  <1>9. \A k \in 0..Window - Delay : Prefix(served', k) <= Prefix(window', k + Delay)
    <2> SUFFICES ASSUME NEW k \in 0..Window - Delay
                 PROVE  Prefix(served', k) <= Prefix(window', k + Delay)
      OBVIOUS
    <2>1. k \in 0..Window /\ k + Delay \in 0..Window
      BY <1>4, Constants
    <2>2. Prefix(served, k) <= Prefix(window, k + Delay) /\ Prefix(served', k) = Prefix(served, k)
      BY <1>1, <1>2
    <2>3. Prefix(window, k + Delay) <= Prefix(window', k + Delay)
      BY <1>5, <2>1
    <2>4. PICK n \in 0..Window : n = k + Delay
      BY <2>1
    <2>5. \A i \in 1..n : window[i] \in Nat /\ window'[i] \in Nat
      BY <1>1, <1>5, Constants DEF LimiterTyped, Ages
    <2>6. n \in Nat /\ n \in 0..n
      BY Constants
    <2>7. Prefix(window, n) \in Nat
      BY <2>5, <2>6, PrefixNat
    <2>8. PICK w : w = window'
      OBVIOUS
    <2>9. Prefix(w, n) \in Nat
      BY <2>5, <2>6, <2>8, PrefixNat
    <2> QED
      BY <1>6, <2>1, <2>2, <2>3, <2>4, <2>7, <2>8, <2>9
  <1>10. Prefix(served', Window - Delay) <= Budget
    BY <1>1, <1>2
  <1>11. \A i \in 1..Window : served'[i] > 0 => Window < i + expiry'
    BY <1>1, <1>2, <1>7, Constants
  <1>12. backend' = "memory" => expiry' = 0
    BY <1>2
  <1> QED
    BY <1>4, <1>8, <1>9, <1>10, <1>11, <1>12 DEF LimiterInv
\* A request is checked: counted, or let through by a failing Redis.
LEMMA LimitStep ==
  ASSUME LimiterInv, BoundsTyped, NEW age, NEW ok \in BOOLEAN, CheckRateLimit(age, ok),
         UNCHANGED <<mode, backend>>
  PROVE  LimiterInv' /\ faults' \in 0..MaxFaults
  <1>1. PICK a \in Stamps(age) : Counted(a, ok) \/ FailsOpen(a, ok)
    BY DEF CheckRateLimit
  <1>2. CASE Counted(a, ok)
    <2>1. LimiterInv'
      BY <1>2, CountedStep
    <2>2. faults' = faults
      BY <1>2 DEF Counted
    <2> QED
      BY <2>1, <2>2 DEF BoundsTyped
  <1>3. CASE FailsOpen(a, ok)
    <2>1. LimiterInv'
      BY <1>3, FailsOpenStep
    <2>2. faults < MaxFaults /\ faults' = faults + 1
      BY <1>3 DEF FailsOpen, Fault
    <2> QED
      BY <2>1, <2>2, Constants DEF BoundsTyped
  <1> QED
    BY <1>1, <1>2, <1>3

\* No request, no restart and no tick.
LEMMA LimiterIdle ==
  ASSUME LimiterInv, UNCHANGED <<mode, backend, window, expiry, served>>
  PROVE  LimiterInv'
  BY DEF LimiterInv, LimiterTyped, Delay

\* Empty books are in order.
LEMMA EmptyBooks ==
  ASSUME LimiterTyped, window = Zeros, \A i \in 1..Window : served[i] = 0,
         backend = "memory" => expiry = 0
  PROVE  LimiterInv
  <1>1. Delay \in 0..Lag /\ Window - Delay \in 1..Window
    BY DelayFacts
  <1>2. ASSUME NEW k \in 0..Window - Delay
        PROVE  Prefix(served, k) = 0 /\ Prefix(window, k + Delay) = 0
    <2>1. k \in Nat /\ k + Delay \in Nat
      BY <1>1, Constants
    <2>2. \A i \in 1..k : served[i] = 0
      BY <1>1, Constants
    <2>3. \A i \in 1..k + Delay : window[i] = 0
      BY <1>1, Constants DEF Zeros, Ages
    <2> QED
      BY <2>1, <2>2, <2>3, PrefixZero
  <1>3. Window - Delay \in 0..Window - Delay
    BY <1>1, Constants
  <1> QED
    BY <1>2, <1>3, Constants DEF LimiterInv

\* A restart empties a window held in memory, and leaves Redis alone.
LEMMA RestartBooks ==
  ASSUME LimiterInv,
         \/ /\ backend = "memory" /\ window' = Zeros /\ served' = [i \in 1..Window |-> 0]
         \/ backend = "redis" /\ UNCHANGED <<window, served>>,
         UNCHANGED <<mode, backend, expiry>>
  PROVE  LimiterInv'
  <1>1. LimiterTyped /\ (backend = "memory" => expiry = 0)
    BY DEF LimiterInv
  <1>2. CASE backend = "memory" /\ window' = Zeros /\ served' = [i \in 1..Window |-> 0]
    <2>1. window' \in [Ages -> Nat] /\ served' \in [1..Window -> Nat]
      BY <1>2 DEF Zeros
    <2>2. LimiterTyped'
      BY <1>1, <2>1 DEF LimiterTyped
    <2>3. /\ window' = Zeros' /\ \A i \in 1..Window : served'[i] = 0
          /\ backend' = "memory" => expiry' = 0
      BY <1>1, <1>2 DEF Zeros, Ages
    <2>4. (LimiterTyped /\ window = Zeros /\ (\A i \in 1..Window : served[i] = 0)
            /\ (backend = "memory" => expiry = 0) => LimiterInv)'
      BY EmptyBooks, PTL
    <2> QED
      BY <2>2, <2>3, <2>4
  <1>3. CASE backend = "redis" /\ UNCHANGED <<window, served>>
    BY <1>3, LimiterIdle
  <1> QED
    BY <1>2, <1>3

\* A tick: everything is one tick older, and Redis may drop a window whose requests
\* are all out of it.
LEMMA TickBooks ==
  ASSUME LimiterInv,
         expiry' = IF expiry = 0 THEN 0 ELSE expiry - 1,
         window' = IF expiry = 1 THEN Zeros
                   ELSE [i \in Ages |-> IF i = 1 THEN 0 ELSE window[i - 1]],
         served' = [i \in 1..Window |-> IF i = 1 THEN 0 ELSE served[i - 1]],
         UNCHANGED <<mode, backend>>
  PROVE  LimiterInv'
  <1>1. /\ LimiterTyped
        /\ backend = "memory" => expiry = 0
        /\ backend = "redis" => \A i \in 1..Window : served[i] > 0 => Window < i + expiry
        /\ \A k \in 0..Window - Delay : Prefix(served, k) <= Prefix(window, k + Delay)
        /\ Prefix(served, Window - Delay) <= Budget
    BY DEF LimiterInv
  <1>2. /\ backend \in {"redis", "memory"} /\ Delay \in 0..Lag
        /\ Window - Delay \in 1..Window /\ Delay' = Delay
    BY <1>1, DelayFacts DEF Delay
  <1>3. window \in [Ages -> Nat] /\ served \in [1..Window -> Nat] /\ expiry \in 0..Window
    BY <1>1 DEF LimiterTyped
  <1>4. expiry' \in 0..Window
    BY <1>3, Constants
  <1>5. served' \in [1..Window -> Nat]
    <2>1. \A i \in 1..Window : i # 1 => i - 1 \in 1..Window
      BY Constants
    <2> QED
      BY <1>3, <2>1
  <1>6. window' \in [Ages -> Nat]
    <2>1. \A i \in Ages : i # 1 => i - 1 \in Ages
      BY Constants DEF Ages
    <2> QED
      BY <1>3, <2>1 DEF Zeros
  <1>7. LimiterTyped'
    BY <1>1, <1>4, <1>5, <1>6 DEF LimiterTyped
  <1>8. backend' = "memory" => expiry' = 0
    BY <1>1
  <1>9. CASE expiry = 1
    <2>1. \A i \in 1..Window : served[i] > 0 => Window < i + 1
      BY <1>1, <1>2, <1>9
    <2>2. \A i \in 1..Window : i < Window => served[i] = 0
      BY <1>3, <2>1, Constants
    <2>3. ASSUME NEW i \in 1..Window PROVE served'[i] = 0
      <3>1. CASE i = 1
        BY <3>1
      <3>2. CASE i # 1
        <4>1. i - 1 \in 1..Window /\ i - 1 < Window
          BY <3>2, Constants
        <4> QED
          BY <2>2, <3>2, <4>1
      <3> QED
        BY <3>1, <3>2
    <2>4. window' = Zeros'
      BY <1>9 DEF Zeros, Ages
    <2>5. (LimiterTyped /\ window = Zeros /\ (\A i \in 1..Window : served[i] = 0)
            /\ (backend = "memory" => expiry = 0) => LimiterInv)'
      BY EmptyBooks, PTL
    <2> QED
      BY <1>7, <1>8, <2>3, <2>4, <2>5
  <1>10. CASE expiry # 1
    <2>1. window' = [i \in Ages |-> IF i = 1 THEN 0 ELSE window[i - 1]]
      BY <1>10
    <2>2. ASSUME NEW k \in 0..Window - 1
          PROVE  Prefix(served', k + 1) = Prefix(served, k)
      <3>1. k \in Nat /\ 1 \in 1..Window /\ \A i \in 1..k : i \in 1..Window /\ i + 1 \in 1..Window
        BY Constants
      <3>2. PICK t : t = served'
        OBVIOUS
      <3>3. t[1] = 0 /\ \A i \in 1..k : t[i + 1] = served[i]
        BY <3>1, <3>2
      <3>4. \A i \in 1..k : served[i] \in Nat
        BY <1>3, <3>1
      <3>5. Prefix(t, k + 1) = Prefix(served, k)
        BY <3>1, <3>3, <3>4, PrefixShift
      <3> QED
        BY <3>2, <3>5
    <2>3. ASSUME NEW n \in 0..Window
          PROVE  Prefix(window', n + 1) = Prefix(window, n) /\ Prefix(window', n + 1) \in Nat
      <3>1. n \in Nat /\ n \in 0..n /\ 1 \in Ages /\ \A i \in 1..n : i \in Ages /\ i + 1 \in Ages
        BY Constants DEF Ages
      <3>2. PICK t : t = window'
        OBVIOUS
      <3>3. t[1] = 0 /\ \A i \in 1..n : t[i + 1] = window[i]
        BY <2>1, <3>1, <3>2
      <3>4. \A i \in 1..n : window[i] \in Nat
        BY <1>3, <3>1
      <3>5. Prefix(t, n + 1) = Prefix(window, n)
        BY <3>1, <3>3, <3>4, PrefixShift
      <3>6. Prefix(window, n) \in Nat
        BY <3>1, <3>4, PrefixNat
      <3> QED
        BY <3>2, <3>5, <3>6
    <2>4. \A k \in 0..Window - Delay : Prefix(served', k) <= Prefix(window', k + Delay)
      <3> SUFFICES ASSUME NEW k \in 0..Window - Delay
                   PROVE  Prefix(served', k) <= Prefix(window', k + Delay)
        OBVIOUS
      <3>1. CASE k = 0
        <4>1. PICK t : t = served'
          OBVIOUS
        <4>2. Prefix(t, 0) = 0
          BY PrefixSteps
        <4>3. PICK w : w = window'
          OBVIOUS
        <4>4. Delay \in Nat /\ Delay \in 0..Delay /\ \A i \in 1..Delay : w[i] \in Nat
          BY <1>2, <1>6, <4>3, Constants DEF Ages
        <4>5. Prefix(w, Delay) \in Nat
          BY <4>4, PrefixNat
        <4>6. k + Delay = Delay
          BY <1>2, <3>1, Constants
        <4> QED
          BY <3>1, <4>1, <4>2, <4>3, <4>5, <4>6
      <3>2. CASE k # 0
        <4>1. PICK j \in 0..Window - 1 : k = j + 1
          <5>1. k - 1 \in 0..Window - 1 /\ k = (k - 1) + 1
            BY <1>2, <3>2, Constants
          <5> QED
            BY <5>1
        <4>2. j \in 0..Window - Delay /\ j + Delay \in 0..Window /\ k + Delay = (j + Delay) + 1
          BY <1>2, <4>1, Constants
        <4>3. Prefix(served', k) = Prefix(served, j)
          BY <2>2, <4>1
        <4>4. Prefix(window', k + Delay) = Prefix(window, j + Delay)
          BY <2>3, <4>2
        <4>5. Prefix(served, j) <= Prefix(window, j + Delay)
          BY <1>1, <4>2
        <4> QED
          BY <4>3, <4>4, <4>5
      <3> QED
        BY <3>1, <3>2
    <2>5. Prefix(served', Window - Delay) <= Budget
      <3>1. PICK j \in 0..Window - 1 : Window - Delay = j + 1
        <4>1. (Window - Delay) - 1 \in 0..Window - 1 /\ Window - Delay = ((Window - Delay) - 1) + 1
          BY <1>2, Constants
        <4> QED
          BY <4>1
      <3>2. Prefix(served', Window - Delay) = Prefix(served, j)
        BY <2>2, <3>1
      <3>3. PICK m \in Nat : m = Window - Delay
        BY <1>2, Constants
      <3>4. j \in 0..m /\ \A i \in 1..m : served[i] \in Nat
        BY <1>2, <1>3, <3>1, <3>3, Constants
      <3>5. Prefix(served, j) <= Prefix(served, m)
        BY <3>4, PrefixGrows
      <3>6. Prefix(served, j) \in Nat /\ Prefix(served, m) \in Nat
        <4>1. m \in 0..m
          OBVIOUS
        <4> QED
          BY <3>4, <4>1, PrefixNat
      <3> QED
        BY <1>1, <3>2, <3>3, <3>5, <3>6, Constants
    <2>6. ASSUME backend = "redis", NEW i \in 1..Window, served'[i] > 0
          PROVE  Window < i + expiry'
      <3>1. i # 1
        BY <2>6
      <3>2. i - 1 \in 1..Window /\ served[i - 1] > 0
        BY <2>6, <3>1, Constants
      <3>3. Window < (i - 1) + expiry
        BY <1>1, <2>6, <3>2
      <3> QED
        BY <1>3, <3>1, <3>2, <3>3, Constants
    <2> QED
      BY <1>2, <1>7, <1>8, <2>4, <2>5, <2>6 DEF LimiterInv
  <1> QED
    BY <1>9, <1>10

\* The books bound what was let through in any stretch of the window.
LEMMA BudgetFromBooks ==
  ASSUME LimiterInv
  PROVE  BudgetHolds
  <1>1. LimiterTyped /\ served \in [1..Window -> Nat] /\ Prefix(served, Window - Delay) <= Budget
    BY DEF LimiterInv, LimiterTyped
  <1>2. PICK m \in Nat : m = Window - Delay
    BY <1>1, DelayFacts, Constants
  <1>3. m \in 1..Window
    BY <1>1, <1>2, DelayFacts
  <1>4. m = IF backend = "memory" THEN Window ELSE Window - Lag
    BY <1>2, Constants DEF Delay
  <1>5. served \in Seq(Nat) /\ Len(served) = Window
    <2>1. served \in Seq(Nat)
      BY <1>1, Constants, IsASeq
    <2> QED
      BY <1>1, <2>1, Constants
  <1>6. PICK q : q = SubSeq(served, 1, m)
    OBVIOUS
  <1>7. Len(q) = m /\ \A i \in 1..m : q[i] = served[i]
    BY <1>3, <1>5, <1>6, Constants
  <1>8. Total(q) = Prefix(q, m)
    BY <1>7, TotalIsPrefix
  <1>9. Prefix(q, m) = Prefix(served, m)
    BY <1>7, PrefixEqual
  <1>10. Total(q) <= Budget
    BY <1>1, <1>2, <1>8, <1>9
  <1> QED
    BY <1>4, <1>6, <1>10 DEF BudgetHolds
-----------------------------------------------------------------------------
(* Tickets and the runs of the socket effect. *)

\* A ticket that ages, or is revoked, stays a ticket.
LEMMA TicketFacts ==
  ASSUME NEW t \in Tickets
  PROVE  /\ t.age \in Nat /\ t.age <= Old
         /\ Aged(t) \in Tickets /\ Aged(t).age <= t.age + 1 /\ Aged(t).age \in Nat
         /\ Revoked(t) \in Tickets \cup {None}
  <1>1. Old \in Nat /\ t.age \in 0..Old
    BY Constants DEF Old, Tickets
  <1>2. CASE t = None \/ t.age = Old
    <2>1. Aged(t) = t
      BY <1>2 DEF Aged
    <2>2. Revoked(t) \in Tickets \cup {None}
      BY DEF Revoked, Tickets
    <2> QED
      BY <1>1, <2>1, <2>2
  <1>3. CASE ~(t = None \/ t.age = Old)
    <2>1. Aged(t) = [t EXCEPT !.age = @ + 1]
      BY <1>3 DEF Aged
    <2>2. t.age + 1 \in 0..Old
      BY <1>1, <1>3
    <2>3. Aged(t) \in Tickets /\ Aged(t).age = t.age + 1
      BY <2>1, <2>2 DEF Tickets
    <2>4. Revoked(t) \in Tickets \cup {None}
      BY DEF Revoked, Tickets
    <2> QED
      BY <1>1, <2>3, <2>4
  <1> QED
    BY <1>2, <1>3

\* The same for what may be no ticket.
LEMMA MaybeTicket ==
  ASSUME NEW t \in Tickets \cup {None}
  PROVE  Aged(t) \in Tickets \cup {None} /\ Revoked(t) \in Tickets \cup {None}
  <1>1. CASE t = None
    BY <1>1 DEF Aged, Revoked
  <1>2. CASE t \in Tickets
    BY <1>2, TicketFacts
  <1> QED
    BY <1>1, <1>2

\* A ticket getTicket still hands out survives a transit.
LEMMA FreshFacts ==
  ASSUME NEW t \in Tickets \cup {None}, IsFresh(t)
  PROVE  t \in Tickets /\ t.age + Transit < TTL
  <1>1. t \in Tickets /\ t.age + Margin < TTL + Skew
    BY DEF IsFresh
  <1>2. t.age \in Nat
    BY <1>1, TicketFacts
  <1> QED
    BY <1>1, <1>2, Constants

\* So does one that has just arrived.
LEMMA AnswerFacts ==
  ASSUME AnswerInv, inflight # None, inflight \in Answer, inflight.ticket # None
  PROVE  inflight.ticket \in Tickets /\ inflight.ticket.age + Transit < TTL
  <1>1. inflight.ticket \in Tickets /\ inflight.age \in 0..Transit
    BY DEF Answer
  <1>2. inflight.ticket.age <= inflight.age
    BY DEF AnswerInv
  <1>3. inflight.ticket.age \in Nat
    BY <1>1, TicketFacts
  <1> QED
    BY <1>1, <1>2, <1>3, Constants

\* A run of the effect that starts, and one that waits to reconnect.
LEMMA HookFacts ==
  ASSUME NEW r \in HookState
  PROVE  /\ Mounted \in HookState /\ HookInv(Mounted)
         /\ Unmounted \in HookState /\ HookInv(Unmounted)
         /\ Rescheduled(r) \in HookState /\ HookInv(Rescheduled(r))
  <1>1. 0 \in 0..Retry /\ Retry \in 0..Retry /\ 0 \in 0..Transit
    BY Constants
  <1>2. Unmounted \in HookState /\ Unmounted.pc = "none"
    BY <1>1 DEF Unmounted, HookState
  <1>3. Mounted \in HookState /\ Mounted.pc = "new"
    BY <1>2 DEF Mounted, HookState
  <1>4. Rescheduled(r) \in HookState /\ Rescheduled(r).pc \in {"waiting", "gone"}
    <2>1. CASE r.live
      <3>1. Rescheduled(r) =
              [r EXCEPT !.pc = "waiting", !.timer = Retry, !.age = 0, !.ticket = None]
        BY <2>1 DEF Rescheduled
      <3> QED
        BY <1>1, <3>1 DEF HookState
    <2>2. CASE ~r.live
      <3>1. Rescheduled(r) = [r EXCEPT !.pc = "gone", !.age = 0, !.ticket = None]
        BY <2>2 DEF Rescheduled
      <3> QED
        BY <1>1, <3>1 DEF HookState
    <2> QED
      BY <2>1, <2>2
  <1> QED
    BY <1>2, <1>3, <1>4 DEF HookInv

\* A run that gets its ticket opens a socket only if it is still mounted.
LEMMA OpenedFacts ==
  ASSUME NEW r \in HookState, NEW t \in Tickets, t.age + Transit < TTL
  PROVE  Opened(r, t) \in HookState /\ HookInv(Opened(r, t))
  <1>1. CASE r.live
    <2>1. PICK o : o = [r EXCEPT !.pc = "opening", !.age = 0, !.ticket = t]
      OBVIOUS
    <2>2. 0 \in 0..Transit
      BY Constants
    <2>3. o \in HookState
      BY <2>1, <2>2 DEF HookState
    <2>4. o.pc = "opening" /\ o.age = 0 /\ o.ticket = t /\ o.live = r.live
      BY <2>1 DEF HookState
    <2>5. t.age + Transit < TTL + 0
      BY Constants
    <2>6. HookInv(o)
      BY <1>1, <2>4, <2>5 DEF HookInv, InTime
    <2>7. Opened(r, t) = o
      BY <1>1, <2>1 DEF Opened
    <2> QED
      BY <2>3, <2>6, <2>7
  <1>2. CASE ~r.live
    <2>1. Opened(r, t) = [r EXCEPT !.pc = "gone"]
      BY <1>2 DEF Opened
    <2>2. Opened(r, t) \in HookState /\ Opened(r, t).pc = "gone"
      BY <2>1 DEF HookState
    <2> QED
      BY <2>2 DEF HookInv
  <1> QED
    BY <1>1, <1>2

\* One run of the effect moves.
LEMMA OneHook ==
  ASSUME PageInv, NEW h \in Hooks, NEW s \in HookState, HookInv(s),
         hook' = [hook EXCEPT ![h] = s]
  PROVE  hook' \in [Hooks -> HookState] /\ \A g \in Hooks : HookInv(hook'[g])
  <1>1. hook \in [Hooks -> HookState] /\ \A g \in Hooks : HookInv(hook[g])
    BY DEF PageInv, PageTyped
  <1>2. hook' \in [Hooks -> HookState]
    BY <1>1
  <1>3. hook'[h] = s /\ \A g \in Hooks \ {h} : hook'[g] = hook[g]
    BY <1>1
  <1> QED
    BY <1>1, <1>2, <1>3

\* getTicket joins the request in flight, or makes one.
LEMMA AskFacts ==
  ASSUME PageInv, AskTicket
  PROVE  (inflight' = None \/ inflight' \in Asked \/ inflight' \in Answer) /\ AnswerInv'
  <1>1. CASE inflight # None
    <2>1. inflight' = inflight
      BY <1>1 DEF AskTicket
    <2> QED
      BY <2>1 DEF PageInv, PageTyped, AnswerInv
  <1>2. CASE inflight = None
    <2>1. inflight' = [pc |-> "asked", age |-> 0, auth |-> session]
      BY <1>2 DEF AskTicket
    <2>2. session \in BOOLEAN
      BY DEF PageInv, PageTyped
    <2>3. 0 \in 0..Transit
      BY Constants
    <2>4. inflight' \in Asked
      BY <2>1, <2>2, <2>3 DEF Asked
    <2>5. inflight' \notin Answer
      BY <2>1 DEF Answer
    <2> QED
      BY <2>4, <2>5 DEF AnswerInv
  <1> QED
    BY <1>1, <1>2

\* The fields of a request that is not None.
LEMMA InflightFacts ==
  ASSUME PageInv, inflight # None
  PROVE  /\ inflight.pc = "asked" => inflight \in Asked
         /\ inflight.pc = "answer" => inflight \in Answer
         /\ inflight.pc \in {"asked", "answer"}
         /\ inflight.age \in 0..Transit
  BY DEF PageInv, PageTyped, Asked, Answer

\* A failed answer carries no ticket.
LEMMA EmptyAnswer ==
  ASSUME NEW r, r = [pc |-> "answer", age |-> 0, ticket |-> None]
  PROVE  r \in Answer /\ r.ticket = None
  <1>1. 0 \in 0..Transit
    BY Constants
  <1> QED
    BY <1>1 DEF Answer

\* No click is under way.
LEMMA NoClickFacts == NoClick \in ClickState /\ NoClick.pc = "idle"
  BY Constants DEF NoClick, ClickState

\* The page does nothing.
LEMMA PageIdle ==
  ASSUME PageInv, UNCHANGED <<gate, session, cached, inflight, hook, click>>
  PROVE  PageInv'
  BY DEF PageInv, PageTyped, HookInv, InTime, AnswerInv

\* A fault is counted within its bound.
LEMMA FaultTyped ==
  ASSUME BoundsTyped, Fault
  PROVE  faults' \in 0..MaxFaults
  BY Constants DEF BoundsTyped, Fault

-----------------------------------------------------------------------------
(* The page's part of the invariant, one conjunct per variable. *)

CachedInv ==
    /\ gate \in {"checking", "login", "console"} /\ session \in BOOLEAN
    /\ cached \in Tickets \cup {None}
InflightInv == (inflight = None \/ inflight \in Asked \/ inflight \in Answer) /\ AnswerInv
HooksInv == hook \in [Hooks -> HookState] /\ \A h \in Hooks : HookInv(hook[h])
ClickInv == click \in ClickState /\ (click.pc = "posting" => InTime(click))

\* PageInv is these four.
LEMMA PageParts == PageInv <=> CachedInv /\ InflightInv /\ HooksInv /\ ClickInv
  BY DEF PageInv, PageTyped, CachedInv, InflightInv, HooksInv, ClickInv

\* The same in the next state.
LEMMA PagePartsNext == (CachedInv /\ InflightInv /\ HooksInv /\ ClickInv)' => PageInv'
  BY PageParts, PTL

\* A variable that does not change keeps its part.
LEMMA Frames ==
  ASSUME PageInv
  PROVE  /\ UNCHANGED <<gate, session, cached>> => CachedInv'
         /\ UNCHANGED inflight => InflightInv'
         /\ UNCHANGED hook => HooksInv'
         /\ UNCHANGED click => ClickInv'
  <1>1. CachedInv /\ InflightInv /\ HooksInv /\ ClickInv
    BY PageParts
  <1>2. UNCHANGED <<gate, session, cached>> => CachedInv'
    BY <1>1 DEF CachedInv
  <1>3. UNCHANGED inflight => InflightInv'
    BY <1>1 DEF InflightInv, AnswerInv
  <1>4. UNCHANGED hook => HooksInv'
    BY <1>1 DEF HooksInv, HookInv, InTime
  <1>5. UNCHANGED click => ClickInv'
    BY <1>1 DEF ClickInv, InTime
  <1> QED
    BY <1>2, <1>3, <1>4, <1>5

\* The request in flight is answered without a ticket.
LEMMA Unanswered ==
  ASSUME inflight' = [pc |-> "answer", age |-> 0, ticket |-> None]
  PROVE  InflightInv'
  <1>1. PICK r : r = [pc |-> "answer", age |-> 0, ticket |-> None]
    OBVIOUS
  <1>2. r \in Answer /\ r.ticket = None /\ inflight' = r
    BY <1>1, EmptyAnswer
  <1> QED
    BY <1>2 DEF InflightInv, AnswerInv

\* handleCommand is done.
LEMMA ClickDone ==
  ASSUME click' = NoClick
  PROVE  ClickInv'
  BY NoClickFacts DEF ClickInv

\* A click that goes out with a ticket that will last.
LEMMA ClickPosted ==
  ASSUME NEW t \in Tickets, t.age + Transit < TTL,
         click' = [pc |-> "posting", age |-> 0, ticket |-> t]
  PROVE  ClickInv'
  <1>1. PICK c : c = [pc |-> "posting", age |-> 0, ticket |-> t]
    OBVIOUS
  <1>2. 0 \in 0..Transit
    BY Constants
  <1>3. c \in ClickState
    BY <1>1, <1>2 DEF ClickState
  <1>4. c.age = 0 /\ c.ticket = t
    BY <1>1
  <1>5. t.age + Transit < TTL + 0
    BY Constants
  <1>6. InTime(c) /\ click' = c
    BY <1>1, <1>4, <1>5 DEF InTime
  <1> QED
    BY <1>3, <1>6 DEF ClickInv

\* A click that waits for its ticket.
LEMMA ClickWaits ==
  ASSUME PageInv, click' = [click EXCEPT !.pc = "ticket"]
  PROVE  ClickInv'
  <1>1. click \in ClickState
    BY PageParts DEF ClickInv
  <1>2. click' \in ClickState /\ click'.pc = "ticket"
    BY <1>1 DEF ClickState
  <1> QED
    BY <1>2 DEF ClickInv

\* The first run of the effect, if it can run at all.
LEMMA FirstMount ==
  ASSUME PageInv, Mount(1)
  PROVE  HooksInv'
  <1>1. hook' = [hook EXCEPT ![1] = Mounted]
    BY DEF Mount
  <1>2. HooksInv
    BY PageParts
  <1>3. CASE 1 \in Hooks
    <2>1. hook[1] \in HookState
      BY <1>2, <1>3 DEF HooksInv
    <2>2. Mounted \in HookState /\ HookInv(Mounted)
      BY <2>1, HookFacts
    <2> QED
      BY <1>1, <1>3, <2>2, OneHook DEF HooksInv
  <1>4. CASE 1 \notin Hooks
    <2>1. hook' = hook
      BY <1>1, <1>2, <1>4 DEF HooksInv
    <2> QED
      BY <2>1, Frames
  <1> QED
    BY <1>3, <1>4

\* getTicket's answer to a caller that has to wait.
LEMMA AskInv ==
  ASSUME PageInv, AskTicket
  PROVE  InflightInv'
  BY AskFacts DEF InflightInv

-----------------------------------------------------------------------------
(* The requests. *)

\* POST /auth/ticket is answered.
LEMMA CreateTicketKeeps ==
  ASSUME CInv, CreateTicket
  PROVE  CInv'
  <1>1. LimiterInv /\ PageInv /\ BoundsTyped
    BY DEF CInv
  <1>2. PICK ok \in BOOLEAN :
          /\ CheckRateLimit(inflight.age, ok)
          /\ inflight' = [pc |-> "answer", age |-> 0,
                ticket |-> IF ok /\ Authenticated(inflight.auth) THEN NewTicket ELSE None]
    BY DEF CreateTicket
  <1>3. UNCHANGED <<mode, backend, gate, session, cached, hook, click, clicks, others>>
    BY DEF CreateTicket
  <1>4. LimiterInv' /\ faults' \in 0..MaxFaults
    BY <1>1, <1>2, <1>3, LimitStep
  <1>5. InflightInv'
    <2>1. PICK t : t = IF ok /\ Authenticated(inflight.auth) THEN NewTicket ELSE None
      OBVIOUS
    <2>2. CASE t = NewTicket
      <3>1. 0 \in 0..Old /\ 0 \in 0..Transit
        BY Constants DEF Old
      <3>2. t \in Tickets /\ t.age = 0
        BY <2>2, <3>1 DEF NewTicket, Tickets
      <3>3. PICK r : r = [pc |-> "answer", age |-> 0, ticket |-> t]
        OBVIOUS
      <3>4. r \in Answer /\ r.ticket = t /\ r.age = 0
        BY <3>1, <3>2, <3>3 DEF Answer
      <3>5. inflight' = r
        BY <1>2, <2>1, <3>3
      <3> QED
        BY <3>2, <3>4, <3>5 DEF InflightInv, AnswerInv
    <2>3. CASE t = None
      BY <1>2, <2>1, <2>3, Unanswered
    <2> QED
      BY <2>1, <2>2, <2>3
  <1>6. PageInv'
    BY <1>1, <1>3, <1>5, Frames, PagePartsNext
  <1> QED
    BY <1>1, <1>3, <1>4, <1>6 DEF CInv, BoundsTyped

\* The request or its answer is lost.
LEMMA TicketRequestLostKeeps ==
  ASSUME CInv, TicketRequestLost
  PROVE  CInv'
  <1>1. LimiterInv /\ PageInv /\ BoundsTyped
    BY DEF CInv
  <1>2. /\ inflight' = [pc |-> "answer", age |-> 0, ticket |-> None]
        /\ Fault
        /\ UNCHANGED <<mode, backend, window, expiry, served>>
        /\ UNCHANGED <<gate, session, cached, hook, click, clicks, others>>
    BY DEF TicketRequestLost, limiter
  <1>3. PageInv'
    BY <1>1, <1>2, Unanswered, Frames, PagePartsNext
  <1> QED
    BY <1>1, <1>2, <1>3, LimiterIdle, FaultTyped DEF CInv, BoundsTyped

\* A command is answered.
LEMMA SendCommandKeeps ==
  ASSUME CInv, SendCommand
  PROVE  CInv'
  <1>1. LimiterInv /\ PageInv /\ BoundsTyped
    BY DEF CInv
  <1>2. PICK ok \in BOOLEAN : CheckRateLimit(click.age, ok)
    BY DEF SendCommand
  <1>3. /\ click' = NoClick
        /\ UNCHANGED <<mode, backend, gate, session, cached, inflight, hook, clicks, others>>
    BY DEF SendCommand
  <1>4. LimiterInv' /\ faults' \in 0..MaxFaults
    BY <1>1, <1>2, <1>3, LimitStep
  <1>5. PageInv'
    BY <1>1, <1>3, ClickDone, Frames, PagePartsNext
  <1> QED
    BY <1>1, <1>3, <1>4, <1>5 DEF CInv, BoundsTyped

\* A request of another page.
LEMMA OtherRequestKeeps ==
  ASSUME CInv, OtherRequest
  PROVE  CInv'
  <1>1. LimiterInv /\ PageInv /\ BoundsTyped
    BY DEF CInv
  <1>2. PICK ok \in BOOLEAN : CheckRateLimit(Lag, ok)
    BY DEF OtherRequest
  <1>3. /\ others < MaxOthers /\ others' = others + 1
        /\ UNCHANGED <<mode, backend, gate, session, cached, inflight, hook, click, clicks>>
    BY DEF OtherRequest, page
  <1>4. LimiterInv' /\ faults' \in 0..MaxFaults
    BY <1>1, <1>2, <1>3, LimitStep
  <1>5. PageInv'
    BY <1>1, <1>3, PageIdle
  <1>6. others' \in 0..MaxOthers /\ clicks' \in 0..MaxClicks
    BY <1>1, <1>3, Constants DEF BoundsTyped
  <1> QED
    BY <1>4, <1>5, <1>6 DEF CInv, BoundsTyped

-----------------------------------------------------------------------------
(* The page. *)

\* The gate learns whether a sign-in is needed.
LEMMA GateOpensKeeps ==
  ASSUME CInv, GateOpens
  PROVE  CInv'
  <1>1. LimiterInv /\ PageInv /\ BoundsTyped
    BY DEF CInv
  <1>2. /\ UNCHANGED <<mode, backend, window, expiry, served>>
        /\ UNCHANGED <<session, cached, inflight, click, clicks, others>>
    BY DEF GateOpens, limiter
  <1>3. /\ gate' \in {"checking", "login", "console"}
        /\ Mount(1) \/ UNCHANGED hook
        /\ Fault \/ UNCHANGED faults
    BY DEF GateOpens
  <1>4. CachedInv'
    BY <1>1, <1>2, <1>3, PageParts DEF CachedInv
  <1>5. HooksInv'
    BY <1>1, <1>3, FirstMount, Frames
  <1>6. PageInv'
    BY <1>1, <1>2, <1>4, <1>5, Frames, PagePartsNext
  <1>7. faults' \in 0..MaxFaults
    BY <1>1, <1>3, FaultTyped DEF BoundsTyped
  <1> QED
    BY <1>1, <1>2, <1>6, <1>7, LimiterIdle DEF CInv, BoundsTyped

\* The operator signs in.
LEMMA SignInKeeps ==
  ASSUME CInv, SignIn
  PROVE  CInv'
  <1>1. LimiterInv /\ PageInv /\ BoundsTyped
    BY DEF CInv
  <1>2. /\ UNCHANGED <<mode, backend, window, expiry, served>>
        /\ UNCHANGED <<cached, inflight, click, clicks, others, faults>>
        /\ gate' = "console" /\ session' = TRUE /\ Mount(1)
    BY DEF SignIn, limiter
  <1>3. CachedInv'
    BY <1>1, <1>2, PageParts DEF CachedInv
  <1>4. PageInv'
    BY <1>1, <1>2, <1>3, FirstMount, Frames, PagePartsNext
  <1> QED
    BY <1>1, <1>2, <1>4, LimiterIdle DEF CInv, BoundsTyped

\* The session is dropped.
LEMMA SessionExpiresKeeps ==
  ASSUME CInv, SessionExpires
  PROVE  CInv'
  <1>1. LimiterInv /\ PageInv /\ BoundsTyped
    BY DEF CInv
  <1>2. /\ UNCHANGED <<mode, backend, window, expiry, served>>
        /\ UNCHANGED <<gate, cached, inflight, hook, click, clicks, others>>
        /\ session' = FALSE /\ Fault
    BY DEF SessionExpires, limiter
  <1>3. CachedInv'
    BY <1>1, <1>2, PageParts DEF CachedInv
  <1>4. PageInv'
    BY <1>1, <1>2, <1>3, Frames, PagePartsNext
  <1> QED
    BY <1>1, <1>2, <1>4, LimiterIdle, FaultTyped DEF CInv, BoundsTyped

\* A command is dispatched from the page.
LEMMA HandleCommandKeeps ==
  ASSUME CInv, HandleCommand
  PROVE  CInv'
  <1>1. LimiterInv /\ PageInv /\ BoundsTyped
    BY DEF CInv
  <1>2. /\ UNCHANGED <<mode, backend, window, expiry, served>>
        /\ UNCHANGED <<gate, session, cached, hook, others, faults>>
        /\ clicks < MaxClicks /\ clicks' = clicks + 1
    BY DEF HandleCommand, limiter
  <1>3. ClickInv' /\ InflightInv'
    <2>1. CASE /\ IsFresh(cached)
               /\ click' = [pc |-> "posting", age |-> 0, ticket |-> cached]
               /\ UNCHANGED inflight
      <3>1. cached \in Tickets \cup {None}
        BY <1>1, PageParts DEF CachedInv
      <3>2. cached \in Tickets /\ cached.age + Transit < TTL
        BY <2>1, <3>1, FreshFacts
      <3> QED
        BY <1>1, <2>1, <3>2, ClickPosted, Frames
    <2>2. CASE click' = [click EXCEPT !.pc = "ticket"] /\ AskTicket
      BY <1>1, <2>2, ClickWaits, AskInv
    <2> QED
      BY <2>1, <2>2 DEF HandleCommand
  <1>4. PageInv'
    BY <1>1, <1>2, <1>3, Frames, PagePartsNext
  <1>5. clicks' \in 0..MaxClicks
    BY <1>1, <1>2, Constants DEF BoundsTyped
  <1> QED
    BY <1>1, <1>2, <1>4, <1>5, LimiterIdle DEF CInv, BoundsTyped

\* All runs of the effect move at once.
LEMMA AllHooks ==
  ASSUME NEW f, hook' = [h \in Hooks |-> f[h]],
         \A h \in Hooks : f[h] \in HookState /\ HookInv(f[h])
  PROVE  HooksInv'
  <1>1. hook' \in [Hooks -> HookState]
    OBVIOUS
  <1>2. \A h \in Hooks : HookInv(hook'[h])
    OBVIOUS
  <1> QED
    BY <1>1, <1>2 DEF HooksInv

\* The answer arrives, with a ticket or without.
LEMMA TicketSettlesKeeps ==
  ASSUME CInv, TicketSettles
  PROVE  CInv'
  <1>1. LimiterInv /\ PageInv /\ BoundsTyped
    BY DEF CInv
  <1>2. PICK t : t = inflight.ticket
    OBVIOUS
  <1>3. /\ inflight # None /\ inflight.pc = "answer"
        /\ cached' = IF t = None THEN cached ELSE t
        /\ inflight' = None
        /\ hook' = [h \in Hooks |->
             IF hook[h].pc # "ticket" THEN hook[h]
             ELSE IF t = None THEN Rescheduled(hook[h]) ELSE Opened(hook[h], t)]
        /\ click' = IF click.pc # "ticket" THEN click
                    ELSE IF t = None THEN NoClick
                    ELSE [pc |-> "posting", age |-> 0, ticket |-> t]
    BY <1>2 DEF TicketSettles, AfterAnswer
  <1>4. /\ UNCHANGED <<mode, backend, window, expiry, served>>
        /\ UNCHANGED <<gate, session, clicks, others, faults>>
    BY DEF TicketSettles, limiter
  <1>5. inflight \in Answer /\ AnswerInv
    BY <1>1, <1>3, InflightFacts DEF PageInv
  <1>6. t # None => t \in Tickets /\ t.age + Transit < TTL
    BY <1>2, <1>3, <1>5, AnswerFacts
  <1>7. CachedInv'
    BY <1>1, <1>3, <1>4, <1>6, PageParts DEF CachedInv
  <1>8. InflightInv'
    BY <1>3 DEF InflightInv, AnswerInv
  <1>9. HooksInv'
    <2> DEFINE F(h) == IF hook[h].pc # "ticket" THEN hook[h]
                       ELSE IF t = None THEN Rescheduled(hook[h]) ELSE Opened(hook[h], t)
    <2>1. PICK f : f = [h \in Hooks |-> F(h)]
      OBVIOUS
    <2>2. ASSUME NEW h \in Hooks
          PROVE  f[h] \in HookState /\ HookInv(f[h])
      <3>1. hook[h] \in HookState /\ HookInv(hook[h])
        BY <1>1, PageParts DEF HooksInv
      <3>2. Rescheduled(hook[h]) \in HookState /\ HookInv(Rescheduled(hook[h]))
        BY <3>1, HookFacts
      <3>3. t # None => Opened(hook[h], t) \in HookState /\ HookInv(Opened(hook[h], t))
        BY <1>6, <3>1, OpenedFacts
      <3>4. f[h] = F(h)
        BY <2>1
      <3> QED
        BY <3>1, <3>2, <3>3, <3>4
    <2>3. hook' = [h \in Hooks |-> f[h]]
      BY <1>3, <2>1
    <2> QED
      BY <2>2, <2>3, AllHooks
  <1>10. ClickInv'
    <2>1. CASE click.pc # "ticket"
      BY <1>1, <1>3, <2>1, Frames
    <2>2. CASE click.pc = "ticket" /\ t = None
      BY <1>3, <2>2, ClickDone
    <2>3. CASE click.pc = "ticket" /\ t # None
      BY <1>3, <1>6, <2>3, ClickPosted
    <2> QED
      BY <2>1, <2>2, <2>3
  <1>11. PageInv'
    BY <1>7, <1>8, <1>9, <1>10, PagePartsNext
  <1> QED
    BY <1>1, <1>4, <1>11, LimiterIdle DEF CInv, BoundsTyped

-----------------------------------------------------------------------------
(* The runs of the socket effect. *)

\* A step of one run that leaves the limiter and the rest of the page alone.
LEMMA HookKeeps ==
  ASSUME CInv, HooksInv', InflightInv', Fault \/ UNCHANGED faults,
         UNCHANGED <<mode, backend, window, expiry, served>>,
         UNCHANGED <<gate, session, cached, click, clicks, others>>
  PROVE  CInv'
  <1>1. LimiterInv /\ PageInv /\ BoundsTyped
    BY DEF CInv
  <1>2. PageInv'
    BY <1>1, Frames, PagePartsNext
  <1>3. faults' \in 0..MaxFaults
    BY <1>1, FaultTyped DEF BoundsTyped
  <1> QED
    BY <1>1, <1>2, <1>3, LimiterIdle DEF CInv, BoundsTyped

\* A run connects with the cached ticket, or asks for one.
LEMMA ConnectKeeps ==
  ASSUME CInv, NEW h \in Hooks, Connect(h)
  PROVE  CInv'
  <1>1. LimiterInv /\ PageInv /\ BoundsTyped
    BY DEF CInv
  <1>2. /\ UNCHANGED <<mode, backend, window, expiry, served>>
        /\ UNCHANGED <<gate, session, cached, click, clicks, others, faults>>
    BY DEF Connect, limiter
  <1>3. hook \in [Hooks -> HookState] /\ hook[h] \in HookState
    BY <1>1, PageParts DEF HooksInv
  <1>4. HooksInv' /\ InflightInv'
    <2>1. CASE /\ IsFresh(cached)
               /\ hook' = [hook EXCEPT ![h] = Opened(@, cached)]
               /\ UNCHANGED inflight
      <3>1. cached \in Tickets \cup {None}
        BY <1>1, PageParts DEF CachedInv
      <3>2. cached \in Tickets /\ cached.age + Transit < TTL
        BY <2>1, <3>1, FreshFacts
      <3>3. Opened(hook[h], cached) \in HookState /\ HookInv(Opened(hook[h], cached))
        BY <1>3, <3>2, OpenedFacts
      <3>4. hook' = [hook EXCEPT ![h] = Opened(hook[h], cached)]
        BY <1>3, <2>1
      <3>5. HooksInv'
        BY <1>1, <3>3, <3>4, OneHook DEF HooksInv
      <3> QED
        BY <1>1, <2>1, <3>5, Frames
    <2>2. CASE hook' = [hook EXCEPT ![h].pc = "ticket"] /\ AskTicket
      <3>1. PICK s : s = [hook[h] EXCEPT !.pc = "ticket"]
        OBVIOUS
      <3>2. s \in HookState /\ s.pc = "ticket"
        BY <1>3, <3>1 DEF HookState
      <3>3. HookInv(s)
        BY <3>2 DEF HookInv
      <3>4. hook' = [hook EXCEPT ![h] = s]
        BY <2>2, <3>1
      <3>5. HooksInv'
        BY <1>1, <3>2, <3>3, <3>4, OneHook DEF HooksInv
      <3> QED
        BY <1>1, <2>2, <3>5, AskInv
    <2> QED
      BY <2>1, <2>2 DEF Connect
  <1> QED
    BY <1>2, <1>4, HookKeeps

\* The API takes the ticket or closes the socket.
LEMMA HandshakeKeeps ==
  ASSUME CInv, NEW h \in Hooks, Handshake(h)
  PROVE  CInv'
  <1>1. LimiterInv /\ PageInv /\ BoundsTyped
    BY DEF CInv
  <1>2. /\ UNCHANGED <<mode, backend, window, expiry, served>>
        /\ UNCHANGED <<gate, session, cached, inflight, click, clicks, others, faults>>
    BY DEF Handshake, limiter
  <1>3. hook \in [Hooks -> HookState] /\ hook[h] \in HookState /\ HookInv(hook[h])
    BY <1>1, PageParts DEF HooksInv
  <1>4. PICK s : s = IF Accepted(hook[h].ticket)
                     THEN [hook[h] EXCEPT !.pc = "open", !.age = 0, !.ticket = None]
                     ELSE Rescheduled(hook[h])
    OBVIOUS
  <1>5. hook' = [hook EXCEPT ![h] = s] /\ hook[h].pc = "opening"
    BY <1>3, <1>4 DEF Handshake
  <1>6. s \in HookState /\ HookInv(s)
    <2>1. CASE Accepted(hook[h].ticket)
      <3>1. s = [hook[h] EXCEPT !.pc = "open", !.age = 0, !.ticket = None]
        BY <1>4, <2>1
      <3>2. 0 \in 0..Transit
        BY Constants
      <3>3. s \in HookState
        BY <1>3, <3>1, <3>2 DEF HookState
      <3>4. s.pc = "open" /\ s.live = hook[h].live
        BY <1>3, <3>1 DEF HookState
      <3>5. hook[h].live
        BY <1>3, <1>5 DEF HookInv
      <3> QED
        BY <3>3, <3>4, <3>5 DEF HookInv
    <2>2. CASE ~Accepted(hook[h].ticket)
      BY <1>3, <1>4, <2>2, HookFacts
    <2> QED
      BY <2>1, <2>2
  <1>7. HooksInv'
    BY <1>1, <1>5, <1>6, OneHook DEF HooksInv
  <1>8. InflightInv'
    BY <1>1, <1>2, Frames
  <1> QED
    BY <1>2, <1>7, <1>8, HookKeeps

\* A socket is closed.
LEMMA SocketDropsKeeps ==
  ASSUME CInv, NEW h \in Hooks, SocketDrops(h)
  PROVE  CInv'
  <1>1. LimiterInv /\ PageInv /\ BoundsTyped
    BY DEF CInv
  <1>2. /\ UNCHANGED <<mode, backend, window, expiry, served>>
        /\ UNCHANGED <<gate, session, cached, inflight, click, clicks, others>>
        /\ Fault
    BY DEF SocketDrops, limiter
  <1>3. hook \in [Hooks -> HookState] /\ hook[h] \in HookState
    BY <1>1, PageParts DEF HooksInv
  <1>4. hook' = [hook EXCEPT ![h] = Rescheduled(hook[h])]
    BY <1>3 DEF SocketDrops
  <1>5. Rescheduled(hook[h]) \in HookState /\ HookInv(Rescheduled(hook[h]))
    BY <1>3, HookFacts
  <1>6. HooksInv'
    BY <1>1, <1>4, <1>5, OneHook DEF HooksInv
  <1>7. InflightInv'
    BY <1>1, <1>2, Frames
  <1> QED
    BY <1>2, <1>6, <1>7, HookKeeps

\* The effect is cleaned up and run again.
LEMMA RemountKeeps ==
  ASSUME CInv, NEW h \in Hooks, Remount(h)
  PROVE  CInv'
  <1>1. LimiterInv /\ PageInv /\ BoundsTyped
    BY DEF CInv
  <1>2. /\ UNCHANGED <<mode, backend, window, expiry, served>>
        /\ UNCHANGED <<gate, session, cached, inflight, click, clicks, others, faults>>
        /\ h + 1 \in Hooks
    BY DEF Remount, limiter
  <1>3. /\ hook \in [Hooks -> HookState] /\ hook[h] \in HookState
        /\ \A g \in Hooks : HookInv(hook[g])
    BY <1>1, PageParts DEF HooksInv
  <1>4. PICK s : s = IF hook[h].pc = "ticket" THEN [hook[h] EXCEPT !.live = FALSE]
                     ELSE [Unmounted EXCEPT !.pc = "gone"]
    OBVIOUS
  <1>5. s \in HookState /\ HookInv(s)
    <2>1. CASE hook[h].pc = "ticket"
      <3>1. s \in HookState /\ s.pc = "ticket"
        BY <1>3, <1>4, <2>1 DEF HookState
      <3> QED
        BY <3>1 DEF HookInv
    <2>2. CASE hook[h].pc # "ticket"
      <3>1. Unmounted \in HookState
        BY <1>3, HookFacts
      <3>2. s \in HookState /\ s.pc = "gone"
        BY <1>4, <2>2, <3>1 DEF HookState
      <3> QED
        BY <3>2 DEF HookInv
    <2> QED
      BY <2>1, <2>2
  <1>6. Mounted \in HookState /\ HookInv(Mounted)
    BY <1>3, HookFacts
  <1>7. hook' = [[hook EXCEPT ![h] = s] EXCEPT ![h + 1] = Mounted]
    BY <1>4 DEF Remount
  <1>8. PICK m : m = [hook EXCEPT ![h] = s]
    OBVIOUS
  <1>9. m \in [Hooks -> HookState] /\ \A g \in Hooks : HookInv(m[g])
    <2>1. m[h] = s /\ \A g \in Hooks \ {h} : m[g] = hook[g]
      BY <1>3, <1>8
    <2> QED
      BY <1>3, <1>5, <1>8, <2>1
  <1>10. HooksInv'
    <2>1. hook' = [m EXCEPT ![h + 1] = Mounted]
      BY <1>7, <1>8
    <2>2. hook' \in [Hooks -> HookState]
      BY <1>6, <1>9, <2>1
    <2>3. \A g \in Hooks : hook'[g] = IF g = h + 1 THEN Mounted ELSE m[g]
      BY <1>9, <2>1
    <2> QED
      BY <1>6, <1>9, <2>2, <2>3 DEF HooksInv
  <1>11. InflightInv'
    BY <1>1, <1>2, Frames
  <1> QED
    BY <1>2, <1>10, <1>11, HookKeeps

-----------------------------------------------------------------------------
(* A restart and the passing of time. *)

\* The API restarts.
LEMMA RestartKeeps ==
  ASSUME CInv, Restart
  PROVE  CInv'
  <1>1. LimiterInv /\ PageInv /\ BoundsTyped
    BY DEF CInv
  <1>2. PICK rotated \in BOOLEAN :
          /\ cached' = IF rotated THEN Revoked(cached) ELSE cached
          /\ inflight' = IF inflight = None THEN None
                         ELSE [pc |-> "answer", age |-> 0, ticket |-> None]
          /\ hook' = [h \in Hooks |->
                IF hook[h].pc \in {"opening", "open"} THEN Rescheduled(hook[h])
                ELSE hook[h]]
          /\ click' = IF click.pc = "posting" THEN NoClick ELSE click
    BY DEF Restart
  <1>3. /\ Fault
        /\ UNCHANGED <<mode, backend, expiry>>
        /\ UNCHANGED <<gate, session, clicks, others>>
    BY DEF Restart
  <1>4. LimiterInv'
    <2>1. \/ backend = "memory" /\ window' = Zeros /\ served' = [i \in 1..Window |-> 0]
          \/ backend = "redis" /\ UNCHANGED <<window, served>>
      BY DEF Restart
    <2> QED
      BY <1>1, <1>3, <2>1, RestartBooks
  <1>5. CachedInv'
    <2>1. CachedInv
      BY <1>1, PageParts
    <2>2. Revoked(cached) \in Tickets \cup {None}
      BY <2>1, MaybeTicket DEF CachedInv
    <2> QED
      BY <1>2, <1>3, <2>1, <2>2 DEF CachedInv
  <1>6. InflightInv'
    <2>1. CASE inflight = None
      <3>1. inflight' = inflight
        BY <1>2, <2>1
      <3> QED
        BY <1>1, <3>1, Frames
    <2>2. CASE inflight # None
      BY <1>2, <2>2, Unanswered
    <2> QED
      BY <2>1, <2>2
  <1>7. HooksInv'
    <2> DEFINE F(h) == IF hook[h].pc \in {"opening", "open"} THEN Rescheduled(hook[h])
                       ELSE hook[h]
    <2>1. PICK f : f = [h \in Hooks |-> F(h)]
      OBVIOUS
    <2>2. ASSUME NEW h \in Hooks
          PROVE  f[h] \in HookState /\ HookInv(f[h])
      <3>1. hook[h] \in HookState /\ HookInv(hook[h])
        BY <1>1, PageParts DEF HooksInv
      <3>2. Rescheduled(hook[h]) \in HookState /\ HookInv(Rescheduled(hook[h]))
        BY <3>1, HookFacts
      <3>3. f[h] = F(h)
        BY <2>1
      <3> QED
        BY <3>1, <3>2, <3>3
    <2>3. hook' = [h \in Hooks |-> f[h]]
      BY <1>2, <2>1
    <2> QED
      BY <2>2, <2>3, AllHooks
  <1>8. ClickInv'
    <2>1. CASE click.pc = "posting"
      BY <1>2, <2>1, ClickDone
    <2>2. CASE click.pc # "posting"
      BY <1>1, <1>2, <2>2, Frames
    <2> QED
      BY <2>1, <2>2
  <1>9. PageInv'
    BY <1>5, <1>6, <1>7, <1>8, PagePartsNext
  <1> QED
    BY <1>1, <1>3, <1>4, <1>9, FaultTyped DEF CInv, BoundsTyped

\* A request and the ticket it carries grow older together.
LEMMA InTimeAges ==
  ASSUME NEW r, NEW s, InTime(r), r.age \in Nat,
         s.age = r.age + 1, s.ticket = Aged(r.ticket)
  PROVE  InTime(s)
  <1>1. r.ticket \in Tickets /\ r.ticket.age + Transit < TTL + r.age
    BY DEF InTime
  <1>2. /\ Aged(r.ticket) \in Tickets /\ Aged(r.ticket).age <= r.ticket.age + 1
        /\ Aged(r.ticket).age \in Nat /\ r.ticket.age \in Nat
    BY <1>1, TicketFacts
  <1>3. Aged(r.ticket).age + Transit < TTL + (r.age + 1)
    BY <1>1, <1>2, Constants
  <1> QED
    BY <1>2, <1>3 DEF InTime

\* A run of the effect after a tick.
LEMMA HookTicks ==
  ASSUME NEW r \in HookState, HookInv(r), r.pc = "opening" => r.age < Transit
  PROVE  HookOlder(r) \in HookState /\ HookInv(HookOlder(r))
  <1>0. PICK s : s = HookOlder(r)
    OBVIOUS
  <1>1. r.timer \in 0..Retry /\ r.age \in 0..Transit /\ r.ticket \in Tickets \cup {None}
    BY DEF HookState
  <1>2. Aged(r.ticket) \in Tickets \cup {None}
    BY <1>1, MaybeTicket
  <1>3. (IF r.timer > 0 THEN r.timer - 1 ELSE 0) \in 0..Retry
    BY <1>1, Constants
  <1>4. (IF r.pc = "opening" THEN r.age + 1 ELSE r.age) \in 0..Transit
    BY <1>1, Constants
  <1>5. s \in HookState
    BY <1>0, <1>2, <1>3, <1>4 DEF HookState, HookOlder
  <1>6. /\ s.pc = r.pc /\ s.live = r.live /\ s.ticket = Aged(r.ticket)
        /\ s.age = IF r.pc = "opening" THEN r.age + 1 ELSE r.age
    BY <1>0 DEF HookState, HookOlder
  <1>7. s.pc = "opening" => InTime(s)
    <2>1. SUFFICES ASSUME r.pc = "opening" PROVE InTime(s)
      BY <1>6
    <2>2. InTime(r) /\ r.age \in Nat /\ s.age = r.age + 1
      BY <1>1, <1>6, <2>1, Constants DEF HookInv
    <2> QED
      BY <1>6, <2>2, InTimeAges
  <1> QED
    BY <1>0, <1>5, <1>6, <1>7 DEF HookInv

\* A tick.
LEMMA TickKeeps ==
  ASSUME CInv, Tick
  PROVE  CInv'
  <1>1. LimiterInv /\ PageInv /\ BoundsTyped
    BY DEF CInv
  <1>2. UNCHANGED <<mode, backend, gate, session, clicks, others, faults>>
    BY DEF Tick
  <1>3. LimiterInv'
    <2>1. /\ expiry' = IF expiry = 0 THEN 0 ELSE expiry - 1
          /\ window' = IF expiry = 1 THEN Zeros
                       ELSE [i \in Ages |-> IF i = 1 THEN 0 ELSE window[i - 1]]
          /\ served' = [i \in 1..Window |-> IF i = 1 THEN 0 ELSE served[i - 1]]
      BY DEF Tick
    <2> QED
      BY <1>1, <1>2, <2>1, TickBooks
  <1>4. CachedInv'
    <2>1. CachedInv /\ cached' = Aged(cached)
      BY <1>1, PageParts DEF Tick
    <2>2. Aged(cached) \in Tickets \cup {None}
      BY <2>1, MaybeTicket DEF CachedInv
    <2> QED
      BY <1>2, <2>1, <2>2 DEF CachedInv
  <1>5. InflightInv'
    <2>1. CASE inflight = None
      <3>1. inflight' = inflight
        BY <2>1 DEF Tick
      <3> QED
        BY <1>1, <3>1, Frames
    <2>2. CASE inflight # None /\ inflight.pc = "asked"
      <3>1. inflight' = [inflight EXCEPT !.age = @ + 1] /\ inflight.age < Transit
        BY <2>2 DEF Tick
      <3>2. inflight \in Asked
        BY <1>1, <2>2, InflightFacts
      <3>3. inflight.age + 1 \in 0..Transit
        BY <1>1, <2>2, <3>1, InflightFacts, Constants
      <3>4. inflight' \in Asked /\ inflight'.pc = "asked"
        BY <3>1, <3>2, <3>3 DEF Asked
      <3>5. inflight' \notin Answer
        BY <3>4 DEF Answer
      <3> QED
        BY <3>4, <3>5 DEF InflightInv, AnswerInv
    <2>3. CASE inflight # None /\ inflight.pc = "answer"
      <3>1. inflight' = Older(inflight) /\ inflight.age < Transit
        BY <2>3 DEF Tick
      <3>2. inflight \in Answer
        BY <1>1, <2>3, InflightFacts
      <3>3. inflight.age \in 0..Transit /\ inflight.ticket \in Tickets \cup {None}
        BY <3>2 DEF Answer
      <3>4. inflight.age + 1 \in 0..Transit /\ Aged(inflight.ticket) \in Tickets \cup {None}
        BY <3>1, <3>3, MaybeTicket, Constants
      <3>5. inflight' \in Answer
        BY <3>1, <3>2, <3>4 DEF Answer, Older
      <3>6. inflight'.age = inflight.age + 1 /\ inflight'.ticket = Aged(inflight.ticket)
        BY <3>1, <3>2 DEF Answer, Older
      <3>7. inflight'.ticket # None => inflight'.ticket.age <= inflight'.age
        <4>1. SUFFICES ASSUME inflight'.ticket # None
                       PROVE  inflight'.ticket.age <= inflight'.age
          OBVIOUS
        <4>2. inflight.ticket # None
          BY <3>6, <4>1 DEF Aged
        <4>3. inflight.ticket \in Tickets
          BY <3>3, <4>2
        <4>4. inflight.ticket.age <= inflight.age
          BY <1>1, <2>3, <3>2, <4>2 DEF PageInv, AnswerInv
        <4>5. /\ inflight.ticket.age \in Nat /\ Aged(inflight.ticket).age \in Nat
              /\ Aged(inflight.ticket).age <= inflight.ticket.age + 1
          BY <4>3, TicketFacts
        <4> QED
          BY <3>3, <3>6, <4>4, <4>5, Constants
      <3> QED
        BY <3>5, <3>7 DEF InflightInv, AnswerInv
    <2> QED
      BY <1>1, <2>1, <2>2, <2>3, InflightFacts
  <1>6. HooksInv'
    <2>1. PICK f : f = [h \in Hooks |-> HookOlder(hook[h])]
      OBVIOUS
    <2>2. ASSUME NEW h \in Hooks
          PROVE  f[h] \in HookState /\ HookInv(f[h])
      <3>1. hook[h] \in HookState /\ HookInv(hook[h])
        BY <1>1, PageParts DEF HooksInv
      <3>2. hook[h].pc = "opening" => hook[h].age < Transit
        BY DEF Tick
      <3>3. f[h] = HookOlder(hook[h])
        BY <2>1
      <3> QED
        BY <3>1, <3>2, <3>3, HookTicks
    <2>3. hook' = [h \in Hooks |-> f[h]]
      BY <2>1 DEF Tick
    <2> QED
      BY <2>2, <2>3, AllHooks
  <1>7. ClickInv'
    <2>1. CASE click.pc # "posting"
      <3>1. click' = click
        BY <2>1 DEF Tick
      <3> QED
        BY <1>1, <3>1, Frames
    <2>2. CASE click.pc = "posting"
      <3>1. click' = Older(click) /\ click.age < Transit
        BY <2>2 DEF Tick
      <3>2. click \in ClickState /\ InTime(click)
        BY <1>1, <2>2, PageParts DEF ClickInv
      <3>3. click.age \in 0..Transit /\ click.ticket \in Tickets \cup {None}
        BY <3>2 DEF ClickState
      <3>4. click.age + 1 \in 0..Transit /\ Aged(click.ticket) \in Tickets \cup {None}
        BY <3>1, <3>3, MaybeTicket, Constants
      <3>5. click' \in ClickState
        BY <3>1, <3>2, <3>4 DEF ClickState, Older
      <3>6. click'.age = click.age + 1 /\ click'.ticket = Aged(click.ticket)
        BY <3>1, <3>2 DEF ClickState, Older
      <3>7. PICK c : c = click'
        OBVIOUS
      <3>8. InTime(c)
        BY <3>2, <3>3, <3>6, <3>7, InTimeAges, Constants
      <3> QED
        BY <3>5, <3>7, <3>8 DEF ClickInv
    <2> QED
      BY <2>1, <2>2
  <1>8. PageInv'
    BY <1>4, <1>5, <1>6, <1>7, PagePartsNext
  <1> QED
    BY <1>1, <1>2, <1>3, <1>8 DEF CInv, BoundsTyped

-----------------------------------------------------------------------------
(* The theorems. *)

\* The limiter has let nothing through, and nobody has signed in.
LEMMA InitEstablishes ==
  ASSUME ConsoleInit
  PROVE  CInv
  <1>1. <<mode, backend>> \in Deployments
    <2>1. PICK d \in Deployments : mode = d[1] /\ backend = d[2]
      BY DEF ConsoleInit
    <2>2. d = <<d[1], d[2]>>
      BY ConsoleAssumption
    <2> QED
      BY <2>1, <2>2
  <1>2. /\ window = Zeros /\ served = [i \in 1..Window |-> 0] /\ expiry = 0
        /\ gate = "checking" /\ session = FALSE /\ cached = None /\ inflight = None
        /\ hook = [h \in Hooks |-> Unmounted] /\ click = NoClick
        /\ clicks = 0 /\ others = 0 /\ faults = 0
    BY DEF ConsoleInit
  <1>3. LimiterTyped
    BY <1>1, <1>2, Constants DEF LimiterTyped, Zeros
  <1>4. LimiterInv
    BY <1>2, <1>3, EmptyBooks
  <1>5. Unmounted \in HookState /\ HookInv(Unmounted)
    BY Constants DEF Unmounted, HookState, HookInv
  <1>6. HooksInv
    BY <1>2, <1>5 DEF HooksInv
  <1>7. ClickInv
    BY <1>2, NoClickFacts DEF ClickInv
  <1>8. InflightInv /\ CachedInv
    BY <1>2 DEF InflightInv, CachedInv, AnswerInv
  <1>9. BoundsTyped
    BY <1>2, Constants DEF BoundsTyped
  <1> QED
    BY <1>4, <1>6, <1>7, <1>8, <1>9, PageParts DEF CInv

\* No step of the page, the API, other pages or the clock breaks the invariant.
LEMMA NextKeeps ==
  ASSUME CInv, [ConsoleNext]_cvars
  PROVE  CInv'
  <1>1. CASE UNCHANGED cvars
    <2>1. /\ UNCHANGED <<mode, backend, window, expiry, served>>
          /\ UNCHANGED <<gate, session, cached, inflight, hook, click>>
          /\ UNCHANGED <<clicks, others, faults>>
      BY <1>1 DEF cvars, limiter, page
    <2> QED
      BY <2>1, LimiterIdle, PageIdle DEF CInv, BoundsTyped
  <1>2. ASSUME NEW h \in Hooks, Connect(h) \/ Handshake(h) \/ SocketDrops(h) \/ Remount(h)
        PROVE  CInv'
    BY <1>2, ConnectKeeps, HandshakeKeeps, SocketDropsKeeps, RemountKeeps
  <1>3. CASE CreateTicket \/ TicketRequestLost \/ SendCommand \/ OtherRequest
    BY <1>3, CreateTicketKeeps, TicketRequestLostKeeps, SendCommandKeeps, OtherRequestKeeps
  <1>4. CASE GateOpens \/ SignIn \/ SessionExpires \/ HandleCommand \/ TicketSettles
    BY <1>4, GateOpensKeeps, SignInKeeps, SessionExpiresKeeps, HandleCommandKeeps,
       TicketSettlesKeeps
  <1>5. CASE Restart \/ Tick
    BY <1>5, RestartKeeps, TickKeeps
  <1> QED
    BY <1>1, <1>2, <1>3, <1>4, <1>5 DEF ConsoleNext

\* CInv holds throughout, for any budget, window, lifetimes and numbers of requests.
THEOREM ConsoleInvariant == ConsoleSpec => []CInv
  <1>1. ConsoleInit => CInv
    BY InitEstablishes
  <1>2. CInv /\ [ConsoleNext]_cvars => CInv'
    BY NextKeeps
  <1> QED
    BY <1>1, <1>2, PTL DEF ConsoleSpec

\* Every variable of the console keeps its type.
THEOREM ConsoleTyped == ConsoleSpec => []ConsoleTypeOK
  <1>1. CInv => ConsoleTypeOK
    <2>1. SUFFICES ASSUME CInv PROVE ConsoleTypeOK
      OBVIOUS
    <2>2. LimiterTyped /\ PageTyped /\ BoundsTyped
      BY <2>1 DEF CInv, LimiterInv, PageInv
    <2>3. \A h \in Hooks :
             /\ hook[h].pc \in {"none", "new", "ticket", "opening", "open", "waiting", "gone"}
             /\ hook[h].live \in BOOLEAN /\ hook[h].timer \in 0..Retry
             /\ hook[h].age \in 0..Transit /\ hook[h].ticket \in Tickets \cup {None}
      BY <2>2 DEF PageTyped, HookState
    <2>4. click.pc \in {"idle", "ticket", "posting"} /\ click.age \in 0..Transit
      BY <2>2 DEF PageTyped, ClickState
    <2> QED
      BY <2>2, <2>3, <2>4
      DEF ConsoleTypeOK, LimiterTyped, PageTyped, BoundsTyped, Asked, Answer
  <1> QED
    BY <1>1, ConsoleInvariant, PTL

\* The limiter keeps its budget, however requests of several processes are stamped
\* and counted, and whichever of those a failing Redis lets through are in the window.
THEOREM BudgetKept == ConsoleSpec => []BudgetHolds
  <1>1. CInv => BudgetHolds
    BY BudgetFromBooks DEF CInv
  <1> QED
    BY <1>1, ConsoleInvariant, PTL

\* The margin of getTicket covers the transit and the slow clock: no ticket expires on
\* its way to the API.
THEOREM TicketsOutlastUse == ConsoleSpec => []TicketOutlastsUse
  <1>1. ASSUME NEW r, InTime(r), r.age \in 0..Transit
        PROVE  r.ticket.age < TTL
    <2>1. r.ticket \in Tickets /\ r.ticket.age + Transit < TTL + r.age
      BY <1>1 DEF InTime
    <2>2. r.ticket.age \in Nat
      BY <2>1, TicketFacts
    <2> QED
      BY <1>1, <2>1, <2>2, Constants
  <1>2. CInv => TicketOutlastsUse
    <2>1. SUFFICES ASSUME CInv PROVE TicketOutlastsUse
      OBVIOUS
    <2>2. HooksInv /\ ClickInv
      BY <2>1, PageParts DEF CInv
    <2>3. ASSUME NEW h \in Hooks, hook[h].pc = "opening"
          PROVE  hook[h].ticket.age < TTL
      <3>1. hook[h].age \in 0..Transit /\ InTime(hook[h])
        BY <2>2, <2>3 DEF HooksInv, HookState, HookInv
      <3> QED
        BY <1>1, <3>1
    <2>4. ASSUME click.pc = "posting"
          PROVE  click.ticket.age < TTL
      <3>1. click.age \in 0..Transit /\ InTime(click)
        BY <2>2, <2>4 DEF ClickInv, ClickState
      <3> QED
        BY <1>1, <3>1
    <2> QED
      BY <2>3, <2>4 DEF TicketOutlastsUse
  <1> QED
    BY <1>2, ConsoleInvariant, PTL

\* No socket is open for a run of the effect that was cleaned up.
THEOREM NoSocketOrphaned == ConsoleSpec => []NoOrphanSocket
  <1>1. CInv => NoOrphanSocket
    BY DEF CInv, PageInv, HookInv, NoOrphanSocket
  <1> QED
    BY <1>1, ConsoleInvariant, PTL
=============================================================================
