------------------------- MODULE ProviderCall_proofs -------------------------
(***************************************************************************)
(* Proofs about one call of a provider: the reply it streams               *)
(* (GuardedStream), and the token a Vertex call is made with (VertexAuth). *)
(*                                                                         *)
(* The reply's four invariants hold for any text deltas in any order, any  *)
(* holdback window and any shortest match the window is wide enough for.   *)
(* None is inductive.  StreamInv says what each release has settled: the   *)
(* text that came is cut in two between its matches, its first part is     *)
(* what the client reads, screened, and while the provider may go on the   *)
(* cut stays between the matches whatever still comes (Final).             *)
(***************************************************************************)
EXTENDS GuardedStream, VertexAuth, RouteTiers_proofs

-----------------------------------------------------------------------------
(* Where a text may be cut *)

\* A secret-to-be: only "s" from i to j, long enough to match.
Run(text, i, j) ==
  /\ i \in 1..Len(text) /\ j \in 1..Len(text) /\ j - i + 1 >= MinMatch
  /\ \A k \in i..j : text[k] = "s"

\* No match of text lies on both sides of c.
Between(text, c) ==
  /\ \A i \in 1..c : \A j \in (c + 1)..Len(text) : ~ Run(text, i, j)
  /\ ~ (c \in 1..(Len(text) - 1) /\ text[c] = "b" /\ text[c + 1] = "n")

\* Nor will one, whatever comes after text.
Final(text, c) ==
  /\ Between(text, c)
  /\ c # 0 => \E k \in c..Len(text) : text[k] # "s"
  /\ c # 0 /\ c = Len(text) => text[c] # "b"

\* A run is part of a secret.
LEMMA RunIsInSecret ==
  ASSUME NEW text, IsList(text), NEW i, NEW j, Run(text, i, j)
  PROVE  \E m \in Secrets(text) : m[1] <= i /\ j <= m[2]
  <1>1. PICK l \in Nat : l = Len(text) /\ DOMAIN text = 1..l
    BY ListShape
  <1>2. i \in 1..l /\ j \in 1..l /\ i <= j /\ j - i + 1 >= MinMatch /\ MinMatch \in Nat
        /\ \A k \in i..j : text[k] = "s"
    BY <1>1, OutputScanAssumption DEF Run
  <1> DEFINE Lefts == {x \in 1..i : \A k \in x..i : text[k] = "s"}
             Rights == {d \in 0..l : l - d >= j /\ \A k \in j..(l - d) : text[k] = "s"}
  <1>3. PICK x \in Lefts : \A y \in Lefts : x <= y
    <2>1. i \in Lefts /\ Lefts \subseteq Nat
      BY <1>2
    <2> HIDE DEF Lefts
    <2> QED BY <2>1, LeastOf
  <1>4. PICK d \in Rights : \A e \in Rights : d <= e
    <2>1. l - j \in Rights /\ Rights \subseteq Nat
      BY <1>2
    <2> HIDE DEF Rights
    <2> QED BY <2>1, LeastOf
  <1>5. PICK y \in Nat : y = l - d /\ y \in j..l
    BY <1>2, <1>4
  <1>6. x \in 1..i /\ \A k \in x..y : text[k] = "s"
    <2>1. (\A k \in x..i : text[k] = "s") /\ (\A k \in j..y : text[k] = "s") /\ x \in 1..i
      BY <1>3, <1>4, <1>5
    <2>2. ASSUME NEW k \in x..y PROVE text[k] = "s"
      <3>1. k \in x..i \/ k \in i..j \/ k \in j..y
        BY <1>2, <1>5, <2>1
      <3> QED BY <1>2, <2>1, <3>1
    <2> QED BY <2>1, <2>2
  <1>7. x = 1 \/ text[x - 1] # "s"
    <2> SUFFICES ASSUME x # 1, text[x - 1] = "s" PROVE FALSE
      OBVIOUS
    <2>1. x - 1 \in 1..i /\ ~ (x <= x - 1)
      BY <1>2, <1>6
    <2>2. \A k \in (x - 1)..i : text[k] = "s"
      <3>1. ASSUME NEW k \in (x - 1)..i PROVE text[k] = "s"
        <4>1. k = x - 1 \/ k \in x..y
          BY <1>2, <1>5, <1>6
        <4> QED BY <1>6, <4>1
      <3> QED BY <3>1
    <2> QED BY <1>3, <2>1, <2>2
  <1>8. y = l \/ text[y + 1] # "s"
    <2> SUFFICES ASSUME y # l, text[y + 1] = "s" PROVE FALSE
      OBVIOUS
    <2>1. d - 1 \in 0..l /\ l - (d - 1) = y + 1 /\ y + 1 >= j /\ ~ (d <= d - 1)
      BY <1>2, <1>4, <1>5
    <2>2. ASSUME NEW k \in j..(y + 1) PROVE text[k] = "s"
      <3>1. k = y + 1 \/ k \in j..y
        BY <1>2, <1>5
      <3>2. k \in x..y \/ k = y + 1
        BY <1>2, <1>6, <3>1
      <3> QED BY <1>6, <3>2
    <2>3. d - 1 \in Rights
      BY <2>1, <2>2
    <2> QED BY <1>4, <2>1, <2>3
  <1>9. <<x, y>> \in Secrets(text)
    <2>1. x \in 1..l /\ y \in 1..l /\ y - x + 1 >= MinMatch
      BY <1>2, <1>5, <1>6
    <2> QED BY <1>1, <1>6, <1>7, <1>8, <2>1 DEF Secrets
  <1> QED BY <1>2, <1>5, <1>6, <1>9

\* What a match is.
LEMMA SecretIs ==
  ASSUME NEW text, IsList(text), NEW m \in Secrets(text)
  PROVE  /\ m = <<m[1], m[2]>> /\ Run(text, m[1], m[2]) /\ m[1] <= m[2]
         /\ m[1] \in 1..Len(text) /\ m[2] \in 1..Len(text)
         /\ m[1] = 1 \/ text[m[1] - 1] # "s"
         /\ m[2] = Len(text) \/ text[m[2] + 1] # "s"
  <1>1. DOMAIN text = 1..Len(text) /\ Len(text) \in Nat
    BY ListShape
  <1>2. m \in (1..Len(text)) \X (1..Len(text)) /\ m[2] - m[1] + 1 >= MinMatch
        /\ (\A i \in m[1]..m[2] : text[i] = "s")
        /\ (m[1] = 1 \/ text[m[1] - 1] # "s")
        /\ (m[2] = Len(text) \/ text[m[2] + 1] # "s")
    BY <1>1 DEF Secrets
  <1>3. m[1] <= m[2]
    BY <1>1, <1>2, OutputScanAssumption
  <1> QED BY <1>2, <1>3 DEF Run

\* A banned word is two symbols of the text, one after the other.
LEMMA BannedIs ==
  ASSUME NEW text, IsList(text), NEW m \in Banned(text)
  PROVE  /\ m = <<m[1], m[2]>> /\ m[1] \in 1..Len(text) /\ m[2] \in 1..Len(text)
         /\ m[2] = m[1] + 1 /\ text[m[1]] = "b" /\ text[m[2]] = "n"
  BY ListShape DEF Banned

\* The release point settles between the matches, at the end if all may go.
LEMMA SettledIs ==
  ASSUME NEW text, IsList(text), NEW cut \in 0..Len(text)
  PROVE  /\ Settled(text, cut) \in 0..cut /\ Between(text, Settled(text, cut))
         /\ cut = Len(text) => Settled(text, cut) = cut
  <1>1. PICK l \in Nat : l = Len(text)
    BY ListShape
  <1> DEFINE matches == Secrets(text) \cup Banned(text)
             Clean(c) == \A m \in matches : ~(m[1] - 1 < c /\ c < m[2])
             Good(c) == Clean(c) /\ \A d \in (c + 1)..cut : ~ Clean(d)
             at == CHOOSE c \in 0..cut : Good(c)
             T == {d \in 0..cut : Clean(cut - d)}
  <1>2. \A m \in matches : m[1] \in 1..l /\ m[2] \in 1..l
    BY <1>1, SecretIs, BannedIs
  <1> HIDE DEF matches
  <1>3. Clean(0) /\ Clean(l)
    BY <1>2
  <1>4. \E c \in 0..cut : Good(c)
    <2>1. cut \in T /\ T \subseteq Nat
      <3>1. cut - cut = 0 /\ cut \in 0..cut
        BY <1>1
      <3> HIDE DEF Clean
      <3>2. Clean(cut - cut)
        BY <1>3, <3>1
      <3> QED BY <3>1, <3>2
    <2>2. PICK d \in T : \A e \in T : d <= e
      <3> HIDE DEF T
      <3> QED BY <2>1, LeastOf
    <2> HIDE DEF Clean
    <2>3. d \in 0..cut /\ cut - d \in 0..cut /\ Clean(cut - d)
      BY <2>2
    <2>4. ASSUME NEW e \in (cut - d + 1)..cut, Clean(e) PROVE FALSE
      <3>1. cut - e \in 0..cut /\ cut - (cut - e) = e /\ ~ (d <= cut - e)
        BY <2>3
      <3>2. cut - e \in T
        BY <2>4, <3>1
      <3> QED BY <2>2, <3>1, <3>2
    <2>5. Good(cut - d)
      BY <2>3, <2>4
    <2> HIDE DEF Good
    <2> QED BY <2>3, <2>5
  <1>5. at \in 0..cut /\ Good(at)
    <2> HIDE DEF Good
    <2> QED BY <1>4
  <1>6. Settled(text, cut) = at
    BY DEF Settled, matches
  <1>7. Clean(at) /\ \A d \in (at + 1)..cut : ~ Clean(d)
    BY <1>5
  <1> HIDE DEF at, Good
  <1>8. cut = l => at = cut
    <2> HIDE DEF Clean
    <2> SUFFICES ASSUME cut = l, at # cut PROVE FALSE
      OBVIOUS
    <2>1. l \in (at + 1)..cut
      BY <1>5
    <2> QED BY <1>3, <1>7, <2>1
  <1>9. Between(text, at)
    <2>1. ASSUME NEW i \in 1..at, NEW j \in (at + 1)..Len(text), Run(text, i, j) PROVE FALSE
      <3>1. PICK m \in Secrets(text) : m[1] <= i /\ j <= m[2]
        BY <2>1, RunIsInSecret
      <3>2. m \in matches /\ m[1] \in 1..l /\ m[2] \in 1..l
        BY <1>2 DEF matches
      <3>3. m[1] - 1 < at /\ at < m[2]
        BY <1>1, <1>5, <3>1, <3>2
      <3> QED BY <1>7, <3>2, <3>3
    <2>2. ASSUME at \in 1..(Len(text) - 1), text[at] = "b", text[at + 1] = "n" PROVE FALSE
      <3>1. at \in DOMAIN text /\ at + 1 \in DOMAIN text
        BY <1>1, <2>2, ListShape
      <3>2. <<at, at + 1>> \in matches
        BY <2>2, <3>1 DEF Banned, matches
      <3>3. at - 1 < at /\ at < at + 1
        BY <1>5
      <3> QED BY <1>7, <3>2, <3>3
    <2> QED BY <2>1, <2>2 DEF Between
  <1> QED BY <1>1, <1>5, <1>6, <1>8, <1>9

\* What is to be read where in two lists put together.
IsJoined(v, a, b, la, lb) ==
  /\ la = Len(a) /\ lb = Len(b) /\ DOMAIN a = 1..la /\ DOMAIN b = 1..lb
  /\ IsList(v) /\ Len(v) = la + lb /\ DOMAIN v = 1..(la + lb)
  /\ \A i \in 1..la : v[i] = a[i]
  /\ \A i \in 1..lb : v[la + i] = b[i]
  /\ \A i \in (la + 1)..(la + lb) : i - la \in 1..lb /\ v[i] = b[i - la]

\* Every two lists, put together, are joined.
LEMMA Joined ==
  ASSUME NEW a, IsList(a), NEW b, IsList(b)
  PROVE  \E la, lb \in Nat : IsJoined(a \o b, a, b, la, lb)
  <1>1. PICK la \in Nat : la = Len(a) /\ DOMAIN a = 1..la
    BY ListShape
  <1>2. PICK lb \in Nat : lb = Len(b) /\ DOMAIN b = 1..lb
    BY ListShape
  <1>3. IsList(a \o b) /\ Len(a \o b) = la + lb
            /\ (\A i \in 1..la : (a \o b)[i] = a[i])
            /\ \A i \in 1..lb : (a \o b)[la + i] = b[i]
    BY <1>1, <1>2, PutTogether
  <1>4. DOMAIN (a \o b) = 1..(la + lb)
    BY <1>3, ListShape
  <1>5. ASSUME NEW i \in (la + 1)..(la + lb) PROVE i - la \in 1..lb /\ (a \o b)[i] = b[i - la]
    <2>1. i - la \in 1..lb /\ la + (i - la) = i
      OBVIOUS
    <2> QED BY <1>3, <2>1
  <1>6. IsJoined(a \o b, a, b, la, lb)
    BY <1>1, <1>2, <1>3, <1>4, <1>5 DEF IsJoined
  <1> QED BY <1>6

\* What makes a match.
LEMMA MakesSecret ==
  ASSUME NEW text, NEW l \in Nat, l = Len(text), DOMAIN text = 1..l,
         NEW x \in 1..l, NEW y \in 1..l, y - x + 1 >= MinMatch, \A k \in x..y : text[k] = "s",
         x = 1 \/ text[x - 1] # "s", y = l \/ text[y + 1] # "s"
  PROVE  <<x, y>> \in Secrets(text)
  <1>1. <<x, y>> \in (DOMAIN text) \X (DOMAIN text)
    OBVIOUS
  <1> QED BY <1>1 DEF Secrets

\* Two symbols that read as the banned word are one of its matches.
LEMMA MakesBanned ==
  ASSUME NEW text, NEW x \in DOMAIN text, NEW y \in DOMAIN text, y = x + 1, text[x] = "b", text[y] = "n"
  PROVE  <<x, y>> \in Banned(text)
  <1>1. <<x, y>> \in (DOMAIN text) \X (DOMAIN text)
    OBVIOUS
  <1> QED BY <1>1 DEF Banned

-----------------------------------------------------------------------------
(* Screening text in two parts *)

\* The places of a match of b where b follows n characters.
Shifted(ms, n) == {<<m[1] + n, m[2] + n>> : m \in ms}

\* Cut where no match is, a text has the secrets of its parts,
LEMMA SecretsCut ==
  ASSUME NEW a, IsList(a), NEW b, IsList(b), NEW la \in Nat, NEW lb \in Nat,
         NEW v, IsJoined(v, a, b, la, lb), Between(v, la)
  PROVE  Secrets(v) = Secrets(a) \cup Shifted(Secrets(b), la)
  <1>1. /\ la = Len(a) /\ lb = Len(b) /\ DOMAIN a = 1..la /\ DOMAIN b = 1..lb
        /\ IsList(v) /\ Len(v) = la + lb /\ DOMAIN v = 1..(la + lb)
        /\ \A i \in 1..la : v[i] = a[i]
        /\ \A i \in 1..lb : v[la + i] = b[i]
        /\ \A i \in (la + 1)..(la + lb) : i - la \in 1..lb /\ v[i] = b[i - la]
    BY DEF IsJoined
  <1>2. \A i \in 1..la : \A j \in (la + 1)..(la + lb) : ~ Run(v, i, j)
    BY <1>1, Between(v, la) DEF Between
  <1>3. ASSUME NEW m \in Secrets(v) PROVE m \in Secrets(a) \cup Shifted(Secrets(b), la)
    <2>1. /\ m = <<m[1], m[2]>> /\ Run(v, m[1], m[2]) /\ m[1] <= m[2]
          /\ m[1] \in 1..(la + lb) /\ m[2] \in 1..(la + lb)
          /\ m[1] = 1 \/ v[m[1] - 1] # "s"
          /\ m[2] = la + lb \/ v[m[2] + 1] # "s"
      BY <1>1, <1>3, SecretIs
    <2>2. m[2] - m[1] + 1 >= MinMatch /\ \A k \in m[1]..m[2] : v[k] = "s"
      BY <2>1 DEF Run
    <2>3. PICK x, y \in Nat : x = m[1] /\ y = m[2]
      BY <2>1
    <2>4. m[2] <= la \/ m[1] > la
      BY <1>2, <2>1, <2>3
    <2>5. CASE m[2] <= la
      <3>1. x \in 1..la /\ y \in 1..la
        BY <2>1, <2>3, <2>5
      <3>2. \A k \in x..y : a[k] = "s"
        BY <1>1, <2>2, <2>3, <3>1
      <3>3. x = 1 \/ a[x - 1] # "s"
        <4>1. x = 1 \/ x - 1 \in 1..la
          BY <3>1
        <4> QED BY <1>1, <2>1, <2>3, <4>1
      <3>4. y = la \/ a[y + 1] # "s"
        <4>1. y = la \/ (y + 1 \in 1..la /\ y # la + lb)
          BY <3>1
        <4> QED BY <1>1, <2>1, <2>3, <4>1
      <3>5. <<x, y>> \in Secrets(a)
        BY <1>1, <2>2, <2>3, <3>1, <3>2, <3>3, <3>4, MakesSecret
      <3> QED BY <2>1, <2>3, <3>5
    <2>6. CASE m[1] > la
      <3>1. x - la \in 1..lb /\ y - la \in 1..lb /\ y - la - (x - la) + 1 = y - x + 1
        BY <2>1, <2>3, <2>6
      <3>2. ASSUME NEW k \in (x - la)..(y - la) PROVE b[k] = "s"
        <4>1. k \in 1..lb /\ la + k \in x..y
          BY <3>1
        <4> QED BY <1>1, <2>2, <2>3, <4>1
      <3>3. x - la = 1 \/ b[x - la - 1] # "s"
        <4>1. x - la = 1 \/ (x - la - 1 \in 1..lb /\ la + (x - la - 1) = x - 1 /\ x # 1)
          BY <3>1
        <4> QED BY <1>1, <2>1, <2>3, <4>1
      <3>4. y - la = lb \/ b[y - la + 1] # "s"
        <4>1. y - la = lb \/ (y - la + 1 \in 1..lb /\ la + (y - la + 1) = y + 1 /\ y # la + lb)
          BY <3>1
        <4> QED BY <1>1, <2>1, <2>3, <4>1
      <3>5. <<x - la, y - la>> \in Secrets(b)
        BY <1>1, <2>2, <2>3, <3>1, <3>2, <3>3, <3>4, MakesSecret
      <3>6. <<x - la, y - la>>[1] + la = x /\ <<x - la, y - la>>[2] + la = y
        BY <3>1
      <3> QED BY <2>1, <2>3, <3>5, <3>6 DEF Shifted
    <2> QED BY <2>4, <2>5, <2>6
  <1>4. ASSUME NEW m \in Secrets(a) PROVE m \in Secrets(v)
    <2>1. /\ m = <<m[1], m[2]>> /\ Run(a, m[1], m[2]) /\ m[1] <= m[2]
          /\ m[1] \in 1..la /\ m[2] \in 1..la
          /\ m[1] = 1 \/ a[m[1] - 1] # "s"
          /\ m[2] = la \/ a[m[2] + 1] # "s"
      BY <1>1, <1>4, SecretIs
    <2>2. PICK x, y \in Nat : x = m[1] /\ y = m[2]
      BY <2>1
    <2>3. y - x + 1 >= MinMatch /\ \A k \in x..y : v[k] = "s"
      BY <1>1, <2>1, <2>2 DEF Run
    <2>4. x = 1 \/ v[x - 1] # "s"
      <3>1. x = 1 \/ x - 1 \in 1..la
        BY <2>1, <2>2
      <3> QED BY <1>1, <2>1, <2>2, <3>1
    <2>5. y = la + lb \/ v[y + 1] # "s"
      <3>1. CASE y = la
        <4> SUFFICES ASSUME y # la + lb, v[y + 1] = "s" PROVE FALSE
          OBVIOUS
        <4>1. x \in 1..la /\ y + 1 \in (la + 1)..(la + lb) /\ y + 1 - x + 1 >= MinMatch
              /\ x \in 1..(la + lb) /\ y + 1 \in 1..(la + lb)
          BY <2>1, <2>2, <2>3, <3>1, OutputScanAssumption
        <4>2. \A k \in x..(y + 1) : v[k] = "s"
          BY <2>3
        <4>3. Run(v, x, y + 1)
          BY <1>1, <4>1, <4>2 DEF Run
        <4> QED BY <1>2, <4>1, <4>3
      <3>2. CASE y # la
        <4>1. y + 1 \in 1..la
          BY <2>1, <2>2, <3>2
        <4> QED BY <1>1, <2>1, <2>2, <3>2, <4>1
      <3> QED BY <3>1, <3>2
    <2>6. x \in 1..(la + lb) /\ y \in 1..(la + lb) /\ la + lb \in Nat
      BY <2>1, <2>2
    <2>7. <<x, y>> \in Secrets(v)
      BY <1>1, <2>3, <2>4, <2>5, <2>6, MakesSecret
    <2> QED BY <2>1, <2>2, <2>7
  <1>5. ASSUME NEW m \in Secrets(b) PROVE <<m[1] + la, m[2] + la>> \in Secrets(v)
    <2>1. /\ Run(b, m[1], m[2]) /\ m[1] <= m[2]
          /\ m[1] \in 1..lb /\ m[2] \in 1..lb
          /\ m[1] = 1 \/ b[m[1] - 1] # "s"
          /\ m[2] = lb \/ b[m[2] + 1] # "s"
      BY <1>1, <1>5, SecretIs
    <2>2. PICK x, y \in 1..lb : x = m[1] /\ y = m[2] /\ x <= y
      BY <2>1
    <2>3. y - x + 1 >= MinMatch /\ \A k \in x..y : b[k] = "s"
      BY <2>1, <2>2 DEF Run
    <2> DEFINE p == x + la
               q == y + la
    <2>4. /\ p \in 1..(la + lb) /\ q \in 1..(la + lb) /\ q - p = y - x /\ la + lb \in Nat
          /\ p = la + x /\ q = la + y /\ q > la
      BY <2>2
    <2> HIDE DEF p, q
    <2>5. \A k \in p..q : v[k] = "s"
      <3>1. ASSUME NEW k \in p..q PROVE v[k] = "s"
        <4>1. k \in (la + 1)..(la + lb) /\ k - la \in x..y
          BY <2>2, <2>4
        <4> QED BY <1>1, <2>3, <4>1
      <3> QED BY <3>1
    <2>6. q - p + 1 >= MinMatch
      <3>1. q - p + 1 = y - x + 1
        BY <2>4
      <3> QED BY <2>3, <3>1
    <2>7. p = 1 \/ v[p - 1] # "s"
      <3>1. CASE x = 1
        <4> SUFFICES ASSUME p # 1, v[p - 1] = "s" PROVE FALSE
          OBVIOUS
        <4>1. la \in 1..la /\ p - 1 = la /\ q \in (la + 1)..(la + lb) /\ la \in 1..(la + lb)
          BY <2>4, <3>1
        <4>2. \A k \in la..q : v[k] = "s"
          <5>1. ASSUME NEW k \in la..q PROVE v[k] = "s"
            <6>1. k = la \/ k \in p..q
              BY <2>4, <4>1
            <6> QED BY <2>5, <4>1, <6>1
          <5> QED BY <5>1
        <4>3. q - la + 1 >= MinMatch
          BY <2>4, <2>6, <4>1, OutputScanAssumption
        <4>4. Run(v, la, q)
          BY <1>1, <2>4, <4>1, <4>2, <4>3 DEF Run
        <4> QED BY <1>2, <4>1, <4>4
      <3>2. CASE x # 1
        <4>1. x - 1 \in 1..lb /\ la + (x - 1) = p - 1
          BY <2>2, <2>4, <3>2
        <4>2. b[x - 1] # "s"
          BY <2>1, <2>2, <3>2
        <4> QED BY <1>1, <4>1, <4>2
      <3> QED BY <3>1, <3>2
    <2>8. q = la + lb \/ v[q + 1] # "s"
      <3>1. CASE y = lb
        BY <2>4, <3>1
      <3>2. CASE y # lb
        <4>1. y + 1 \in 1..lb /\ la + (y + 1) = q + 1
          BY <2>2, <2>4, <3>2
        <4>2. b[y + 1] # "s"
          BY <2>1, <2>2, <3>2
        <4> QED BY <1>1, <4>1, <4>2
      <3> QED BY <3>1, <3>2
    <2>9. <<p, q>> \in Secrets(v)
      BY <1>1, <2>4, <2>5, <2>6, <2>7, <2>8, MakesSecret
    <2> QED BY <2>2, <2>9 DEF p, q
  <1> QED BY <1>3, <1>4, <1>5 DEF Shifted

\* The secrets of a text cut between its matches are those of its parts.
LEMMA SecretsOfParts ==
  ASSUME NEW a, IsList(a), NEW b, IsList(b), Between(a \o b, Len(a))
  PROVE  Secrets(a \o b) = Secrets(a) \cup Shifted(Secrets(b), Len(a))
  <1>1. PICK la, lb \in Nat : IsJoined(a \o b, a, b, la, lb)
    BY Joined
  <1>2. la = Len(a)
    BY <1>1 DEF IsJoined
  <1> QED BY <1>1, <1>2, SecretsCut

\* and the banned words of its parts.
LEMMA BannedCut ==
  ASSUME NEW a, IsList(a), NEW b, IsList(b), NEW la \in Nat, NEW lb \in Nat,
         NEW v, IsJoined(v, a, b, la, lb), Between(v, la)
  PROVE  Banned(v) = Banned(a) \cup Shifted(Banned(b), la)
  <1>1. /\ la = Len(a) /\ lb = Len(b) /\ DOMAIN a = 1..la /\ DOMAIN b = 1..lb
        /\ IsList(v) /\ Len(v) = la + lb /\ DOMAIN v = 1..(la + lb)
        /\ \A i \in 1..la : v[i] = a[i]
        /\ \A i \in 1..lb : v[la + i] = b[i]
        /\ \A i \in (la + 1)..(la + lb) : i - la \in 1..lb /\ v[i] = b[i - la]
    BY DEF IsJoined
  <1>2. ~ (la \in 1..(la + lb - 1) /\ v[la] = "b" /\ v[la + 1] = "n")
    BY <1>1, Between(v, la) DEF Between
  <1>3. ASSUME NEW m \in Banned(v) PROVE m \in Banned(a) \cup Shifted(Banned(b), la)
    <2>1. m = <<m[1], m[2]>> /\ m[1] \in 1..(la + lb) /\ m[2] \in 1..(la + lb)
          /\ m[2] = m[1] + 1 /\ v[m[1]] = "b" /\ v[m[2]] = "n"
      BY <1>1, <1>3, BannedIs
    <2>2. PICK x \in Nat : x = m[1]
      BY <2>1
    <2>3. x # la
      <3>1. x = la => la \in 1..(la + lb - 1)
        BY <2>1, <2>2
      <3> QED BY <1>2, <2>1, <2>2, <3>1
    <2>4. CASE x < la
      <3>1. x \in 1..la /\ x + 1 \in 1..la
        BY <2>1, <2>2, <2>4
      <3>2. <<x, x + 1>> \in Banned(a)
        BY <1>1, <2>1, <2>2, <3>1, MakesBanned
      <3> QED BY <2>1, <2>2, <3>2
    <2>5. CASE x > la
      <3>1. PICK k, n \in 1..lb : k = x - la /\ n = k + 1 /\ la + k = x /\ la + n = x + 1
        <4>1. x - la \in 1..lb /\ x - la + 1 \in 1..lb /\ la + (x - la) = x /\ la + (x - la + 1) = x + 1
          BY <2>1, <2>2, <2>5
        <4> QED BY <4>1
      <3>2. b[k] = "b" /\ b[n] = "n"
        <4>1. v[la + k] = b[k] /\ v[la + n] = b[n]
          BY <1>1
        <4> QED BY <2>1, <2>2, <3>1, <4>1
      <3>3. <<k, n>> \in Banned(b)
        BY <1>1, <3>1, <3>2, MakesBanned
      <3>4. <<k, n>>[1] + la = x /\ <<k, n>>[2] + la = x + 1
        BY <3>1
      <3> QED BY <2>1, <2>2, <3>3, <3>4 DEF Shifted
    <2> QED BY <2>3, <2>4, <2>5
  <1>4. ASSUME NEW m \in Banned(a) PROVE m \in Banned(v)
    <2>1. m = <<m[1], m[2]>> /\ m[1] \in 1..la /\ m[2] \in 1..la
          /\ m[2] = m[1] + 1 /\ a[m[1]] = "b" /\ a[m[2]] = "n"
      BY <1>1, <1>4, BannedIs
    <2>2. m[1] \in 1..(la + lb) /\ m[2] \in 1..(la + lb)
      BY <2>1
    <2>3. v[m[1]] = "b" /\ v[m[2]] = "n"
      BY <1>1, <2>1
    <2>4. DOMAIN v = 1..(la + lb)
      BY <1>1
    <2>5. <<m[1], m[2]>> \in Banned(v)
      BY <2>1, <2>2, <2>3, <2>4, MakesBanned
    <2> QED BY <2>1, <2>5
  <1>5. ASSUME NEW m \in Banned(b) PROVE <<m[1] + la, m[2] + la>> \in Banned(v)
    <2>1. m[1] \in 1..lb /\ m[2] \in 1..lb
          /\ m[2] = m[1] + 1 /\ b[m[1]] = "b" /\ b[m[2]] = "n"
      BY <1>1, <1>5, BannedIs
    <2>2. PICK x, y \in 1..lb : x = m[1] /\ y = m[2] /\ y = x + 1
      BY <2>1
    <2> DEFINE p == x + la
               q == y + la
    <2>3. p \in 1..(la + lb) /\ q \in 1..(la + lb) /\ q = p + 1 /\ p = la + x /\ q = la + y
      BY <2>2
    <2> HIDE DEF p, q
    <2>4. v[p] = "b" /\ v[q] = "n"
      <3>1. v[la + x] = b[x] /\ v[la + y] = b[y]
        BY <1>1
      <3> QED BY <2>1, <2>2, <2>3, <3>1
    <2>5. <<p, q>> \in Banned(v)
      BY <1>1, <2>3, <2>4, MakesBanned
    <2> QED BY <2>2, <2>5 DEF p, q
  <1> QED BY <1>3, <1>4, <1>5 DEF Shifted

\* So are its banned words.
LEMMA BannedOfParts ==
  ASSUME NEW a, IsList(a), NEW b, IsList(b), Between(a \o b, Len(a))
  PROVE  Banned(a \o b) = Banned(a) \cup Shifted(Banned(b), Len(a))
  <1>1. PICK la, lb \in Nat : IsJoined(a \o b, a, b, la, lb)
    BY Joined
  <1>2. la = Len(a)
    BY <1>1 DEF IsJoined
  <1> QED BY <1>1, <1>2, BannedCut

-----------------------------------------------------------------------------
(* Masking *)

\* What place i of text shows once the spans ms are hidden.
Cell(text, ms, i) ==
  IF i \notin UNION {m[1]..m[2] : m \in ms} THEN <<text[i]>>
  ELSE IF i \in {m[1] : m \in ms} THEN <<Mask>> ELSE <<>>
Cells(text) == [i \in DOMAIN text |-> Cell(text, Secrets(text), i)]

\* The masked text is the cells, one after the other.
LEMMA MaskedByCells ==
  ASSUME NEW text, IsList(text)
  PROVE  /\ Masked(text) = FlattenSeq(Cells(text)) /\ AreLists(Cells(text)) /\ Len(Cells(text)) = Len(text)
         /\ DOMAIN Cells(text) = 1..Len(text) /\ IsList(Masked(text))
  <1>1. PICK l \in Nat : l = Len(text) /\ DOMAIN text = 1..l
    BY ListShape
  <1>2. Masked(text) = FlattenSeq(Cells(text))
    BY DEF Masked, Cells, Cell
  <1>3. Cells(text) = [i \in 1..l |-> Cells(text)[i]]
    BY <1>1 DEF Cells
  <1>4. IsList(Cells(text)) /\ Len(Cells(text)) = l /\ DOMAIN Cells(text) = 1..l
    BY <1>3, ListOf
  <1>5. ASSUME NEW i \in DOMAIN Cells(text) PROVE IsList(Cells(text)[i])
    <2>1. Cells(text)[i] \in {<<text[i]>>, <<Mask>>, <<>>}
      BY <1>1, <1>4 DEF Cells, Cell
    <2>2. IsList(<<text[i]>>) /\ IsList(<<Mask>>) /\ IsList(<<>>)
      BY Single, NoElement
    <2> QED BY <2>1, <2>2
  <1>6. AreLists(Cells(text))
    BY <1>4, <1>5 DEF AreLists
  <1>7. IsList(FlattenSeq(Cells(text)))
    BY <1>6, FlattenReads DEF AreLists
  <1> QED BY <1>1, <1>2, <1>4, <1>6, <1>7

\* A place shows what it shows in the part it lies in.
LEMMA CellsOfParts ==
  ASSUME NEW a, IsList(a), NEW b, IsList(b), NEW la \in Nat, NEW lb \in Nat,
         NEW v, IsJoined(v, a, b, la, lb), Between(v, la)
  PROVE  /\ \A i \in 1..la : Cells(v)[i] = Cells(a)[i]
         /\ \A i \in 1..lb : Cells(v)[la + i] = Cells(b)[i]
  <1>1. /\ la = Len(a) /\ lb = Len(b) /\ DOMAIN a = 1..la /\ DOMAIN b = 1..lb
        /\ DOMAIN v = 1..(la + lb)
        /\ \A i \in 1..la : v[i] = a[i]
        /\ \A i \in 1..lb : v[la + i] = b[i]
    BY DEF IsJoined
  <1>2. Secrets(v) = Secrets(a) \cup Shifted(Secrets(b), la)
    BY SecretsCut
  <1>3. /\ \A m \in Secrets(a) : m[1] \in 1..la /\ m[2] \in 1..la
        /\ \A m \in Secrets(b) : m[1] \in 1..lb /\ m[2] \in 1..lb
    BY <1>1, SecretIs
  <1>4. \A n \in Shifted(Secrets(b), la) : \E m \in Secrets(b) : n[1] = m[1] + la /\ n[2] = m[2] + la
    BY DEF Shifted
  <1>5. \A m \in Secrets(b) : \E n \in Shifted(Secrets(b), la) : n[1] = m[1] + la /\ n[2] = m[2] + la
    <2>1. ASSUME NEW m \in Secrets(b)
          PROVE  \E n \in Shifted(Secrets(b), la) : n[1] = m[1] + la /\ n[2] = m[2] + la
      <3> DEFINE n == <<m[1] + la, m[2] + la>>
      <3>1. n \in Shifted(Secrets(b), la) /\ n[1] = m[1] + la /\ n[2] = m[2] + la
        BY DEF Shifted
      <3> HIDE DEF n
      <3> QED BY <3>1
    <2> QED BY <2>1
  <1>6. ASSUME NEW i \in 1..la PROVE Cells(v)[i] = Cells(a)[i]
    <2>1. \A m \in Secrets(v) : i \in m[1]..m[2] => m \in Secrets(a)
      <3>1. ASSUME NEW m \in Shifted(Secrets(b), la), i \in m[1]..m[2] PROVE FALSE
        <4>1. PICK n \in Secrets(b) : m[1] = n[1] + la /\ m[2] = n[2] + la
          BY <1>4
        <4>2. n[1] \in 1..lb /\ n[2] \in 1..lb
          BY <1>3
        <4>3. n[1] + la > la
          BY <4>2
        <4> QED BY <3>1, <4>1, <4>2, <4>3
      <3> QED BY <1>2, <3>1
    <2>2. \A m \in Secrets(v) : i = m[1] => m \in Secrets(a)
      <3>1. ASSUME NEW m \in Shifted(Secrets(b), la), i = m[1] PROVE FALSE
        <4>1. PICK n \in Secrets(b) : m[1] = n[1] + la
          BY <1>4
        <4>2. n[1] \in 1..lb
          BY <1>3
        <4>3. n[1] + la > la
          BY <4>2
        <4> QED BY <3>1, <4>1, <4>3
      <3> QED BY <1>2, <3>1
    <2>3. i \in UNION {m[1]..m[2] : m \in Secrets(v)} <=> i \in UNION {m[1]..m[2] : m \in Secrets(a)}
      BY <1>2, <2>1
    <2>4. i \in {m[1] : m \in Secrets(v)} <=> i \in {m[1] : m \in Secrets(a)}
      BY <1>2, <2>2
    <2>5. Cell(v, Secrets(v), i) = Cell(a, Secrets(a), i)
      BY <1>1, <2>3, <2>4 DEF Cell
    <2>6. i \in DOMAIN v /\ i \in DOMAIN a
      BY <1>1
    <2> QED BY <2>5, <2>6 DEF Cells
  <1>7. ASSUME NEW i \in 1..lb PROVE Cells(v)[la + i] = Cells(b)[i]
    <2> DEFINE p == la + i
    <2>1. p > la /\ p \in 1..(la + lb)
      OBVIOUS
    <2>2. v[p] = b[i]
      BY <1>1
    <2>3. \A x \in 1..lb : (x + la = p <=> x = i) /\ (x + la <= p <=> x <= i) /\ (p <= x + la <=> i <= x)
      OBVIOUS
    <2> HIDE DEF p
    <2>4. i \in UNION {m[1]..m[2] : m \in Secrets(b)} <=> p \in UNION {m[1]..m[2] : m \in Secrets(v)}
      <3>1. ASSUME NEW m \in Secrets(b), i \in m[1]..m[2]
            PROVE  \E n \in Secrets(v) : p \in n[1]..n[2]
        <4>1. PICK n \in Shifted(Secrets(b), la) : n[1] = m[1] + la /\ n[2] = m[2] + la
          BY <1>5
        <4>2. PICK x, y \in 1..lb : x = m[1] /\ y = m[2]
          BY <1>3
        <4>3. x + la <= p /\ p <= y + la /\ x + la \in Nat /\ y + la \in Nat /\ p \in Nat
          BY <2>1, <2>3, <3>1, <4>2
        <4>4. p \in n[1]..n[2]
          BY <4>1, <4>2, <4>3
        <4> QED BY <1>2, <4>4
      <3>2. ASSUME NEW n \in Secrets(v), p \in n[1]..n[2]
            PROVE  \E m \in Secrets(b) : i \in m[1]..m[2]
        <4>1. n \notin Secrets(a)
          BY <1>3, <2>1, <3>2
        <4>2. PICK m \in Secrets(b) : n[1] = m[1] + la /\ n[2] = m[2] + la
          BY <1>2, <1>4, <4>1
        <4>3. PICK x, y \in 1..lb : x = m[1] /\ y = m[2]
          BY <1>3
        <4>4. x + la <= p /\ p <= y + la
          BY <3>2, <4>2, <4>3
        <4>5. x <= i /\ i <= y
          BY <2>3, <4>4
        <4> QED BY <4>3, <4>5
      <3> QED BY <3>1, <3>2
    <2>5. i \in {m[1] : m \in Secrets(b)} <=> p \in {m[1] : m \in Secrets(v)}
      <3>1. ASSUME NEW m \in Secrets(b), i = m[1]
            PROVE  \E n \in Secrets(v) : p = n[1]
        <4>1. PICK n \in Shifted(Secrets(b), la) : n[1] = m[1] + la
          BY <1>5
        <4> QED BY <1>2, <2>3, <3>1, <4>1
      <3>2. ASSUME NEW n \in Secrets(v), p = n[1]
            PROVE  \E m \in Secrets(b) : i = m[1]
        <4>1. n \notin Secrets(a)
          BY <1>3, <2>1, <3>2
        <4>2. PICK m \in Secrets(b) : n[1] = m[1] + la
          BY <1>2, <1>4, <4>1
        <4>3. PICK x \in 1..lb : x = m[1]
          BY <1>3
        <4>4. x = i
          BY <2>3, <3>2, <4>2, <4>3
        <4> QED BY <4>3, <4>4
      <3> QED BY <3>1, <3>2
    <2>6. Cell(v, Secrets(v), p) = Cell(b, Secrets(b), i)
      BY <2>2, <2>4, <2>5 DEF Cell
    <2>7. p \in DOMAIN v /\ i \in DOMAIN b
      BY <1>1, <2>1
    <2>8. Cells(v)[p] = Cells(b)[i]
      BY <2>6, <2>7 DEF Cells
    <2> QED BY <2>8 DEF p
  <1> QED BY <1>6, <1>7

\* A list that reads like two lists put together is those two put together.
ReadsLike(s, a, b, la, lb) ==
  /\ IsList(s) /\ Len(s) = la + lb
  /\ \A i \in 1..la : s[i] = a[i]
  /\ \A i \in 1..lb : s[la + i] = b[i]

\* A list that reads like two others, one after the other, is their join.
LEMMA SameJoin ==
  ASSUME NEW s, NEW a, NEW b, NEW la \in Nat, NEW lb \in Nat,
         NEW w, IsJoined(w, a, b, la, lb), ReadsLike(s, a, b, la, lb)
  PROVE  w = s
  <1>1. /\ IsList(w) /\ Len(w) = la + lb
        /\ \A i \in 1..la : w[i] = a[i]
        /\ \A i \in 1..lb : w[la + i] = b[i]
    BY DEF IsJoined
  <1>s. /\ IsList(s) /\ Len(s) = la + lb
        /\ \A i \in 1..la : s[i] = a[i]
        /\ \A i \in 1..lb : s[la + i] = b[i]
    BY DEF ReadsLike
  <1>2. ASSUME NEW k \in 1..(la + lb) PROVE w[k] = s[k]
    <2>1. CASE k <= la
      <3>1. k \in 1..la
        BY <2>1
      <3> QED BY <1>1, <1>s, <3>1
    <2>2. CASE ~ (k <= la)
      <3>1. PICK i \in 1..lb : la + i = k
        <4>1. k - la \in 1..lb /\ la + (k - la) = k
          BY <2>2
        <4> QED BY <4>1
      <3> QED BY <1>1, <1>s, <3>1
    <2> QED BY <2>1, <2>2
  <1> QED BY <1>1, <1>s, <1>2, SameList

\* Cut where no match is, a text is masked part by part.
LEMMA MaskedParts ==
  ASSUME NEW a, IsList(a), NEW b, IsList(b), Between(a \o b, Len(a))
  PROVE  Masked(a \o b) = Masked(a) \o Masked(b)
  <1> DEFINE v == a \o b
  <1>1. PICK la, lb \in Nat : IsJoined(v, a, b, la, lb)
    BY Joined
  <1>2. la = Len(a) /\ lb = Len(b) /\ IsList(v) /\ Len(v) = la + lb
    BY <1>1 DEF IsJoined
  <1>3. Between(v, la)
    BY <1>2
  <1> HIDE DEF v
  <1>4. /\ \A i \in 1..la : Cells(v)[i] = Cells(a)[i]
        /\ \A i \in 1..lb : Cells(v)[la + i] = Cells(b)[i]
    BY <1>1, <1>3, CellsOfParts
  <1>5. /\ AreLists(Cells(a)) /\ AreLists(Cells(b)) /\ AreLists(Cells(v))
        /\ Len(Cells(a)) = la /\ Len(Cells(b)) = lb /\ Len(Cells(v)) = la + lb
        /\ Masked(a) = FlattenSeq(Cells(a)) /\ Masked(b) = FlattenSeq(Cells(b)) /\ Masked(v) = FlattenSeq(Cells(v))
    BY <1>2, MaskedByCells
  <1>6. Cells(v) = Cells(a) \o Cells(b)
    <2>1. IsList(Cells(a)) /\ IsList(Cells(b)) /\ IsList(Cells(v))
      BY <1>5 DEF AreLists
    <2>2. PICK n, k \in Nat : IsJoined(Cells(a) \o Cells(b), Cells(a), Cells(b), n, k)
      BY <2>1, Joined
    <2> DEFINE w == Cells(a) \o Cells(b)
    <2> HIDE DEF w
    <2>3. IsJoined(w, Cells(a), Cells(b), la, lb)
      BY <1>5, <2>2 DEF IsJoined, w
    <2>4. ReadsLike(Cells(v), Cells(a), Cells(b), la, lb)
      BY <1>4, <1>5, <2>1 DEF ReadsLike
    <2>5. w = Cells(v)
      BY <1>1, <2>3, <2>4, SameJoin
    <2> QED BY <2>5 DEF w
  <1>7. FlattenSeq(Cells(a) \o Cells(b)) = FlattenSeq(Cells(a)) \o FlattenSeq(Cells(b))
    BY <1>5, FlattenBoth
  <1>8. Masked(v) = Masked(a) \o Masked(b)
    BY <1>5, <1>6, <1>7
  <1> QED BY <1>8 DEF v

\* What one place of a masked text shows.
LEMMA CellIs ==
  ASSUME NEW text, IsList(text), NEW i \in DOMAIN text
  PROVE  /\ \/ Cells(text)[i] = <<text[i]>>
            \/ Cells(text)[i] = <<Mask>> /\ Secrets(text) # {}
            \/ Cells(text)[i] = <<>>
         /\ text[i] # "s" => Cells(text)[i] = <<text[i]>>
         /\ Cells(text)[i] = <<>> => i - 1 \in DOMAIN text /\ text[i - 1] = "s"
  <1>1. PICK l \in Nat : l = Len(text) /\ DOMAIN text = 1..l
    BY ListShape
  <1>2. Cells(text)[i] = Cell(text, Secrets(text), i)
    BY DEF Cells
  <1>3. \A m \in Secrets(text) : m[1] \in 1..l /\ m[2] \in 1..l /\ \A k \in m[1]..m[2] : text[k] = "s"
    BY <1>1, SecretIs DEF Run
  <1>4. <<text[i]>> # <<>> /\ <<Mask>> # <<>>
    OBVIOUS
  <1>5. CASE i \notin UNION {m[1]..m[2] : m \in Secrets(text)}
    BY <1>2, <1>4, <1>5 DEF Cell
  <1>6. CASE i \in UNION {m[1]..m[2] : m \in Secrets(text)}
    <2>1. PICK m \in Secrets(text) : i \in m[1]..m[2]
      BY <1>6
    <2>2. text[i] = "s"
      BY <1>3, <2>1
    <2>3. CASE i \in {n[1] : n \in Secrets(text)}
      BY <1>2, <1>4, <1>6, <2>1, <2>2, <2>3 DEF Cell
    <2>4. CASE i \notin {n[1] : n \in Secrets(text)}
      <3>1. Cells(text)[i] = <<>>
        BY <1>2, <1>6, <2>4 DEF Cell
      <3>2. PICK x, y \in 1..l : x = m[1] /\ y = m[2]
        BY <1>3
      <3>3. i # x /\ i \in x..y
        BY <2>1, <2>4, <3>2
      <3>4. i - 1 \in 1..l /\ i - 1 \in x..y
        BY <3>3
      <3>5. text[i - 1] = "s"
        BY <1>3, <3>2, <3>4
      <3> QED BY <1>1, <2>2, <3>1, <3>4, <3>5
    <2> QED BY <2>3, <2>4
  <1> QED BY <1>5, <1>6

\* A masked text shows what the text holds, and the mask where a secret was.
LEMMA MaskedRange ==
  ASSUME NEW text, IsList(text)
  PROVE  /\ Range(Masked(text)) \subseteq Range(text) \cup {Mask}
         /\ Mask \in Range(Masked(text)) => Mask \in Range(text) \/ Secrets(text) # {}
         /\ Secrets(text) # {} => Mask \in Range(Masked(text))
         /\ \A x \in Range(text) : x # "s" => x \in Range(Masked(text))
  <1> DEFINE shown == Masked(text)
             cs == Cells(text)
  <1>1. shown = FlattenSeq(cs) /\ AreLists(cs) /\ DOMAIN cs = 1..Len(text)
    BY MaskedByCells
  <1> HIDE DEF shown, cs
  <1>2. /\ \A k \in DOMAIN shown : \E i \in DOMAIN cs : \E j \in DOMAIN cs[i] : shown[k] = cs[i][j]
        /\ \A i \in DOMAIN cs : \A j \in DOMAIN cs[i] : \E k \in DOMAIN shown : shown[k] = cs[i][j]
    BY <1>1, FlattenRange DEF AreLists
  <1>3. DOMAIN text = DOMAIN cs
    BY <1>1, ListShape
  <1>4. \A x : DOMAIN <<x>> = {1} /\ <<x>>[1] = x
    BY Single
  <1>5. DOMAIN <<>> = {}
    BY NoElement
  <1>6. ASSUME NEW k \in DOMAIN shown
        PROVE  shown[k] \in Range(text) \/ (shown[k] = Mask /\ Secrets(text) # {})
    <2>1. PICK i \in DOMAIN cs : \E j \in DOMAIN cs[i] : shown[k] = cs[i][j]
      BY <1>2
    <2>2. PICK j \in DOMAIN cs[i] : shown[k] = cs[i][j]
      BY <2>1
    <2>3. cs[i] = <<text[i]>> \/ (cs[i] = <<Mask>> /\ Secrets(text) # {}) \/ cs[i] = <<>>
      BY <1>3, CellIs DEF cs
    <2>4. text[i] \in Range(text)
      BY <1>3 DEF Range
    <2> QED BY <1>4, <1>5, <2>2, <2>3, <2>4
  <1>7. ASSUME NEW i \in DOMAIN cs, NEW x, cs[i] = <<x>> PROVE x \in Range(shown)
    <2>1. 1 \in DOMAIN cs[i] /\ cs[i][1] = x
      BY <1>4, <1>7
    <2>2. PICK k \in DOMAIN shown : shown[k] = cs[i][1]
      BY <1>2, <2>1
    <2> QED BY <2>1, <2>2 DEF Range
  <1>8. ASSUME Secrets(text) # {} PROVE Mask \in Range(shown)
    <2>1. PICK m \in Secrets(text) : TRUE
      BY <1>8
    <2>2. m[1] \in DOMAIN cs /\ m[1] \in m[1]..m[2]
      <3>1. m[1] \in 1..Len(text) /\ m[2] \in 1..Len(text) /\ m[1] <= m[2]
        BY SecretIs
      <3> QED BY <1>1, <3>1
    <2>3. cs[m[1]] = <<Mask>>
      <3>1. m[1] \in UNION {n[1]..n[2] : n \in Secrets(text)} /\ m[1] \in {n[1] : n \in Secrets(text)}
        BY <2>2
      <3> QED BY <1>3, <2>2, <3>1 DEF cs, Cells, Cell
    <2> QED BY <1>7, <2>2, <2>3
  <1>9. ASSUME NEW x \in Range(text), x # "s" PROVE x \in Range(shown)
    <2>1. PICK i \in DOMAIN text : x = text[i]
      BY DEF Range
    <2>2. cs[i] = <<x>>
      BY <1>9, <2>1, CellIs DEF cs
    <2> QED BY <1>3, <1>7, <2>2
  <1>10. \A x \in Range(shown) : x \in Range(text) \/ (x = Mask /\ Secrets(text) # {})
    BY <1>6 DEF Range
  <1> QED BY <1>8, <1>9, <1>10 DEF shown

\* Masking brings no banned word together.
LEMMA MaskedKeepsBanned ==
  ASSUME NEW text, IsList(text), Banned(text) = {}
  PROVE  Banned(Masked(text)) = {}
  <1> DEFINE shown == Masked(text)
             cs == Cells(text)
  <1>1. shown = FlattenSeq(cs) /\ AreLists(cs) /\ DOMAIN cs = 1..Len(text) /\ IsList(shown)
    BY MaskedByCells
  <1> HIDE DEF shown, cs
  <1>2. PICK row, col : Reads(row, col, shown, cs)
    BY <1>1, FlattenReads DEF AreLists
  <1>3. PICK l, n \in Nat : DOMAIN text = 1..l /\ DOMAIN cs = 1..l /\ DOMAIN shown = 1..n
    BY <1>1, ListShape
  <1>4. \A i \in 1..l : /\ cs[i] = <<text[i]>> \/ cs[i] = <<Mask>> \/ cs[i] = <<>>
                        /\ cs[i] = <<>> => i - 1 \in 1..l /\ text[i - 1] = "s"
    BY <1>3, CellIs DEF cs
  <1>5. (\A x : DOMAIN <<x>> = {1} /\ <<x>>[1] = x) /\ DOMAIN <<>> = {}
    BY Single, NoElement
  <1>6. ASSUME NEW k \in 1..n PROVE row[k] \in 1..l /\ col[k] = 1 /\ shown[k] \in {text[row[k]], Mask}
    <2>1. row[k] \in DOMAIN cs /\ col[k] \in DOMAIN cs[row[k]] /\ shown[k] = cs[row[k]][col[k]]
      BY <1>2, <1>3 DEF Reads
    <2>2. cs[row[k]] = <<text[row[k]]>> \/ cs[row[k]] = <<Mask>> \/ cs[row[k]] = <<>>
      BY <1>3, <1>4, <2>1
    <2> QED BY <1>3, <1>5, <2>1, <2>2
  <1>7. \A k, j \in 1..n : k < j => row[k] < row[j]
    <2>1. ASSUME NEW k \in 1..n, NEW j \in 1..n, k < j PROVE row[k] < row[j]
      <3>1. row[k] < row[j] \/ (row[k] = row[j] /\ col[k] < col[j])
        BY <1>2, <1>3, <2>1 DEF Reads
      <3>2. ~ (col[k] < col[j])
        BY <1>6
      <3> QED BY <3>1, <3>2
    <2> QED BY <2>1
  <1>8. \A i \in 1..l : cs[i] # <<>> => \E k \in 1..n : row[k] = i
    <2>1. ASSUME NEW i \in 1..l, cs[i] # <<>> PROVE \E k \in 1..n : row[k] = i
      <3>1. 1 \in DOMAIN cs[i]
        BY <1>4, <1>5, <2>1
      <3> QED BY <1>2, <1>3, <3>1 DEF Reads
    <2> QED BY <2>1
  <1>9. ASSUME NEW m \in Banned(shown) PROVE FALSE
    <2>1. /\ m[1] \in 1..n /\ m[2] \in 1..n /\ m[2] = m[1] + 1 /\ shown[m[1]] = "b" /\ shown[m[2]] = "n"
      BY <1>1, <1>3, <1>9, BannedIs, ListShape
    <2>2. PICK k, j \in 1..n : k = m[1] /\ j = m[2] /\ j = k + 1
      BY <2>1
    <2>3. PICK p, q \in 1..l : p = row[k] /\ q = row[j]
      BY <1>6
    <2>4. "b" # Mask /\ "n" # Mask
      BY DEF Mask
    <2>5. text[p] = "b" /\ text[q] = "n"
      BY <1>6, <2>1, <2>2, <2>3, <2>4
    <2>6. p < q
      BY <1>7, <2>2, <2>3
    <2>7. CASE q = p + 1
      <3>1. <<p, q>> \in Banned(text)
        BY <1>3, <2>5, <2>7, MakesBanned
      <3> QED BY <3>1
    <2>8. CASE q # p + 1
      <3>1. p + 1 \in 1..l /\ p < p + 1 /\ p + 1 < q /\ p + 1 - 1 = p
        BY <2>6, <2>8
      <3>2. cs[p + 1] # <<>>
        BY <1>4, <2>5, <3>1
      <3>3. PICK i \in 1..n : row[i] = p + 1
        BY <1>8, <3>1, <3>2
      <3>4. i < k \/ i = k \/ i = j \/ j < i
        BY <2>2
      <3>5. i < k => p + 1 < p
        BY <1>7, <2>3, <3>3
      <3>6. j < i => q < p + 1
        BY <1>7, <2>3, <3>3
      <3> QED BY <2>3, <3>1, <3>3, <3>4, <3>5, <3>6
    <2> QED BY <2>7, <2>8
  <1> QED BY <1>9 DEF shown

\* Flattening one list, and none.
LEMMA OneList ==
  ASSUME NEW a, IsList(a)
  PROVE  /\ FlattenSeq(<<a>>) = a /\ AreLists(<<a>>)
         /\ FlattenSeq(<<>>) = <<>> /\ AreLists(<<>>)
  <1>1. AreLists(<<>>) /\ FlattenSeq(<<>>) = <<>>
    <2>1. Len(<<>>) = 0
      BY EmptySeq
    <2> QED BY <2>1, NoElement DEF AreLists, FlattenSeq
  <1>2. AreLists(<<>> \o <<a>>) /\ FlattenSeq(<<>> \o <<a>>) = <<>> \o a
    BY <1>1, OneRowMore
  <1>3. <<>> \o <<a>> = <<a>> /\ <<>> \o a = a
    BY Single, NothingAdded
  <1> QED BY <1>1, <1>2, <1>3

\* A mark is shown as it is.
LEMMA MarkIsShown ==
  ASSUME NEW x, x # "s"
  PROVE  /\ Masked(<<x>>) = <<x>> /\ Secrets(<<x>>) = {} /\ Banned(<<x>>) = {}
         /\ Masked(<<>>) = <<>>
  <1>1. IsList(<<x>>) /\ Len(<<x>>) = 1 /\ DOMAIN <<x>> = {1} /\ <<x>>[1] = x
    BY Single
  <1>2. Cells(<<x>>) = <<<<x>>>>
    <2>1. /\ Len(Cells(<<x>>)) = 1 /\ IsList(Cells(<<x>>))
      BY <1>1, MaskedByCells DEF AreLists
    <2>2. Cells(<<x>>)[1] = <<x>>
      BY <1>1, CellIs
    <2>3. IsList(<<<<x>>>>) /\ Len(<<<<x>>>>) = 1 /\ <<<<x>>>>[1] = <<x>>
      BY Single
    <2>4. \A i \in 1..1 : Cells(<<x>>)[i] = <<<<x>>>>[i]
      BY <2>2, <2>3
    <2> QED BY <2>1, <2>3, <2>4, SameList
  <1>3. FlattenSeq(<<<<x>>>>) = <<x>>
    BY <1>1, OneList
  <1>4. Masked(<<x>>) = <<x>>
    BY <1>1, <1>2, <1>3, MaskedByCells
  <1>5. Secrets(<<x>>) = {}
    <2>1. ASSUME NEW m \in Secrets(<<x>>) PROVE FALSE
      <3>1. m[1] = 1 /\ m[2] = 1 /\ \A k \in m[1]..m[2] : <<x>>[k] = "s"
        BY <1>1, SecretIs DEF Run
      <3>2. 1 \in m[1]..m[2]
        BY <3>1
      <3> QED BY <1>1, <3>1, <3>2
    <2> QED BY <2>1
  <1>6. Banned(<<x>>) = {}
    <2>1. ASSUME NEW m \in Banned(<<x>>) PROVE FALSE
      <3>1. m[1] \in 1..1 /\ m[2] \in 1..1 /\ m[2] = m[1] + 1
        BY <1>1, BannedIs
      <3> QED BY <3>1
    <2> QED BY <2>1
  <1>7. Masked(<<>>) = <<>>
    <2>1. IsList(<<>>) /\ Len(<<>>) = 0
      BY NoElement
    <2>2. Len(Cells(<<>>)) = 0 /\ IsList(Cells(<<>>)) /\ Masked(<<>>) = FlattenSeq(Cells(<<>>))
      BY <2>1, MaskedByCells DEF AreLists
    <2>3. Cells(<<>>) = <<>>
      BY <2>2, EmptySeq DEF IsList
    <2> QED BY <2>2, <2>3 DEF FlattenSeq
  <1> QED BY <1>4, <1>5, <1>6, <1>7

-----------------------------------------------------------------------------
(* Where the next part may be cut off *)

\* What is between the matches of a text is between those of its beginning.
LEMMA BetweenBefore ==
  ASSUME NEW w, NEW t, NEW lw \in Nat, NEW lt \in Nat, NEW v, IsJoined(v, w, t, lw, lt),
         NEW c \in 0..lw, Between(v, c)
  PROVE  Between(w, c)
  <1>1. Len(w) = lw /\ Len(v) = lw + lt /\ \A i \in 1..lw : v[i] = w[i]
    BY DEF IsJoined
  <1>2. ASSUME NEW i \in 1..c, NEW j \in (c + 1)..lw, Run(w, i, j) PROVE FALSE
    <2>1. j \in (c + 1)..(lw + lt) /\ i \in 1..(lw + lt) /\ j \in 1..(lw + lt) /\ i..j \subseteq 1..lw
      OBVIOUS
    <2>2. Run(v, i, j)
      BY <1>1, <1>2, <2>1 DEF Run
    <2> QED BY <1>1, <2>1, <2>2, Between(v, c) DEF Between
  <1>3. ASSUME c \in 1..(lw - 1), w[c] = "b", w[c + 1] = "n" PROVE FALSE
    <2>1. c \in 1..(lw + lt - 1) /\ c \in 1..lw /\ c + 1 \in 1..lw
      BY <1>3
    <2>2. v[c] = "b" /\ v[c + 1] = "n"
      BY <1>1, <1>3, <2>1
    <2> QED BY <1>1, <2>1, <2>2, Between(v, c) DEF Between
  <1> QED BY <1>1, <1>2, <1>3 DEF Between

\* What is final lies between the matches of every longer text.
LEMMA FinalHolds ==
  ASSUME NEW w, NEW t, NEW lw \in Nat, NEW lt \in Nat, NEW v, IsJoined(v, w, t, lw, lt),
         NEW c \in 0..lw, Final(w, c)
  PROVE  Between(v, c)
  <1>1. Len(w) = lw /\ Len(v) = lw + lt /\ \A i \in 1..lw : v[i] = w[i]
    BY DEF IsJoined
  <1>2. Between(w, c) /\ (c # 0 => \E k \in c..lw : w[k] # "s") /\ (c # 0 /\ c = lw => w[c] # "b")
    BY <1>1 DEF Final
  <1>3. ASSUME NEW i \in 1..c, NEW j \in (c + 1)..(lw + lt), Run(v, i, j) PROVE FALSE
    <2>1. j - i + 1 >= MinMatch /\ \A k \in i..j : v[k] = "s"
      BY <1>3 DEF Run
    <2>2. CASE j <= lw
      <3>1. i \in 1..lw /\ j \in 1..lw /\ j \in (c + 1)..lw
        BY <2>2
      <3>2. \A k \in i..j : w[k] = "s"
        BY <1>1, <2>1, <3>1
      <3>3. Run(w, i, j)
        BY <1>1, <2>1, <3>1, <3>2 DEF Run
      <3> QED BY <1>1, <1>2, <3>1, <3>3 DEF Between
    <2>3. CASE ~ (j <= lw)
      <3>1. PICK k \in c..lw : w[k] # "s"
        BY <1>2
      <3>2. k \in 1..lw /\ k \in i..j
        BY <2>3
      <3> QED BY <1>1, <2>1, <3>1, <3>2
    <2> QED BY <2>2, <2>3
  <1>4. ASSUME c \in 1..(lw + lt - 1), v[c] = "b", v[c + 1] = "n" PROVE FALSE
    <2>1. c \in 1..lw /\ w[c] = "b"
      BY <1>1, <1>4
    <2>2. c + 1 \in 1..lw /\ c \in 1..(lw - 1)
      BY <1>2, <2>1
    <2>3. w[c + 1] = "n"
      BY <1>1, <1>4, <2>2
    <2> QED BY <1>1, <1>2, <2>1, <2>2, <2>3 DEF Between
  <1> QED BY <1>1, <1>3, <1>4 DEF Between

\* Cut between the matches twice.
LEMMA BetweenLater ==
  ASSUME NEW g, NEW h, NEW lg \in Nat, NEW lh \in Nat, NEW v, IsJoined(v, g, h, lg, lh),
         Between(v, lg), NEW c \in 0..lh, Between(h, c)
  PROVE  Between(v, lg + c)
  <1>1. Len(h) = lh /\ Len(v) = lg + lh /\ \A i \in 1..lh : v[lg + i] = h[i]
    BY DEF IsJoined
  <1>2. /\ \A i \in 1..lg : \A j \in (lg + 1)..(lg + lh) : ~ Run(v, i, j)
        /\ ~ (lg \in 1..(lg + lh - 1) /\ v[lg] = "b" /\ v[lg + 1] = "n")
    BY <1>1, Between(v, lg) DEF Between
  <1>3. /\ \A i \in 1..c : \A j \in (c + 1)..lh : ~ Run(h, i, j)
        /\ ~ (c \in 1..(lh - 1) /\ h[c] = "b" /\ h[c + 1] = "n")
    BY <1>1, Between(h, c) DEF Between
  <1>4. ASSUME NEW i \in 1..(lg + c), NEW j \in (lg + c + 1)..(lg + lh), Run(v, i, j) PROVE FALSE
    <2>1. j \in (lg + 1)..(lg + lh)
      OBVIOUS
    <2>2. ~ (i <= lg)
      <3>1. i <= lg => i \in 1..lg
        OBVIOUS
      <3> QED BY <1>2, <1>4, <2>1, <3>1
    <2>3. PICK x \in 1..c, y \in (c + 1)..lh : lg + x = i /\ lg + y = j
      <3>1. i - lg \in 1..c /\ j - lg \in (c + 1)..lh /\ lg + (i - lg) = i /\ lg + (j - lg) = j
        BY <2>2
      <3> QED BY <3>1
    <2>4. j - i + 1 >= MinMatch /\ \A k \in i..j : v[k] = "s"
      BY <1>4 DEF Run
    <2>5. y - x + 1 >= MinMatch
      <3>1. y - x + 1 = j - i + 1
        BY <2>3
      <3> QED BY <2>4, <3>1
    <2>6. ASSUME NEW k \in x..y PROVE h[k] = "s"
      <3>1. k \in 1..lh /\ lg + k \in i..j
        BY <2>3
      <3> QED BY <1>1, <2>4, <3>1
    <2>7. x \in 1..lh /\ y \in 1..lh
      BY <2>3
    <2>8. Run(h, x, y)
      BY <1>1, <2>5, <2>6, <2>7 DEF Run
    <2> QED BY <1>3, <2>8
  <1>5. ASSUME lg + c \in 1..(lg + lh - 1), v[lg + c] = "b", v[lg + c + 1] = "n" PROVE FALSE
    <2>1. CASE c = 0
      BY <1>2, <1>5, <2>1
    <2>2. CASE c # 0
      <3>1. c \in 1..(lh - 1) /\ c \in 1..lh /\ c + 1 \in 1..lh /\ lg + (c + 1) = lg + c + 1
        BY <1>5, <2>2
      <3>2. h[c] = "b" /\ h[c + 1] = "n"
        BY <1>1, <1>5, <3>1
      <3> QED BY <1>3, <3>1, <3>2
    <2> QED BY <2>1, <2>2
  <1> QED BY <1>1, <1>4, <1>5 DEF Between

\* With a window held back the next cut is final, as the last was.
LEMMA FinalLater ==
  ASSUME NEW g, NEW h, NEW lg \in Nat, NEW lh \in Nat, NEW v, IsJoined(v, g, h, lg, lh),
         Between(v, lg), lg # 0 => \E k \in lg..(lg + lh) : v[k] # "s",
         NEW c \in 0..lh, Between(h, c), c # lh, c # 0 => lh - c >= Holdback
  PROVE  Final(v, lg + c)
  <1>1. Len(h) = lh /\ Len(v) = lg + lh /\ \A i \in 1..lh : v[lg + i] = h[i]
    BY DEF IsJoined
  <1>2. Between(v, lg + c)
    BY BetweenLater
  <1>3. lg + c # lg + lh
    OBVIOUS
  <1>4. ASSUME lg + c # 0 PROVE \E k \in (lg + c)..(lg + lh) : v[k] # "s"
    <2>1. CASE c = 0
      BY <1>4, <2>1
    <2>2. CASE c # 0
      <3> SUFFICES ASSUME \A k \in (lg + c)..(lg + lh) : v[k] = "s" PROVE FALSE
        OBVIOUS
      <3>1. c \in 1..c /\ lh \in (c + 1)..lh /\ c \in 1..lh /\ lh \in 1..lh
        BY <2>2
      <3>2. lh - c + 1 >= MinMatch
        <4>1. MinMatch \in Nat /\ Holdback \in Nat /\ MinMatch <= Holdback + 1
          BY OutputScanAssumption, StreamAssumption
        <4> QED BY <2>2, <4>1
      <3>3. ASSUME NEW k \in c..lh PROVE h[k] = "s"
        <4>1. k \in 1..lh /\ lg + k \in (lg + c)..(lg + lh)
          BY <3>1
        <4> QED BY <1>1, <4>1
      <3>4. Run(h, c, lh)
        BY <1>1, <3>1, <3>2, <3>3 DEF Run
      <3> QED BY <1>1, <3>1, <3>4, Between(h, c) DEF Between
    <2> QED BY <2>1, <2>2
  <1> QED BY <1>1, <1>2, <1>3, <1>4 DEF Final

\* The end of a text, where nothing is held; a mark ends it for good.
LEMMA EndOfText ==
  ASSUME NEW text, IsList(text)
  PROVE  /\ Between(text, Len(text))
         /\ Len(text) # 0 /\ text[Len(text)] \notin {"s", "b"} => Final(text, Len(text))
         /\ Final(text, 0)
  <1>1. PICK l \in Nat : l = Len(text)
    BY ListShape
  <1>2. (l + 1)..l = {} /\ l \notin 1..(l - 1)
    OBVIOUS
  <1>3. Between(text, l)
    BY <1>1, <1>2 DEF Between
  <1>4. ASSUME l # 0, text[l] # "s", text[l] # "b" PROVE Final(text, l)
    <2>1. l \in l..l
      OBVIOUS
    <2> QED BY <1>1, <1>3, <1>4, <2>1 DEF Final
  <1>5. Final(text, 0)
    <2>1. 1..0 = {} /\ 0 \notin 1..(l - 1)
      OBVIOUS
    <2> QED BY <1>1, <2>1 DEF Final, Between
  <1> QED BY <1>1, <1>3, <1>4, <1>5

\* Just before a mark.
LEMMA BeforeMark ==
  ASSUME NEW w, IsList(w), NEW x, x # "s", x # "n"
  PROVE  Between(w \o <<x>>, Len(w))
  <1>1. IsList(<<x>>) /\ Len(<<x>>) = 1 /\ <<x>>[1] = x
    BY Single
  <1>2. PICK lw, lt \in Nat : IsJoined(w \o <<x>>, w, <<x>>, lw, lt)
    BY <1>1, Joined
  <1> DEFINE v == w \o <<x>>
  <1> HIDE DEF v
  <1>3. Len(w) = lw /\ lt = 1 /\ Len(v) = lw + 1 /\ v[lw + 1] = x
    <2>1. Len(w) = lw /\ lt = 1 /\ Len(v) = lw + lt /\ \A i \in 1..lt : v[lw + i] = <<x>>[i]
      BY <1>1, <1>2 DEF v, IsJoined
    <2>2. 1 \in 1..1
      OBVIOUS
    <2> QED BY <1>1, <2>1, <2>2
  <1>4. ASSUME NEW i \in 1..lw, NEW j \in (lw + 1)..(lw + 1), Run(v, i, j) PROVE FALSE
    <2>1. lw + 1 \in i..j
      OBVIOUS
    <2> QED BY <1>3, <1>4, <2>1 DEF Run
  <1>5. Between(v, lw)
    BY <1>3, <1>4 DEF Between
  <1> QED BY <1>3, <1>5 DEF v

-----------------------------------------------------------------------------
(* One release *)

\* What the scan of a released text is worth.
Outcome(p, text) ==
  CASE p = "off"     -> "pass"
    [] p = "observe" -> IF Secrets(text) \cup Banned(text) = {} THEN "pass" ELSE "observe"
    [] p = "block"   -> IF Secrets(text) = {} THEN "pass" ELSE "masked"

\* The outcome of a scan, policy by policy.
LEMMA OutcomeOf ==
  ASSUME NEW text
  PROVE  /\ Outcome("off", text) = "pass"
         /\ Outcome("observe", text) = IF Secrets(text) \cup Banned(text) = {} THEN "pass" ELSE "observe"
         /\ Outcome("block", text) = IF Secrets(text) = {} THEN "pass" ELSE "masked"
  BY DEF Outcome

\* The worse of two outcomes (output.rs rank and worse).
LEMMA WorseOf ==
  /\ \A o \in {"pass", "observe", "masked"} :
       Worse(o, "pass") = o /\ Worse("pass", o) = o /\ Worse(o, o) = o /\ Worse(o, "block") = "block"
  /\ Worse("observe", "observe") = "observe"
  <1>1. Rank("pass") = 0 /\ Rank("observe") = 2 /\ Rank("masked") = 3 /\ Rank("block") = 4
    BY DEF Rank
  <1> QED BY <1>1 DEF Worse

\* The first part of a text cut between its matches has the matches that end in it.
LEMMA MatchesBefore ==
  ASSUME NEW a, IsList(a), NEW b, IsList(b), Between(a \o b, Len(a))
  PROVE  {m \in Secrets(a \o b) \cup Banned(a \o b) : m[2] <= Len(a)} = Secrets(a) \cup Banned(a)
  <1>1. PICK la, lb \in Nat : la = Len(a) /\ lb = Len(b)
    BY ListShape
  <1>2. /\ Secrets(a \o b) = Secrets(a) \cup Shifted(Secrets(b), la)
        /\ Banned(a \o b) = Banned(a) \cup Shifted(Banned(b), la)
    BY <1>1, SecretsOfParts, BannedOfParts
  <1>3. \A m \in Secrets(a) \cup Banned(a) : m[2] <= la
    <2>1. \A m \in Secrets(a) \cup Banned(a) : m[2] \in 1..la
      BY <1>1, SecretIs, BannedIs
    <2> QED BY <2>1
  <1>4. \A m \in Shifted(Secrets(b), la) \cup Shifted(Banned(b), la) : ~ (m[2] <= la)
    <2>1. ASSUME NEW m \in Secrets(b) \cup Banned(b) PROVE ~ (m[2] + la <= la)
      <3>1. m[2] \in 1..lb
        BY <1>1, <2>1, SecretIs, BannedIs
      <3> HIDE <1>1
      <3> QED BY <3>1
    <2> QED BY <2>1 DEF Shifted
  <1> QED BY <1>1, <1>2, <1>3, <1>4

\* What one call of release_output lets go and keeps.
Released(p, h, cut, r, a, b) ==
  /\ IsList(a) /\ IsList(b) /\ h = a \o b /\ Between(h, Len(a))
  /\ Len(a) \in 0..cut /\ (cut = Len(h) => Len(a) = cut)
  /\ p = "block" => Banned(a) = {}
  /\ r.text = Screened(p, a) /\ r.held = b /\ r.outcome = Outcome(p, a)

\* release_output blocks, or lets a first part go that is cut off between the matches.
LEMMA ReleaseIs ==
  ASSUME NEW p \in {"observe", "block"}, NEW h, IsList(h), NEW cut \in 0..Len(h),
         NEW r, r = Release(p, h, cut)
  PROVE  \/ r.blocked /\ p = "block" /\ r.outcome = "block"
         \/ ~ r.blocked /\ \E a, b : Released(p, h, cut, r, a, b)
  <1> DEFINE at == Settled(h, cut)
             a == SubSeq(h, 1, at)
             b == SubSeq(h, at + 1, Len(h))
             past == {m \in Secrets(h) \cup Banned(h) : m[2] <= at}
  <1>1. /\ r.blocked <=> (p = "block" /\ Banned(h) # {})
        /\ r.text = Screened(p, a) /\ r.held = b
        /\ r.outcome = IF p = "block" /\ Banned(h) # {} THEN "block"
                       ELSE IF past = {} THEN "pass"
                       ELSE IF p = "block" THEN "masked" ELSE "observe"
    BY DEF Release
  <1>2. at \in 0..cut /\ at \in 0..Len(h) /\ Between(h, at) /\ (cut = Len(h) => at = cut)
    <2>1. at \in 0..cut /\ Between(h, at) /\ (cut = Len(h) => at = cut)
      BY SettledIs
    <2> HIDE DEF at
    <2>2. at \in 0..Len(h)
      BY <2>1, ListShape
    <2> QED BY <2>1, <2>2
  <1> HIDE DEF at
  <1>3. IsList(a) /\ IsList(b) /\ Len(a) = at /\ h = a \o b
    BY <1>2, CutInTwo
  <1> HIDE DEF a, b
  <1>4. past = Secrets(a) \cup Banned(a)
    <2>1. Between(a \o b, Len(a))
      BY <1>2, <1>3
    <2>2. {m \in Secrets(a \o b) \cup Banned(a \o b) : m[2] <= Len(a)} = Secrets(a) \cup Banned(a)
      BY <1>3, <2>1, MatchesBefore
    <2> QED BY <1>3, <2>2
  <1>5. Banned(a) \subseteq Banned(h)
    <2>1. Between(a \o b, Len(a))
      BY <1>2, <1>3
    <2>2. Banned(a \o b) = Banned(a) \cup Shifted(Banned(b), Len(a))
      BY <1>3, <2>1, BannedOfParts
    <2> QED BY <1>3, <2>2
  <1> HIDE DEF past
  <1>6. CASE p = "block" /\ Banned(h) # {}
    BY <1>1, <1>6
  <1>7. CASE ~ (p = "block" /\ Banned(h) # {})
    <2>1. ~ r.blocked
      BY <1>1, <1>7
    <2>2. p = "block" => Banned(a) = {}
      BY <1>5, <1>7
    <2>3. r.outcome = Outcome(p, a)
      BY <1>1, <1>4, <1>7, <2>2, OutcomeOf
    <2>4. Released(p, h, cut, r, a, b)
      BY <1>1, <1>2, <1>3, <2>2, <2>3 DEF Released
    <2> QED BY <2>1, <2>4
  <1> QED BY <1>6, <1>7

\* Screening part by part is screening the whole, when the parts are cut between the matches.
LEMMA ScreenedGrows ==
  ASSUME NEW p \in Policies, NEW g, IsList(g), NEW a, IsList(a), Between(g \o a, Len(g)),
         p = "block" => Banned(g) = {}, p = "block" => Banned(a) = {}
  PROVE  /\ Screened(p, g \o a) = Screened(p, g) \o Screened(p, a)
         /\ Outcome(p, g \o a) = Worse(Outcome(p, g), Outcome(p, a))
         /\ p = "block" => Banned(g \o a) = {}
  <1>1. /\ Secrets(g \o a) = Secrets(g) \cup Shifted(Secrets(a), Len(g))
        /\ Banned(g \o a) = Banned(g) \cup Shifted(Banned(a), Len(g))
        /\ Masked(g \o a) = Masked(g) \o Masked(a)
    BY SecretsOfParts, BannedOfParts, MaskedParts
  <1>2. \A ms : Shifted(ms, Len(g)) = {} <=> ms = {}
    BY DEF Shifted
  <1>3. /\ Secrets(g \o a) = {} <=> Secrets(g) = {} /\ Secrets(a) = {}
        /\ Banned(g \o a) = {} <=> Banned(g) = {} /\ Banned(a) = {}
    BY <1>1, <1>2
  <1>4. Screened(p, g \o a) = Screened(p, g) \o Screened(p, a)
    BY <1>1 DEF Screened
  <1>5. Outcome(p, g \o a) = Worse(Outcome(p, g), Outcome(p, a))
    <2>1. CASE p = "off"
      BY <2>1, OutcomeOf, WorseOf
    <2>2. CASE p = "observe"
      BY <1>3, <2>2, OutcomeOf, WorseOf
    <2>3. CASE p = "block"
      BY <1>3, <2>3, OutcomeOf, WorseOf
    <2> QED BY <2>1, <2>2, <2>3 DEF Policies
  <1> QED BY <1>3, <1>4, <1>5

-----------------------------------------------------------------------------
(* What has been released of a reply *)

\* Of the text w that came, g has been screened into reply, with worst outcome o,
\* and h is held.
Passed(p, w, h, o, reply, g) ==
  /\ IsList(g) /\ IsList(h) /\ w = g \o h /\ Between(w, Len(g))
  /\ p = "block" => Banned(g) = {}
  /\ reply = Screened(p, g) /\ o = Outcome(p, g)
  /\ p = "off" => h = <<>>

\* The reply was blocked after g, and nothing followed.
Stopped(w, reply, g) ==
  /\ IsList(g) /\ \E rest : IsList(rest) /\ w = g \o rest
  /\ Between(w, Len(g)) /\ Banned(g) = {}
  /\ reply = (Masked(g) \o Filtered) \o Blocked

\* A screened text is a list.
LEMMA ScreenedIsList ==
  ASSUME NEW p, NEW g, IsList(g)
  PROVE  IsList(Screened(p, g))
  BY MaskedByCells DEF Screened

\* More text after a final point is cut off there as well.
LEMMA FinalIsBetween ==
  ASSUME NEW w, IsList(w), NEW t, IsList(t), NEW c \in Nat, c <= Len(w), Final(w, c)
  PROVE  Between(w \o t, c)
  <1>1. PICK lw, lt \in Nat : IsJoined(w \o t, w, t, lw, lt)
    BY Joined
  <1>2. Len(w) = lw
    BY <1>1 DEF IsJoined
  <1>3. c \in 0..lw
    BY <1>2
  <1> QED BY <1>1, <1>3, FinalHolds

\* A list no longer than the list it begins.
LEMMA NotLonger ==
  ASSUME NEW g, IsList(g), NEW h, IsList(h)
  PROVE  Len(g) \in Nat /\ Len(g) <= Len(g \o h) /\ IsList(g \o h)
  <1>1. PICK lg, lh \in Nat : lg = Len(g) /\ lh = Len(h) /\ IsList(g \o h) /\ Len(g \o h) = lg + lh
    BY PutTogether, ListShape
  <1>2. lg <= lg + lh
    OBVIOUS
  <1> QED BY <1>1, <1>2

\* A block stops the reply where the last release ended.
LEMMA Stops ==
  ASSUME NEW w, NEW h, NEW o, NEW reply, NEW g, Passed("block", w, h, o, reply, g), Final(w, Len(g)),
         NEW t, IsList(t)
  PROVE  Stopped(w \o t, (reply \o Filtered) \o Blocked, g)
  <1>1. IsList(g) /\ IsList(h) /\ w = g \o h /\ Banned(g) = {} /\ reply = Masked(g)
    BY DEF Passed, Screened
  <1>2. IsList(w) /\ Len(g) \in Nat /\ Len(g) <= Len(w)
    BY <1>1, NotLonger
  <1>3. Between(w \o t, Len(g))
    BY <1>2, FinalIsBetween
  <1>4. w \o t = g \o (h \o t)
    <2>1. (g \o h) \o t = g \o (h \o t)
      <3>1. AreThree(g, h, t)
        BY <1>1 DEF AreThree
      <3> QED BY <3>1, Assoc
    <2> QED BY <1>1, <2>1
  <1>5. IsList(h \o t)
    BY <1>1, PutTogether
  <1> QED BY <1>1, <1>3, <1>4, <1>5 DEF Stopped

\* Sums and bounds, apart from the lists they are about.
LEMMA SumBound ==
  ASSUME NEW x \in Nat, NEW y \in Nat
  PROVE  x \in 0..(x + y)
  OBVIOUS

\* A position from the cut on is still one when the text grows.
LEMMA RangeBound ==
  ASSUME NEW lg \in Nat, NEW x \in Nat, NEW lt \in Nat, lg # 0, NEW k \in lg..(lg + x)
  PROVE  k \in 1..(lg + x) /\ k \in lg..(lg + (x + lt))
  OBVIOUS

\* The window's release point is the text's length less Holdback, or nothing.
LEMMA WindowIs ==
  ASSUME NEW text, NEW l \in Nat, l = Len(text)
  PROVE  WindowCut(text) = IF l <= Holdback THEN 0 ELSE l - Holdback
  <1> DEFINE S == {0, l - Holdback}
             Top(m) == \A y \in S : m >= y
             most == IF l <= Holdback THEN 0 ELSE l - Holdback
  <1>1. Holdback \in Nat
    BY StreamAssumption
  <1>2. WindowCut(text) = CHOOSE m \in S : Top(m)
    BY DEF WindowCut, Max
  <1>3. most \in S /\ Top(most)
    BY <1>1
  <1>4. \A m \in S : Top(m) => m = most
    BY <1>1
  <1>5. (CHOOSE m \in S : Top(m)) = most
    <2> HIDE DEF S, Top, most
    <2>1. (CHOOSE m \in S : Top(m)) \in S /\ Top(CHOOSE m \in S : Top(m))
      BY <1>3
    <2> QED BY <1>4, <2>1
  <1> QED BY <1>2, <1>5

\* A delta never releases all of the text: a window's worth stays.
LEMMA WindowBound ==
  ASSUME NEW x \in Nat, NEW lt \in Nat, lt # 0, NEW lh, lh = x + lt,
         NEW la \in 0..(IF lh <= Holdback THEN 0 ELSE lh - Holdback)
  PROVE  la \in 0..lh /\ la # lh /\ (la # 0 => lh - la >= Holdback)
  <1>1. Holdback \in Nat \ {0} /\ lh \in Nat /\ lh # 0
    BY StreamAssumption
  <1>2. CASE lh <= Holdback
    BY <1>1, <1>2
  <1>3. CASE ~ (lh <= Holdback)
    <2>1. la \in 0..(lh - Holdback)
      BY <1>3
    <2> QED BY <1>1, <1>3, <2>1
  <1> QED BY <1>2, <1>3

\* The parts of what is held and what is released, as parts of the whole.
HasNextPart(g, h, a, b) ==
  /\ IsList(g) /\ IsList(h) /\ IsList(a) /\ IsList(b) /\ h = a \o b
  /\ Between(g \o h, Len(g)) /\ Between(h, Len(a))

\* Cutting the held text between its matches cuts the whole text there.
LEMMA NextPart ==
  ASSUME NEW g, NEW h, NEW a, NEW b, HasNextPart(g, h, a, b)
  PROVE  /\ IsList(g \o a) /\ g \o h = (g \o a) \o b
         /\ Between(g \o h, Len(g \o a)) /\ Between(g \o a, Len(g))
  <1>0. /\ IsList(g) /\ IsList(h) /\ IsList(a) /\ IsList(b) /\ h = a \o b
        /\ Between(g \o h, Len(g)) /\ Between(h, Len(a))
    BY DEF HasNextPart
  <1>1. PICK lg, lh \in Nat : IsJoined(g \o h, g, h, lg, lh)
    BY <1>0, Joined
  <1>2. PICK la, lb \in Nat : IsJoined(h, a, b, la, lb)
    BY <1>0, Joined
  <1>3. lg = Len(g) /\ lh = Len(h) /\ la = Len(a) /\ lb = Len(b) /\ Len(h) = la + lb
    BY <1>1, <1>2 DEF IsJoined
  <1>4. IsList(g \o a) /\ Len(g \o a) = lg + la
    BY <1>0, <1>3, PutTogether
  <1>5. g \o h = (g \o a) \o b
    <2>1. (g \o a) \o b = g \o (a \o b)
      <3>1. AreThree(g, a, b)
        BY <1>0 DEF AreThree
      <3> QED BY <3>1, Assoc
    <2> QED BY <1>0, <2>1
  <1>6. Between(g \o h, lg + la)
    <2>1. la \in 0..lh
      BY <1>2, <1>3, SumBound
    <2> QED BY <1>0, <1>1, <1>3, <2>1, BetweenLater
  <1>7. Between(g \o a, Len(g))
    <2>1. PICK n, k \in Nat : IsJoined((g \o a) \o b, g \o a, b, n, k)
      BY <1>0, <1>4, Joined
    <2>2. n = lg + la
      BY <1>4, <2>1 DEF IsJoined
    <2>3. lg \in 0..n
      BY <2>2, SumBound
    <2>4. Between((g \o a) \o b, lg)
      BY <1>0, <1>3, <1>5
    <2> QED BY <1>3, <2>1, <2>3, <2>4, BetweenBefore
  <1> QED BY <1>3, <1>4, <1>5, <1>6, <1>7

\* One call of release_output that does not block, with t more text to screen.
LEMMA Passes ==
  ASSUME NEW p \in {"observe", "block"}, NEW w, NEW h, NEW o, NEW reply, NEW g,
         Passed(p, w, h, o, reply, g), Final(w, Len(g)),
         NEW t, IsList(t), NEW cut, NEW r, NEW a, NEW b, Released(p, h \o t, cut, r, a, b)
  PROVE  /\ Passed(p, w \o t, r.held, Worse(o, r.outcome), reply \o r.text, g \o a)
         /\ Range(r.held) \subseteq Range(h) \cup Range(t)
         /\ IsList(r.text) /\ Range(r.text) \subseteq Range(h) \cup Range(t) \cup {Mask}
  <1>1. /\ IsList(g) /\ IsList(h) /\ w = g \o h /\ (p = "block" => Banned(g) = {})
        /\ reply = Screened(p, g) /\ o = Outcome(p, g)
    BY DEF Passed
  <1>2. /\ IsList(a) /\ IsList(b) /\ h \o t = a \o b /\ Between(h \o t, Len(a))
        /\ (p = "block" => Banned(a) = {})
        /\ r.text = Screened(p, a) /\ r.held = b /\ r.outcome = Outcome(p, a)
    BY DEF Released
  <1>3. IsList(h \o t) /\ w \o t = g \o (h \o t)
    <2>1. (g \o h) \o t = g \o (h \o t)
      <3>1. AreThree(g, h, t)
        BY <1>1 DEF AreThree
      <3> QED BY <3>1, Assoc
    <2>2. IsList(h \o t)
      BY <1>1, PutTogether
    <2> QED BY <1>1, <2>1, <2>2
  <1>4. Between(w \o t, Len(g))
    <2>1. IsList(w) /\ Len(g) \in Nat /\ Len(g) <= Len(w)
      BY <1>1, NotLonger
    <2> QED BY <2>1, FinalIsBetween
  <1>5. /\ IsList(g \o a) /\ w \o t = (g \o a) \o b
        /\ Between(w \o t, Len(g \o a)) /\ Between(g \o a, Len(g))
    <2>1. Between(g \o (h \o t), Len(g))
      BY <1>3, <1>4
    <2> HIDE <1>4
    <2> DEFINE k == h \o t
    <2>2. HasNextPart(g, k, a, b)
      BY <1>1, <1>2, <1>3, <2>1 DEF HasNextPart
    <2> HIDE DEF k
    <2>3. /\ IsList(g \o a) /\ g \o k = (g \o a) \o b
          /\ Between(g \o k, Len(g \o a)) /\ Between(g \o a, Len(g))
      BY <2>2, NextPart
    <2>4. g \o k = w \o t
      BY <1>3 DEF k
    <2> QED BY <2>3, <2>4
  <1>6. p \in Policies /\ p # "off"
    BY DEF Policies
  <1>7. /\ Screened(p, g \o a) = Screened(p, g) \o Screened(p, a)
        /\ Outcome(p, g \o a) = Worse(Outcome(p, g), Outcome(p, a))
        /\ p = "block" => Banned(g \o a) = {}
    BY <1>1, <1>2, <1>5, <1>6, ScreenedGrows
  <1>8. Passed(p, w \o t, b, Worse(o, r.outcome), reply \o r.text, g \o a)
    BY <1>1, <1>2, <1>5, <1>6, <1>7 DEF Passed
  <1>9. Range(a) \subseteq Range(h) \cup Range(t) /\ Range(b) \subseteq Range(h) \cup Range(t)
    <2>1. Range(a \o b) = Range(a) \cup Range(b) /\ Range(h \o t) = Range(h) \cup Range(t)
      BY <1>1, <1>2, PutTogetherRange
    <2> QED BY <1>2, <2>1
  <1>10. Range(r.text) \subseteq Range(a) \cup {Mask} /\ IsList(r.text)
    BY <1>2, MaskedRange, ScreenedIsList DEF Screened
  <1> QED BY <1>2, <1>8, <1>9, <1>10

\* With the window held back the next release point is final.
LEMMA WindowIsFinal ==
  ASSUME NEW p \in {"observe", "block"}, NEW w, NEW h, NEW o, NEW reply, NEW g,
         Passed(p, w, h, o, reply, g), Final(w, Len(g)),
         NEW t, IsList(t), t # <<>>, NEW r, NEW a, NEW b,
         Released(p, h \o t, WindowCut(h \o t), r, a, b)
  PROVE  Final(w \o t, Len(g \o a))
  <1>1. IsList(g) /\ IsList(h) /\ w = g \o h
    BY DEF Passed
  <1>2. IsList(a) /\ IsList(b) /\ h \o t = a \o b /\ Between(h \o t, Len(a)) /\ Len(a) \in 0..WindowCut(h \o t)
    BY DEF Released
  <1>3. IsList(h \o t) /\ w \o t = g \o (h \o t) /\ IsList(w)
    <2>1. (g \o h) \o t = g \o (h \o t)
      <3>1. AreThree(g, h, t)
        BY <1>1 DEF AreThree
      <3> QED BY <3>1, Assoc
    <2>2. IsList(h \o t) /\ IsList(g \o h)
      BY <1>1, PutTogether
    <2> QED BY <1>1, <2>1, <2>2
  <1>4. PICK lg, lh \in Nat : IsJoined(g \o (h \o t), g, h \o t, lg, lh)
    BY <1>1, <1>3, Joined
  <1>5. PICK lw, lt \in Nat : IsJoined(w \o t, w, t, lw, lt)
    BY <1>3, Joined
  <1>6. PICK x, la \in Nat : x = Len(h) /\ la = Len(a)
    BY <1>1, <1>2, ListShape
  <1>7. lg = Len(g) /\ lh = Len(h \o t) /\ lw = Len(w) /\ lt = Len(t) /\ lw = lg + x /\ lh = x + lt /\ lt # 0
        /\ \A i \in 1..lw : (w \o t)[i] = w[i]
    <2>1. lg = Len(g) /\ lh = Len(h \o t) /\ lw = Len(w) /\ lt = Len(t) /\ \A i \in 1..lw : (w \o t)[i] = w[i]
      BY <1>4, <1>5 DEF IsJoined
    <2>2. lw = lg + x /\ lh = x + lt
      BY <1>1, <1>6, <2>1, PutTogether
    <2>3. lt # 0
      BY <2>1, EmptySeq DEF IsList
    <2> QED BY <2>1, <2>2, <2>3
  <1>8. WindowCut(h \o t) = IF lh <= Holdback THEN 0 ELSE lh - Holdback
    BY <1>7, WindowIs
  <1>9. la \in 0..lh /\ la # lh /\ (la # 0 => lh - la >= Holdback)
    BY <1>2, <1>6, <1>7, <1>8, WindowBound
  <1>10. Between(g \o (h \o t), lg)
    <2>1. Len(g) \in Nat /\ Len(g) <= Len(w)
      BY <1>1, NotLonger
    <2>2. Between(w \o t, Len(g))
      BY <1>3, <2>1, FinalIsBetween
    <2> QED BY <1>3, <1>7, <2>2
  <1>11. lg # 0 => \E k \in lg..(lg + lh) : (w \o t)[k] # "s"
    <2>1. lg # 0 => \E k \in lg..lw : w[k] # "s"
      BY <1>7, Final(w, Len(g)) DEF Final
    <2>2. ASSUME lg # 0, NEW k \in lg..lw PROVE k \in 1..lw /\ k \in lg..(lg + lh)
      BY <1>7, <2>2, RangeBound
    <2> QED BY <1>7, <2>1, <2>2
  <1>12. Final(g \o (h \o t), lg + la)
    <2>1. Between(h \o t, la)
      BY <1>2, <1>6
    <2>2. lg # 0 => \E k \in lg..(lg + lh) : (g \o (h \o t))[k] # "s"
      BY <1>3, <1>11
    <2> QED BY <1>4, <1>9, <1>10, <2>1, <2>2, FinalLater
  <1>13. Len(g \o a) = lg + la
    BY <1>1, <1>2, <1>6, <1>7, PutTogether
  <1> QED BY <1>3, <1>12, <1>13

\* The window's release point lies within the text.
LEMMA PartBound ==
  ASSUME NEW l \in Nat, NEW n \in Nat
  PROVE  (IF l <= n THEN 0 ELSE l - n) \in 0..l
  OBVIOUS

\* A mark closes what came before it, for good.
LEMMA Marks ==
  ASSUME NEW p \in Policies, NEW w, NEW o, NEW reply, NEW g, Passed(p, w, <<>>, o, reply, g),
         NEW x, x \notin {"s", "b", "n"}
  PROVE  Passed(p, w \o <<x>>, <<>>, o, reply \o <<x>>, w \o <<x>>) /\ Final(w \o <<x>>, Len(w \o <<x>>))
  <1>1. /\ IsList(g) /\ w = g \o <<>> /\ (p = "block" => Banned(g) = {})
        /\ reply = Screened(p, g) /\ o = Outcome(p, g)
    BY DEF Passed
  <1>2. w = g
    BY <1>1, NothingAdded
  <1>3. IsList(<<x>>) /\ Len(<<x>>) = 1 /\ <<x>>[1] = x
    BY Single
  <1>4. Between(w \o <<x>>, Len(w))
    BY <1>1, <1>2, BeforeMark
  <1>5. Secrets(<<x>>) = {} /\ Banned(<<x>>) = {} /\ Masked(<<x>>) = <<x>>
    BY MarkIsShown
  <1>6. Screened(p, <<x>>) = <<x>> /\ Outcome(p, <<x>>) = "pass"
    <2>1. Outcome(p, <<x>>) = "pass"
      BY <1>5, OutcomeOf DEF Policies
    <2> QED BY <1>5, <2>1 DEF Screened
  <1>7. /\ Screened(p, w \o <<x>>) = Screened(p, w) \o <<x>>
        /\ Outcome(p, w \o <<x>>) = Worse(Outcome(p, w), "pass")
        /\ p = "block" => Banned(w \o <<x>>) = {}
    <2>1. p = "block" => Banned(w) = {}
      BY <1>1, <1>2
    <2>2. p = "block" => Banned(<<x>>) = {}
      BY <1>5
    <2>3. /\ Screened(p, w \o <<x>>) = Screened(p, w) \o Screened(p, <<x>>)
          /\ Outcome(p, w \o <<x>>) = Worse(Outcome(p, w), Outcome(p, <<x>>))
          /\ p = "block" => Banned(w \o <<x>>) = {}
      BY <1>1, <1>2, <1>3, <1>4, <2>1, <2>2, ScreenedGrows
    <2> QED BY <1>6, <2>3
  <1>8. Worse(Outcome(p, w), "pass") = Outcome(p, w)
    <2>1. Outcome(p, w) \in {"pass", "observe", "masked"}
      BY OutcomeOf DEF Policies
    <2> QED BY <2>1, WorseOf
  <1>9. IsList(w \o <<x>>) /\ Len(w \o <<x>>) # 0 /\ (w \o <<x>>)[Len(w \o <<x>>)] = x
    <2>1. PICK lw \in Nat : lw = Len(w)
      BY <1>1, <1>2, ListShape
    <2>2. IsList(w \o <<x>>) /\ Len(w \o <<x>>) = lw + 1 /\ \A i \in 1..1 : (w \o <<x>>)[lw + i] = <<x>>[i]
      BY <1>1, <1>2, <1>3, <2>1, PutTogether
    <2>3. 1 \in 1..1 /\ lw + 1 # 0
      OBVIOUS
    <2> QED BY <1>3, <2>2, <2>3
  <1>10. Between(w \o <<x>>, Len(w \o <<x>>)) /\ Final(w \o <<x>>, Len(w \o <<x>>))
    BY <1>9, EndOfText
  <1>11. w \o <<x>> = (w \o <<x>>) \o <<>> /\ IsList(<<>>)
    BY <1>9, NothingAdded, NoElement
  <1> QED BY <1>1, <1>2, <1>7, <1>8, <1>9, <1>10, <1>11 DEF Passed

\* Without output scanners the reply is what came.
LEMMA PassesAll ==
  ASSUME NEW w, NEW o, NEW reply, NEW g, Passed("off", w, <<>>, o, reply, g), NEW t, IsList(t)
  PROVE  Passed("off", w \o t, <<>>, o, reply \o t, w \o t)
  <1>1. IsList(g) /\ w = g \o <<>> /\ reply = Screened("off", g) /\ o = Outcome("off", g)
    BY DEF Passed
  <1>2. w = g /\ reply = w /\ o = "pass"
    BY <1>1, NothingAdded, OutcomeOf DEF Screened
  <1>3. IsList(w \o t) /\ IsList(<<>>)
    BY <1>1, <1>2, PutTogether, NoElement
  <1>4. w \o t = (w \o t) \o <<>> /\ Between(w \o t, Len(w \o t))
    BY <1>3, NothingAdded, EndOfText
  <1>5. reply \o t = Screened("off", w \o t) /\ o = Outcome("off", w \o t)
    BY <1>2, OutcomeOf DEF Screened
  <1> QED BY <1>3, <1>4, <1>5 DEF Passed

\* What has become of a reply: blocked, or released up to a point that is final
\* while the provider may go on.
SoFar(p, w, h, o, reply, blocked, open) ==
  IF blocked
  THEN p = "block" /\ o = "block" /\ h = <<>> /\ \E g : Stopped(w, reply, g)
  ELSE \E g : Passed(p, w, h, o, reply, g) /\ (open /\ p # "off" => Final(w, Len(g)))

\* What a call of release_output makes of it, with w2 the text that came and
\* `last` what the client gets after the text released.
Becomes(p, w2, o, reply, r, last, open) ==
  IF r.blocked
  THEN SoFar(p, w2, <<>>, Worse(o, r.outcome), (reply \o Filtered) \o Blocked, TRUE, FALSE)
  ELSE /\ IsList(r.text) /\ IsList(r.held)
       /\ SoFar(p, w2, r.held, Worse(o, r.outcome), (reply \o r.text) \o last, FALSE, open)

\* The outcome of a reply that is not blocked, and blocking it.
LEMMA BlocksAnyway ==
  ASSUME NEW p \in Policies, NEW w, NEW h, NEW o, NEW reply, NEW g, Passed(p, w, h, o, reply, g)
  PROVE  Worse(o, "block") = "block" /\ IsList(reply) /\ IsList(w) /\ IsList(h)
  <1>1. o = Outcome(p, g) /\ IsList(g) /\ reply = Screened(p, g) /\ w = g \o h /\ IsList(h)
    BY DEF Passed
  <1>2. o \in {"pass", "observe", "masked"}
    BY <1>1, OutcomeOf DEF Policies
  <1> QED BY <1>1, <1>2, WorseOf, ScreenedIsList, PutTogether

\* A text delta is screened with what is held, down to the window.
TakesDelta(p, w, h, o, reply, t, r) ==
  /\ SoFar(p, w, h, o, reply, FALSE, TRUE) /\ IsList(t) /\ t # <<>>
  /\ r = Release(p, h \o t, WindowCut(h \o t))

\* The reply after a text delta, and what may be read in the parts of it.
LEMMA DeltaBecomes ==
  ASSUME NEW p \in {"observe", "block"}, NEW w, NEW h, NEW o, NEW reply, NEW t, NEW r,
         TakesDelta(p, w, h, o, reply, t, r)
  PROVE  /\ Becomes(p, w \o t, o, reply, r, <<>>, TRUE)
         /\ ~ r.blocked => /\ Range(r.held) \subseteq Range(h) \cup Range(t)
                           /\ Range(r.text) \subseteq Range(h) \cup Range(t) \cup {Mask}
  <1>0. /\ SoFar(p, w, h, o, reply, FALSE, TRUE) /\ IsList(t) /\ t # <<>>
        /\ r = Release(p, h \o t, WindowCut(h \o t))
    BY DEF TakesDelta
  <1>1. PICK g : Passed(p, w, h, o, reply, g) /\ Final(w, Len(g))
    BY <1>0 DEF SoFar
  <1>2. IsList(h) /\ IsList(reply) /\ Worse(o, "block") = "block"
    BY <1>1, BlocksAnyway DEF Policies
  <1>3. IsList(h \o t) /\ WindowCut(h \o t) \in 0..Len(h \o t)
    <2>1. PICK l \in Nat : l = Len(h \o t) /\ IsList(h \o t)
      BY <1>0, <1>2, PutTogether, ListShape
    <2>2. WindowCut(h \o t) = IF l <= Holdback THEN 0 ELSE l - Holdback
      BY <2>1, WindowIs
    <2>3. (IF l <= Holdback THEN 0 ELSE l - Holdback) \in 0..l
      BY StreamAssumption, PartBound
    <2> QED BY <2>1, <2>2, <2>3
  <1>4. \/ r.blocked /\ p = "block" /\ r.outcome = "block"
        \/ ~ r.blocked /\ \E a, b : Released(p, h \o t, WindowCut(h \o t), r, a, b)
    BY <1>0, <1>3, ReleaseIs
  <1>5. CASE r.blocked
    <2>1. Stopped(w \o t, (reply \o Filtered) \o Blocked, g)
      BY <1>0, <1>1, <1>4, <1>5, Stops
    <2> QED BY <1>2, <1>4, <1>5, <2>1 DEF Becomes, SoFar
  <1>6. CASE ~ r.blocked
    <2>1. PICK a, b : Released(p, h \o t, WindowCut(h \o t), r, a, b)
      BY <1>4, <1>6
    <2>2. /\ Passed(p, w \o t, r.held, Worse(o, r.outcome), reply \o r.text, g \o a)
          /\ Range(r.held) \subseteq Range(h) \cup Range(t)
          /\ IsList(r.text) /\ Range(r.text) \subseteq Range(h) \cup Range(t) \cup {Mask}
      BY <1>0, <1>1, <2>1, Passes
    <2>3. Final(w \o t, Len(g \o a))
      BY <1>0, <1>1, <2>1, WindowIsFinal
    <2>4. (reply \o r.text) \o <<>> = reply \o r.text
      BY <1>2, <2>2, PutTogether, NothingAdded
    <2>5. IsList(r.held)
      BY <2>2 DEF Passed
    <2> QED BY <1>6, <2>2, <2>3, <2>4, <2>5 DEF Becomes, SoFar
  <1> QED BY <1>5, <1>6

\* All that is held is released.
LEMMA Flushes ==
  ASSUME NEW p \in {"observe", "block"}, NEW w, NEW h, NEW o, NEW reply, NEW g,
         Passed(p, w, h, o, reply, g), Final(w, Len(g)), NEW r, r = Release(p, h, Len(h))
  PROVE  \/ r.blocked /\ p = "block" /\ r.outcome = "block"
         \/ /\ ~ r.blocked /\ r.held = <<>>
            /\ IsList(r.text) /\ Range(r.text) \subseteq Range(h) \cup {Mask}
            /\ \E g2 : Passed(p, w, <<>>, Worse(o, r.outcome), reply \o r.text, g2)
  <1>1. IsList(h) /\ IsList(w) /\ IsList(<<>>)
    BY BlocksAnyway, NoElement DEF Policies
  <1>2. h \o <<>> = h /\ w \o <<>> = w
    BY <1>1, NothingAdded
  <1>3. PICK l \in Nat : l = Len(h)
    BY <1>1, ListShape
  <1>4. Len(h) \in 0..Len(h)
    <2>1. l \in 0..l
      OBVIOUS
    <2> QED BY <1>3, <2>1
  <1>5. CASE r.blocked
    BY <1>1, <1>4, <1>5, ReleaseIs
  <1>6. CASE ~ r.blocked
    <2>1. PICK a, b : Released(p, h, Len(h), r, a, b)
      BY <1>1, <1>4, <1>6, ReleaseIs
    <2>2. b = <<>> /\ r.held = b
      <3>1. Len(a) = Len(h) /\ h = a \o b /\ IsList(a) /\ IsList(b) /\ r.held = b
        BY <2>1 DEF Released
      <3>2. Len(h) = Len(a) + Len(b)
        BY <3>1, PutTogether
      <3>3. PICK k \in Nat : k = Len(b)
        BY <3>1, ListShape
      <3>4. k = 0
        <4>1. l = l + k
          BY <1>3, <3>1, <3>2, <3>3
        <4> QED BY <4>1
      <3> QED BY <3>1, <3>3, <3>4, EmptySeq DEF IsList
    <2>3. Released(p, h \o <<>>, Len(h), r, a, b)
      BY <1>2, <2>1
    <2>4. /\ Passed(p, w \o <<>>, r.held, Worse(o, r.outcome), reply \o r.text, g \o a)
          /\ IsList(r.text) /\ Range(r.text) \subseteq Range(h) \cup Range(<<>>) \cup {Mask}
      BY <1>1, <2>3, Passes
    <2>5. Range(<<>>) = {}
      BY NoElement
    <2> QED BY <1>2, <1>6, <2>2, <2>4, <2>5
  <1> QED BY <1>5, <1>6

\* A mark, or the provider's end, has all that is held released.
ReleasesAll(p, w, h, o, reply, r) ==
  SoFar(p, w, h, o, reply, FALSE, TRUE) /\ r = Release(p, h, Len(h))

\* A tool call, an error or the final Done releases what is held and follows it.
LEMMA MarkBecomes ==
  ASSUME NEW p \in {"observe", "block"}, NEW w, NEW h, NEW o, NEW reply, NEW r,
         ReleasesAll(p, w, h, o, reply, r), NEW x, x \notin {"s", "b", "n"}
  PROVE  /\ Becomes(p, w \o <<x>>, o, reply, r, <<x>>, TRUE)
         /\ ~ r.blocked => /\ Range(r.held) \subseteq Range(h)
                           /\ Range(r.text) \subseteq Range(h) \cup {Mask}
  <1>1. PICK g : Passed(p, w, h, o, reply, g) /\ Final(w, Len(g))
    BY DEF ReleasesAll, SoFar
  <1>2. Worse(o, "block") = "block" /\ IsList(<<x>>)
    BY <1>1, BlocksAnyway, Single DEF Policies
  <1>3. \/ r.blocked /\ p = "block" /\ r.outcome = "block"
        \/ /\ ~ r.blocked /\ r.held = <<>>
           /\ IsList(r.text) /\ Range(r.text) \subseteq Range(h) \cup {Mask}
           /\ \E g2 : Passed(p, w, <<>>, Worse(o, r.outcome), reply \o r.text, g2)
    BY <1>1, Flushes DEF ReleasesAll
  <1>4. CASE r.blocked
    <2>1. Stopped(w \o <<x>>, (reply \o Filtered) \o Blocked, g)
      BY <1>1, <1>2, <1>3, <1>4, Stops
    <2> QED BY <1>2, <1>3, <1>4, <2>1 DEF Becomes, SoFar
  <1>5. CASE ~ r.blocked
    <2>1. PICK g2 : Passed(p, w, <<>>, Worse(o, r.outcome), reply \o r.text, g2)
      BY <1>3, <1>5
    <2>2. /\ Passed(p, w \o <<x>>, <<>>, Worse(o, r.outcome), (reply \o r.text) \o <<x>>, w \o <<x>>)
          /\ Final(w \o <<x>>, Len(w \o <<x>>))
      BY <2>1, Marks DEF Policies
    <2>3. Range(<<>>) = {} /\ IsList(<<>>)
      BY NoElement
    <2> QED BY <1>3, <1>5, <2>2, <2>3 DEF Becomes, SoFar
  <1> QED BY <1>4, <1>5

\* The provider's end releases what is held.
LEMMA EndBecomes ==
  ASSUME NEW p \in {"observe", "block"}, NEW w, NEW h, NEW o, NEW reply, NEW r,
         ReleasesAll(p, w, h, o, reply, r)
  PROVE  /\ Becomes(p, w, o, reply, r, <<>>, FALSE)
         /\ ~ r.blocked => /\ Range(r.held) \subseteq Range(h)
                           /\ Range(r.text) \subseteq Range(h) \cup {Mask}
  <1>1. PICK g : Passed(p, w, h, o, reply, g) /\ Final(w, Len(g))
    BY DEF ReleasesAll, SoFar
  <1>2. Worse(o, "block") = "block" /\ IsList(<<>>) /\ IsList(w) /\ IsList(reply)
    BY <1>1, BlocksAnyway, NoElement DEF Policies
  <1>3. \/ r.blocked /\ p = "block" /\ r.outcome = "block"
        \/ /\ ~ r.blocked /\ r.held = <<>>
           /\ IsList(r.text) /\ Range(r.text) \subseteq Range(h) \cup {Mask}
           /\ \E g2 : Passed(p, w, <<>>, Worse(o, r.outcome), reply \o r.text, g2)
    BY <1>1, Flushes DEF ReleasesAll
  <1>4. CASE r.blocked
    <2>1. Stopped(w \o <<>>, (reply \o Filtered) \o Blocked, g)
      BY <1>1, <1>2, <1>3, <1>4, Stops
    <2>2. w \o <<>> = w
      BY <1>2, NothingAdded
    <2> QED BY <1>2, <1>3, <1>4, <2>1, <2>2 DEF Becomes, SoFar
  <1>5. CASE ~ r.blocked
    <2>1. PICK g2 : Passed(p, w, <<>>, Worse(o, r.outcome), reply \o r.text, g2)
      BY <1>3, <1>5
    <2>2. (reply \o r.text) \o <<>> = reply \o r.text
      BY <1>2, <1>3, <1>5, PutTogether, NothingAdded
    <2>3. Range(<<>>) = {} /\ IsList(<<>>)
      BY NoElement
    <2> QED BY <1>3, <1>5, <2>1, <2>2, <2>3 DEF Becomes, SoFar
  <1> QED BY <1>4, <1>5

-----------------------------------------------------------------------------
(* The reply, step by step *)

\* The text that came, as one list of symbols and marks.
Came == FlattenSeq(sent)
Items == Symbols \cup {"tool_call", "done", "error"}

\* What the client is to read, from what it got and what is queued.
SaidOf(sn) == [i \in DOMAIN sn |-> IF sn[i] = DoneMark THEN <<>> ELSE sn[i]]
ReplyOf(sn, pd) == FlattenSeq(SaidOf(sn)) \o FlattenSeq(pd)

IsQueue(q) == AreLists(q) /\ \A i \in DOMAIN q : q[i] # DoneMark

StreamTypes ==
  /\ policy \in Policies /\ status \in {"ok", "error", "blocked"}
  /\ AreLists(sent) /\ Range(Came) \subseteq Items /\ Range(held) \subseteq Symbols
  /\ AreLists(seen) /\ IsQueue(pending)

ReplySoFar ==
  /\ SoFar(policy, Came, held, worst, Reply, status = "blocked", upstream = "open")
  /\ status = "blocked" => upstream = "over"

StatusSoFar ==
  /\ status = "error" => "error" \in Range(Came)
  /\ status = "ok" => "error" \notin Range(Came)
  /\ "done" \in Range(Came) => usage

RecordsSoFar ==
  /\ \/ scans = <<>>
     \/ scans = <<worst>> /\ policy # "off" /\ (upstream = "over" \/ body = "dropped")
  /\ body = "dropped" /\ policy # "off" => scans # <<>>
  /\ rows = IF body = "dropped" THEN <<Row>> ELSE <<>>

StreamInv == StreamTypes /\ ReplySoFar /\ StatusSoFar /\ RecordsSoFar

\* Finding what the client is to read.
LEMMA SaidAppend ==
  ASSUME NEW sn, AreLists(sn), NEW x, IsList(x)
  PROVE  /\ AreLists(Append(sn, x)) /\ AreLists(SaidOf(sn)) /\ AreLists(SaidOf(Append(sn, x)))
         /\ FlattenSeq(SaidOf(Append(sn, x))) = FlattenSeq(SaidOf(sn)) \o (IF x = DoneMark THEN <<>> ELSE x)
  <1> DEFINE y == IF x = DoneMark THEN <<>> ELSE x
             more == Append(sn, x)
  <1>1. PICK n \in Nat : n = Len(sn) /\ DOMAIN sn = 1..n /\ IsList(sn) /\ \A i \in 1..n : IsList(sn[i])
    BY ListShape DEF AreLists
  <1>2. more = sn \o <<x>> /\ AreLists(more)
    <2>1. more = sn \o <<x>>
      BY <1>1, AppendsOne
    <2>2. AreLists(sn \o <<x>>)
      BY OneRowMore
    <2> QED BY <2>1, <2>2
  <1>3. IsList(more) /\ Len(more) = n + 1 /\ DOMAIN more = 1..(n + 1)
        /\ (\A i \in 1..n : more[i] = sn[i]) /\ more[n + 1] = x
    <2>1. IsList(<<x>>) /\ Len(<<x>>) = 1 /\ <<x>>[1] = x
      BY Single
    <2>2. IsList(sn \o <<x>>) /\ Len(sn \o <<x>>) = n + 1
          /\ (\A i \in 1..n : (sn \o <<x>>)[i] = sn[i])
          /\ (\A i \in 1..1 : (sn \o <<x>>)[n + i] = <<x>>[i])
      BY <1>1, <2>1, PutTogether
    <2>3. 1 \in 1..1
      OBVIOUS
    <2>4. DOMAIN (sn \o <<x>>) = 1..(n + 1)
      BY <2>2, ListShape
    <2> QED BY <1>2, <2>1, <2>2, <2>3, <2>4
  <1> HIDE DEF more
  <1>4. IsList(y) /\ IsList(<<>>)
    BY NoElement
  <1>5. SaidOf(sn) = [i \in 1..n |-> SaidOf(sn)[i]] /\ \A i \in 1..n : SaidOf(sn)[i] = IF sn[i] = DoneMark THEN <<>> ELSE sn[i]
    BY <1>1 DEF SaidOf
  <1>6. SaidOf(more) = [i \in 1..(n + 1) |-> SaidOf(more)[i]]
        /\ \A i \in 1..(n + 1) : SaidOf(more)[i] = IF more[i] = DoneMark THEN <<>> ELSE more[i]
    BY <1>3 DEF SaidOf
  <1>7. IsList(SaidOf(sn)) /\ Len(SaidOf(sn)) = n /\ DOMAIN SaidOf(sn) = 1..n
    BY <1>5, ListOf
  <1>8. IsList(SaidOf(more)) /\ Len(SaidOf(more)) = n + 1
    <2>1. n + 1 \in Nat
      OBVIOUS
    <2> QED BY <1>6, <2>1, ListOf
  <1>9. AreLists(SaidOf(sn))
    <2>1. ASSUME NEW i \in 1..n PROVE IsList(SaidOf(sn)[i])
      BY <1>1, <1>4, <1>5
    <2> QED BY <1>7, <2>1 DEF AreLists
  <1>10. SaidOf(more) = SaidOf(sn) \o <<y>>
    <2>1. IsList(<<y>>) /\ Len(<<y>>) = 1 /\ <<y>>[1] = y
      BY Single
    <2> HIDE DEF y
    <2>2. PICK ln, k \in Nat : IsJoined(SaidOf(sn) \o <<y>>, SaidOf(sn), <<y>>, ln, k)
      BY <1>7, <2>1, Joined
    <2>3. ln = n /\ k = 1
      BY <1>7, <2>1, <2>2 DEF IsJoined
    <2>4. \A i \in 1..n : SaidOf(more)[i] = SaidOf(sn)[i]
      <3>1. \A i \in 1..n : i \in 1..(n + 1)
        OBVIOUS
      <3> QED BY <1>3, <1>5, <1>6, <3>1
    <2>5. \A i \in 1..1 : SaidOf(more)[n + i] = <<y>>[i]
      <3>1. n + 1 \in 1..(n + 1)
        OBVIOUS
      <3>2. SaidOf(more)[n + 1] = y
        BY <1>3, <1>6, <3>1 DEF y
      <3> QED BY <2>1, <3>2
    <2> DEFINE w == SaidOf(sn) \o <<y>>
    <2>6. IsJoined(w, SaidOf(sn), <<y>>, n, 1)
      BY <2>2, <2>3
    <2> HIDE DEF w
    <2>7. w = SaidOf(more)
      <3>1. ReadsLike(SaidOf(more), SaidOf(sn), <<y>>, n, 1)
        BY <1>8, <2>4, <2>5 DEF ReadsLike
      <3>2. 1 \in Nat
        OBVIOUS
      <3> QED BY <2>6, <3>1, <3>2, SameJoin
    <2> QED BY <2>7 DEF w
  <1>11. AreLists(SaidOf(sn) \o <<y>>) /\ FlattenSeq(SaidOf(sn) \o <<y>>) = FlattenSeq(SaidOf(sn)) \o y
    BY <1>4, <1>9, OneRowMore
  <1> QED BY <1>2, <1>9, <1>10, <1>11 DEF more

\* Handing an item out does not change the reply.
LEMMA HandedOut ==
  ASSUME NEW sn, AreLists(sn), NEW pd, IsQueue(pd), pd # <<>>
  PROVE  /\ AreLists(Append(sn, Head(pd))) /\ IsQueue(Tail(pd))
         /\ ReplyOf(Append(sn, Head(pd)), Tail(pd)) = ReplyOf(sn, pd)
  <1>1. AreLists(pd) /\ IsList(pd) /\ \A i \in DOMAIN pd : pd[i] # DoneMark /\ IsList(pd[i])
    BY DEF IsQueue, AreLists
  <1> DEFINE x == Head(pd)
             q == Tail(pd)
  <1>2. /\ pd = <<x>> \o q /\ IsList(q) /\ IsList(x) /\ x # DoneMark
        /\ \A i \in DOMAIN q : q[i] # DoneMark /\ IsList(q[i])
    <2>1. /\ pd = <<x>> \o q /\ IsList(q) /\ x = pd[1] /\ 1 \in DOMAIN pd
          /\ \A i \in DOMAIN q : i + 1 \in DOMAIN pd /\ q[i] = pd[i + 1]
      BY <1>1, HeadAndTail
    <2> QED BY <1>1, <2>1
  <1> HIDE DEF x, q
  <1>3. AreLists(q) /\ IsQueue(q)
    BY <1>2 DEF AreLists, IsQueue
  <1>4. AreLists(<<x>>) /\ FlattenSeq(<<x>>) = x
    BY <1>2, OneList
  <1>5. FlattenSeq(pd) = x \o FlattenSeq(q) /\ IsList(FlattenSeq(q))
    BY <1>2, <1>3, <1>4, FlattenBoth
  <1>6. AreLists(Append(sn, x)) /\ AreLists(SaidOf(sn)) /\ FlattenSeq(SaidOf(Append(sn, x))) = FlattenSeq(SaidOf(sn)) \o x
    BY <1>2, SaidAppend
  <1>7. IsList(FlattenSeq(SaidOf(sn)))
    BY <1>6, FlattenBoth
  <1>8. (FlattenSeq(SaidOf(sn)) \o x) \o FlattenSeq(q) = FlattenSeq(SaidOf(sn)) \o (x \o FlattenSeq(q))
    <2>1. AreThree(FlattenSeq(SaidOf(sn)), x, FlattenSeq(q))
      BY <1>2, <1>5, <1>7 DEF AreThree
    <2> QED BY <2>1, Assoc
  <1> QED BY <1>3, <1>5, <1>6, <1>8 DEF x, q, ReplyOf

\* Queueing items adds them to the reply.
LEMMA Queued ==
  ASSUME NEW sn, AreLists(sn), NEW q, AreLists(q)
  PROVE  /\ ReplyOf(sn, q) = ReplyOf(sn, <<>>) \o FlattenSeq(q)
         /\ IsList(ReplyOf(sn, <<>>)) /\ IsList(FlattenSeq(q))
  <1>1. FlattenSeq(<<>>) = <<>>
    BY NoElement, OneList
  <1>2. AreLists(SaidOf(sn))
    BY NoElement, SaidAppend
  <1>3. IsList(FlattenSeq(SaidOf(sn))) /\ IsList(FlattenSeq(q))
    BY <1>2, FlattenBoth
  <1>4. FlattenSeq(SaidOf(sn)) \o <<>> = FlattenSeq(SaidOf(sn))
    BY <1>3, NothingAdded
  <1> QED BY <1>1, <1>3, <1>4 DEF ReplyOf

\* Released text and the item after it, in the queue.
LEMMA TextQueued ==
  ASSUME NEW t, IsList(t), t # DoneMark, NEW after, IsQueue(after)
  PROVE  IsQueue(TextItems(t) \o after) /\ FlattenSeq(TextItems(t) \o after) = t \o FlattenSeq(after)
  <1>1. AreLists(after) /\ IsList(after) /\ \A i \in DOMAIN after : after[i] # DoneMark
    BY DEF IsQueue, AreLists
  <1>2. IsList(FlattenSeq(after))
    BY <1>1, FlattenBoth
  <1>3. CASE t = <<>>
    <2>1. TextItems(t) = <<>>
      BY <1>3 DEF TextItems
    <2>2. <<>> \o after = after /\ <<>> \o FlattenSeq(after) = FlattenSeq(after)
      BY <1>1, <1>2, NothingAdded
    <2> QED BY <1>3, <2>1, <2>2
  <1>4. CASE t # <<>>
    <2>1. TextItems(t) = <<t>>
      BY <1>4 DEF TextItems
    <2>2. AreLists(<<t>>) /\ FlattenSeq(<<t>>) = t
      BY OneList
    <2>3. AreLists(<<t>> \o after) /\ FlattenSeq(<<t>> \o after) = t \o FlattenSeq(after)
      BY <1>1, <2>2, FlattenBoth
    <2>4. \A i \in DOMAIN (<<t>> \o after) : (<<t>> \o after)[i] # DoneMark
      <3>1. Range(<<t>> \o after) = Range(<<t>>) \cup Range(after) /\ Range(<<t>>) = {t}
        BY <1>1, Single, PutTogetherRange
      <3>2. \A y \in Range(after) : y # DoneMark
        BY <1>1 DEF Range
      <3>3. \A y \in Range(<<t>> \o after) : y # DoneMark
        BY <3>1, <3>2
      <3> QED BY <3>3 DEF Range
    <2> QED BY <2>1, <2>3, <2>4 DEF IsQueue
  <1> QED BY <1>3, <1>4

\* One item more from the provider.
LEMMA CameMore ==
  ASSUME NEW ss, AreLists(ss), NEW item, IsList(item)
  PROVE  /\ AreLists(Append(ss, item)) /\ FlattenSeq(Append(ss, item)) = FlattenSeq(ss) \o item
         /\ Range(FlattenSeq(Append(ss, item))) = Range(FlattenSeq(ss)) \cup Range(item)
  <1>1. Append(ss, item) = ss \o <<item>>
    BY AppendsOne DEF AreLists
  <1>2. AreLists(ss \o <<item>>) /\ FlattenSeq(ss \o <<item>>) = FlattenSeq(ss) \o item /\ IsList(FlattenSeq(ss))
    BY OneRowMore, FlattenBoth
  <1>3. Range(FlattenSeq(ss) \o item) = Range(FlattenSeq(ss)) \cup Range(item)
    BY <1>2, PutTogetherRange
  <1> QED BY <1>1, <1>2, <1>3

\* What one screened or passed-on item leaves, w2 being the text that came by then.
AfterItem(w2, failed) ==
  /\ SoFar(policy, w2, held', worst', ReplyOf(seen, pending'), status' = "blocked", upstream' = "open")
  /\ status' = "blocked" => upstream' = "over"
  /\ IsQueue(pending') /\ Range(held') \subseteq Symbols
  /\ status' \in {"blocked", IF failed THEN "error" ELSE status}
  /\ scans' = <<>> \/ (scans' = <<worst'>> /\ policy # "off" /\ upstream' = "over")

\* A list of two.
LEMMA Pair ==
  ASSUME NEW x, NEW y
  PROVE  <<x>> \o <<y>> = <<x, y>>
  <1> DEFINE s == <<x>> \o <<y>>
             t == <<x, y>>
  <1>1. t = [i \in 1..2 |-> t[i]] /\ t[1] = x /\ t[2] = y
    OBVIOUS
  <1>2. /\ IsList(<<x>>) /\ Len(<<x>>) = 1 /\ <<x>>[1] = x
        /\ IsList(<<y>>) /\ Len(<<y>>) = 1 /\ <<y>>[1] = y
    BY Single
  <1>3. /\ IsList(s) /\ Len(s) = 1 + 1 /\ \A i \in 1..1 : s[i] = <<x>>[i]
        /\ \A i \in 1..1 : s[1 + i] = <<y>>[i]
    BY <1>2, PutTogether
  <1> HIDE DEF s, t
  <1>4. IsList(t) /\ Len(t) = 2
    BY <1>1, ListOf
  <1>5. s[1] = x /\ s[1 + 1] = y
    <2>1. 1 \in 1..1
      OBVIOUS
    <2> QED BY <1>2, <1>3, <2>1
  <1>6. \A i \in 1..2 : s[i] = t[i]
    <2>1. \A i \in 1..2 : i = 1 \/ i = 2
      OBVIOUS
    <2> QED BY <1>1, <1>5, <2>1
  <1>7. s = t
    BY <1>3, <1>4, <1>6, SameList
  <1> QED BY <1>7 DEF s, t

\* The items a block queues.
LEMMA ClosingItems ==
  /\ IsQueue(<<Filtered, Blocked>>) /\ FlattenSeq(<<Filtered, Blocked>>) = Filtered \o Blocked
  /\ IsList(Filtered) /\ IsList(Blocked)
  <1>1. IsList(Filtered) /\ IsList(Blocked)
    BY Single DEF Filtered, Blocked
  <1>2. /\ AreLists(<<Filtered>>) /\ FlattenSeq(<<Filtered>>) = Filtered
    BY <1>1, OneList
  <1>3. /\ AreLists(<<Filtered>> \o <<Blocked>>)
        /\ FlattenSeq(<<Filtered>> \o <<Blocked>>) = Filtered \o Blocked
    BY <1>1, <1>2, OneRowMore
  <1>4. <<Filtered>> \o <<Blocked>> = <<Filtered, Blocked>>
    BY Pair
  <1>5. \A i \in DOMAIN <<Filtered, Blocked>> : <<Filtered, Blocked>>[i] # DoneMark
    <2>1. Filtered # DoneMark /\ Blocked # DoneMark
      <3>1. Filtered[1] # DoneMark[1] /\ Blocked[1] # DoneMark[1]
        BY DEF Filtered, Blocked, DoneMark
      <3> QED BY <3>1
    <2> QED BY <2>1
  <1> QED BY <1>1, <1>3, <1>4, <1>5 DEF IsQueue

\* While the provider may go on, the reply is not blocked and no scan is recorded.
Going == body = "streaming" /\ pending = <<>> /\ upstream = "open"

\* What the invariant says while the provider may go on.
LEMMA GoesOn ==
  ASSUME StreamInv, Going
  PROVE  /\ SoFar(policy, Came, held, worst, Reply, FALSE, TRUE) /\ status # "blocked" /\ scans = <<>>
         /\ Reply = ReplyOf(seen, <<>>) /\ AreLists(seen) /\ policy \in Policies
         /\ IsList(Reply) /\ IsList(held) /\ IsList(Came) /\ Range(held) \subseteq Symbols
         /\ rows = <<>>
  <1>1. /\ SoFar(policy, Came, held, worst, Reply, status = "blocked", upstream = "open")
        /\ status # "blocked"
    BY DEF StreamInv, ReplySoFar, Going
  <1>2. scans = <<>> /\ rows = <<>>
    BY DEF StreamInv, RecordsSoFar, Going
  <1>3. (status = "blocked") = FALSE /\ (upstream = "open") = TRUE
    BY <1>1 DEF Going
  <1>4. SoFar(policy, Came, held, worst, Reply, FALSE, TRUE)
    BY <1>1, <1>3
  <1>5. AreLists(seen) /\ policy \in Policies /\ Range(held) \subseteq Symbols
    BY DEF StreamInv, StreamTypes
  <1>6. Reply = ReplyOf(seen, <<>>)
    BY DEF Going, Reply, Said, ReplyOf, SaidOf
  <1>7. PICK g : Passed(policy, Came, held, worst, Reply, g)
    BY <1>4 DEF SoFar
  <1>8. IsList(Reply) /\ IsList(held) /\ IsList(Came)
    BY <1>5, <1>7, BlocksAnyway
  <1> QED BY <1>1, <1>2, <1>4, <1>5, <1>6, <1>8

\* GuardedStream::screen, fail and the provider's end, on a route with output scanners.
LEMMA ScreenStep ==
  ASSUME StreamInv, Going, policy # "off",
         NEW text, NEW cut, NEW after, IsQueue(after), NEW final \in BOOLEAN, NEW failed \in BOOLEAN,
         Screen(text, cut, after, final, failed),
         NEW w2, NEW r, r = Release(policy, text, cut),
         Becomes(policy, w2, worst, Reply, r, FlattenSeq(after), ~ final),
         ~ r.blocked => Range(r.held) \subseteq Symbols /\ Range(r.text) \subseteq Symbols \cup {Mask}
  PROVE  AfterItem(w2, failed)
  <1>1. /\ worst' = Worse(worst, r.outcome)
        /\ IF r.blocked
           THEN held' = <<>> /\ scans' = Recorded(worst') /\ Block
           ELSE /\ held' = r.held
                /\ scans' = IF final THEN Recorded(worst') ELSE scans
                /\ pending' = TextItems(r.text) \o after
                /\ status' = IF failed THEN "error" ELSE status
                /\ upstream' = IF final THEN "over" ELSE upstream
                /\ ended' = final
    BY DEF Screen
  <1>2. /\ status # "blocked" /\ scans = <<>> /\ Reply = ReplyOf(seen, <<>>) /\ AreLists(seen)
        /\ IsList(Reply) /\ upstream = "open" /\ policy \in Policies
    BY GoesOn DEF Going
  <1>3. Recorded(worst') = <<worst'>>
    BY <1>2 DEF Recorded
  <1>4. CASE r.blocked
    <2>1. /\ held' = <<>> /\ scans' = <<worst'>> /\ pending' = <<Filtered, Blocked>>
          /\ status' = "blocked" /\ upstream' = "over"
      BY <1>1, <1>3, <1>4 DEF Block
    <2>2. IsQueue(pending') /\ FlattenSeq(pending') = Filtered \o Blocked /\ IsList(Filtered) /\ IsList(Blocked)
      BY <2>1, ClosingItems
    <2>3. ReplyOf(seen, pending') = Reply \o (Filtered \o Blocked)
      <3>1. AreLists(pending')
        BY <2>2 DEF IsQueue
      <3> QED BY <1>2, <2>2, <3>1, Queued
    <2>4. (Reply \o Filtered) \o Blocked = Reply \o (Filtered \o Blocked)
      <3>1. AreThree(Reply, Filtered, Blocked)
        BY <1>2, <2>2 DEF AreThree
      <3> QED BY <3>1, Assoc
    <2>5. SoFar(policy, w2, <<>>, worst', (Reply \o Filtered) \o Blocked, TRUE, FALSE)
      BY <1>1, <1>4 DEF Becomes
    <2>6. (status' = "blocked") = TRUE /\ (upstream' = "open") = FALSE
      BY <2>1
    <2>7. SoFar(policy, w2, held', worst', ReplyOf(seen, pending'), status' = "blocked", upstream' = "open")
      BY <2>1, <2>3, <2>4, <2>5, <2>6
    <2>8. Range(held') \subseteq Symbols
      BY <2>1, NoElement
    <2> QED BY <2>1, <2>2, <2>7, <2>8 DEF AfterItem
  <1>5. CASE ~ r.blocked
    <2>1. /\ held' = r.held /\ scans' = (IF final THEN <<worst'>> ELSE <<>>)
          /\ pending' = TextItems(r.text) \o after
          /\ status' = (IF failed THEN "error" ELSE status) /\ upstream' = IF final THEN "over" ELSE "open"
      BY <1>1, <1>2, <1>3, <1>5
    <2>2. /\ IsList(r.text)
          /\ SoFar(policy, w2, r.held, worst', (Reply \o r.text) \o FlattenSeq(after), FALSE, ~ final)
      BY <1>1, <1>5 DEF Becomes
    <2>3. r.text # DoneMark
      <3>1. r.text = DoneMark => "[DONE]" \in Range(r.text)
        BY Single DEF DoneMark
      <3>2. "[DONE]" \notin Symbols \cup {Mask}
        BY DEF Symbols, Mask
      <3> QED BY <1>5, <3>1, <3>2
    <2>4. IsQueue(pending') /\ FlattenSeq(pending') = r.text \o FlattenSeq(after)
      BY <2>1, <2>2, <2>3, TextQueued
    <2>5. ReplyOf(seen, pending') = Reply \o (r.text \o FlattenSeq(after))
      <3>1. AreLists(pending')
        BY <2>4 DEF IsQueue
      <3> QED BY <1>2, <2>4, <3>1, Queued
    <2>6. (Reply \o r.text) \o FlattenSeq(after) = Reply \o (r.text \o FlattenSeq(after))
      <3>1. IsList(FlattenSeq(after))
        BY FlattenBoth DEF IsQueue
      <3>2. IsList(Reply) /\ IsList(r.text)
        BY <1>2, <2>2
      <3>3. PICK y, t, q : y = Reply /\ t = r.text /\ q = FlattenSeq(after)
        OBVIOUS
      <3>4. AreThree(y, t, q)
        BY <3>1, <3>2, <3>3 DEF AreThree
      <3>5. (y \o t) \o q = y \o (t \o q)
        BY <3>4, Assoc
      <3> QED BY <3>3, <3>5
    <2>7. (status' = "blocked") = FALSE /\ (upstream' = "open") = (~ final)
      BY <1>2, <2>1
    <2>8. SoFar(policy, w2, held', worst', ReplyOf(seen, pending'), status' = "blocked", upstream' = "open")
      BY <2>1, <2>2, <2>5, <2>6, <2>7
    <2>9. status' \in {"blocked", IF failed THEN "error" ELSE status} /\ status' # "blocked"
      BY <1>2, <2>1
    <2>10. scans' = <<>> \/ (scans' = <<worst'>> /\ policy # "off" /\ upstream' = "over")
      BY <2>1
    <2> QED BY <1>5, <2>1, <2>4, <2>8, <2>9, <2>10 DEF AfterItem
  <1> QED BY <1>4, <1>5

\* The same on a route without.
LEMMA PassOnStep ==
  ASSUME StreamInv, Going, policy = "off",
         NEW after, IsQueue(after), NEW final \in BOOLEAN, NEW failed \in BOOLEAN,
         PassOn(after, final, failed)
  PROVE  AfterItem(Came \o FlattenSeq(after), failed)
  <1>1. /\ status # "blocked" /\ scans = <<>> /\ Reply = ReplyOf(seen, <<>>) /\ AreLists(seen)
        /\ SoFar(policy, Came, held, worst, Reply, FALSE, TRUE)
        /\ IsList(held) /\ Range(held) \subseteq Symbols
    BY GoesOn
  <1>2. /\ pending' = after /\ status' = (IF failed THEN "error" ELSE status)
        /\ upstream' = (IF final THEN "over" ELSE upstream) /\ held' = held /\ worst' = worst /\ scans' = scans
    BY DEF PassOn
  <1>3. PICK g : Passed("off", Came, held, worst, Reply, g)
    BY <1>1 DEF SoFar
  <1>4. held = <<>>
    BY <1>3 DEF Passed
  <1>5. AreLists(after) /\ IsList(FlattenSeq(after))
    BY FlattenBoth DEF IsQueue
  <1>6. Passed("off", Came \o FlattenSeq(after), <<>>, worst, Reply \o FlattenSeq(after), Came \o FlattenSeq(after))
    BY <1>3, <1>4, <1>5, PassesAll
  <1>7. ReplyOf(seen, pending') = Reply \o FlattenSeq(after)
    BY <1>1, <1>2, <1>5, Queued
  <1>8. (status' = "blocked") = FALSE
    BY <1>1, <1>2
  <1>9. SoFar(policy, Came \o FlattenSeq(after), held', worst', ReplyOf(seen, pending'), FALSE, upstream' = "open")
    BY <1>2, <1>4, <1>6, <1>7 DEF SoFar
  <1>10. status' # "blocked" /\ status' \in {"blocked", IF failed THEN "error" ELSE status}
    BY <1>2, <1>8
  <1>11. SoFar(policy, Came \o FlattenSeq(after), held', worst', ReplyOf(seen, pending'), status' = "blocked", upstream' = "open")
    BY <1>8, <1>9
  <1> QED BY <1>1, <1>2, <1>10, <1>11 DEF AfterItem

\* An item keeps the invariant.
LEMMA ItemKeeps ==
  ASSUME StreamInv, Going, NEW item, IsList(item), Range(item) \subseteq Items, Arrive(item),
         NEW failed \in BOOLEAN, AfterItem(Came \o item, failed),
         failed <=> "error" \in Range(item), "done" \in Range(item) => usage', usage => usage'
  PROVE  StreamInv'
  <1>1. /\ sent' = Append(sent, item) /\ policy' = policy /\ seen' = seen /\ body' = body /\ rows' = rows
        /\ AreLists(sent)
    BY DEF Arrive, StreamInv, StreamTypes
  <1>2. /\ AreLists(sent') /\ Came' = Came \o item
        /\ Range(Came') = Range(Came) \cup Range(item)
    BY <1>1, CameMore DEF Came
  <1>3. /\ SoFar(policy, Came \o item, held', worst', ReplyOf(seen, pending'), status' = "blocked", upstream' = "open")
        /\ status' = "blocked" => upstream' = "over"
        /\ IsQueue(pending') /\ Range(held') \subseteq Symbols
        /\ status' \in {"blocked", IF failed THEN "error" ELSE status}
        /\ scans' = <<>> \/ (scans' = <<worst'>> /\ policy # "off" /\ upstream' = "over")
    BY DEF AfterItem
  <1>4. Reply' = ReplyOf(seen, pending')
    BY <1>1 DEF Reply, Said, ReplyOf, SaidOf
  <1>5. StreamTypes'
    <2>1. status' \in {"ok", "error", "blocked"}
      BY <1>3 DEF StreamInv, StreamTypes
    <2>2. policy' \in Policies /\ AreLists(seen') /\ Range(Came') \subseteq Items
      BY <1>1, <1>2 DEF StreamInv, StreamTypes
    <2> QED BY <1>2, <1>3, <2>1, <2>2 DEF StreamTypes
  <1>6. ReplySoFar'
    BY <1>1, <1>2, <1>3, <1>4 DEF ReplySoFar
  <1>7. StatusSoFar'
    BY <1>2, <1>3 DEF StreamInv, StatusSoFar
  <1>8. RecordsSoFar'
    BY <1>1, <1>3, GoesOn DEF RecordsSoFar, Going
  <1> QED BY <1>5, <1>6, <1>7, <1>8 DEF StreamInv

\* Init and every action, for GuardedStream.
LEMMA StreamInvInit == Init => StreamInv
  <1> SUFFICES ASSUME Init PROVE StreamInv
    OBVIOUS
  <1>1. /\ policy \in Policies /\ upstream = "open" /\ sent = <<>> /\ held = <<>> /\ worst = "pass"
        /\ scans = <<>> /\ pending = <<>> /\ status = "ok" /\ seen = <<>> /\ body = "streaming" /\ rows = <<>>
    BY DEF Init
  <1>2. FlattenSeq(<<>>) = <<>> /\ AreLists(<<>>) /\ IsList(<<>>) /\ Range(<<>>) = {} /\ DOMAIN <<>> = {}
    BY NoElement, OneList
  <1>3. Len(<<>>) = 0
    BY EmptySeq
  <1>4. Reply = <<>>
    <2>1. ReplyOf(<<>>, <<>>) = ReplyOf(<<>>, <<>>) \o <<>>
      BY <1>2, Queued
    <2>2. SaidOf(<<>>) = <<>>
      <3>1. SaidOf(<<>>) = [i \in 1..0 |-> SaidOf(<<>>)[i]]
        <4>1. 1..0 = {}
          OBVIOUS
        <4> QED BY <1>2, <4>1 DEF SaidOf
      <3>2. IsList(SaidOf(<<>>)) /\ Len(SaidOf(<<>>)) = 0
        BY <3>1, ListOf
      <3> QED BY <3>2, EmptySeq DEF IsList
    <2>3. ReplyOf(<<>>, <<>>) = <<>>
      BY <1>2, <2>2, NothingAdded DEF ReplyOf
    <2>4. Reply = ReplyOf(seen, pending)
      BY DEF Reply, Said, ReplyOf, SaidOf
    <2> QED BY <1>1, <2>3, <2>4
  <1>5. Came = <<>>
    BY <1>1, <1>2 DEF Came
  <1>6. Secrets(<<>>) = {} /\ Banned(<<>>) = {} /\ Masked(<<>>) = <<>>
    <2>1. Secrets(<<>>) = {} /\ Banned(<<>>) = {}
      BY <1>2 DEF Secrets, Banned
    <2>2. Masked(<<>>) = <<>>
      <3>1. "t" # "s"
        OBVIOUS
      <3> QED BY <3>1, MarkIsShown
    <2> QED BY <2>1, <2>2
  <1>7. \E g : Passed(policy, <<>>, <<>>, "pass", <<>>, g) /\ Final(<<>>, Len(g))
    <2>1. <<>> = <<>> \o <<>>
      BY <1>2, NothingAdded
    <2>2. Between(<<>>, Len(<<>>)) /\ Final(<<>>, Len(<<>>))
      BY <1>2, <1>3, EndOfText
    <2>3. Screened(policy, <<>>) = <<>>
      BY <1>6 DEF Screened
    <2>4. Outcome(policy, <<>>) = "pass"
      BY <1>1, <1>6, OutcomeOf DEF Policies
    <2>5. Passed(policy, <<>>, <<>>, "pass", <<>>, <<>>)
      BY <1>2, <1>6, <2>1, <2>2, <2>3, <2>4 DEF Passed
    <2> QED BY <2>2, <2>5
  <1>8. (status = "blocked") = FALSE
    BY <1>1
  <1>9. SoFar(policy, Came, held, worst, Reply, FALSE, upstream = "open")
    BY <1>1, <1>4, <1>5, <1>7 DEF SoFar
  <1>10. StreamTypes
    BY <1>1, <1>2, <1>5 DEF StreamTypes, IsQueue
  <1>11. ReplySoFar
    BY <1>1, <1>8, <1>9 DEF ReplySoFar
  <1>12. StatusSoFar /\ RecordsSoFar
    BY <1>1, <1>2, <1>5 DEF StatusSoFar, RecordsSoFar
  <1> QED BY <1>10, <1>11, <1>12 DEF StreamInv

\* A queue of one item, and of none.
LEMMA OneQueued ==
  /\ IsQueue(<<>>) /\ FlattenSeq(<<>>) = <<>>
  /\ \A x : IsList(x) /\ x # DoneMark => IsQueue(<<x>>) /\ FlattenSeq(<<x>>) = x
  <1>1. AreLists(<<>>) /\ FlattenSeq(<<>>) = <<>> /\ DOMAIN <<>> = {}
    BY NoElement, OneList
  <1>2. ASSUME NEW x, IsList(x), x # DoneMark PROVE IsQueue(<<x>>) /\ FlattenSeq(<<x>>) = x
    BY <1>2, OneList, Single DEF IsQueue
  <1> QED BY <1>1, <1>2 DEF IsQueue

\* Text.
LEMMA DeltaKeeps ==
  ASSUME StreamInv, NEW text \in Deltas, DeltaArrives(text)
  PROVE  StreamInv'
  <1>1. /\ Arrive(text) /\ usage' = usage /\ Going
        /\ IF policy = "off"
           THEN PassOn(<<text>>, FALSE, FALSE)
           ELSE Screen(held \o text, WindowCut(held \o text), <<>>, FALSE, FALSE)
    BY DEF DeltaArrives, Arrive, Polling, Going
  <1>2. IsList(text) /\ text # <<>> /\ Range(text) \subseteq Symbols
    <2>1. text \in Seq(Symbols) /\ text # <<>>
      BY StreamAssumption
    <2> QED BY <2>1, SequenceIsList
  <1>3. Range(text) \subseteq Items /\ "error" \notin Range(text) /\ "done" \notin Range(text) /\ text # DoneMark
    <2>1. "[DONE]" \in Range(DoneMark)
      BY Single DEF DoneMark
    <2> QED BY <1>2, <2>1 DEF Items, Symbols
  <1>4. IsQueue(<<>>) /\ FlattenSeq(<<>>) = <<>> /\ IsQueue(<<text>>) /\ FlattenSeq(<<text>>) = text
    BY <1>2, <1>3, OneQueued
  <1>5. AfterItem(Came \o text, FALSE)
    <2>1. CASE policy = "off"
      <3>1. PassOn(<<text>>, FALSE, FALSE)
        BY <1>1, <2>1
      <3>2. AfterItem(Came \o FlattenSeq(<<text>>), FALSE)
        BY <1>1, <1>4, <2>1, <3>1, PassOnStep
      <3> QED BY <1>4, <3>2
    <2>2. CASE policy # "off"
      <3> DEFINE r == Release(policy, held \o text, WindowCut(held \o text))
      <3>1. Screen(held \o text, WindowCut(held \o text), <<>>, FALSE, FALSE)
        BY <1>1, <2>2
      <3>2. SoFar(policy, Came, held, worst, Reply, FALSE, TRUE) /\ policy \in {"observe", "block"} /\ Range(held) \subseteq Symbols
        BY <1>1, <2>2, GoesOn DEF Policies
      <3>3. r = Release(policy, held \o text, WindowCut(held \o text))
        OBVIOUS
      <3> HIDE DEF r
      <3>4. /\ Becomes(policy, Came \o text, worst, Reply, r, <<>>, TRUE)
            /\ ~ r.blocked => /\ Range(r.held) \subseteq Range(held) \cup Range(text)
                              /\ Range(r.text) \subseteq Range(held) \cup Range(text) \cup {Mask}
        <4>1. TakesDelta(policy, Came, held, worst, Reply, text, r)
          BY <1>2, <3>2, <3>3 DEF TakesDelta
        <4> QED BY <3>2, <4>1, DeltaBecomes
      <3>5. (~ FALSE) = TRUE
        OBVIOUS
      <3>6. ~ r.blocked => Range(r.held) \subseteq Symbols /\ Range(r.text) \subseteq Symbols \cup {Mask}
        BY <1>2, <3>2, <3>4
      <3>7. Becomes(policy, Came \o text, worst, Reply, r, FlattenSeq(<<>>), ~ FALSE)
        BY <1>4, <3>4, <3>5
      <3> QED BY <1>1, <1>4, <2>2, <3>1, <3>3, <3>6, <3>7, ScreenStep
    <2> QED BY <2>1, <2>2
  <1> QED BY <1>1, <1>2, <1>3, <1>5, ItemKeeps

\* A tool call, the final Done or an error.
LEMMA MarkKeeps ==
  ASSUME StreamInv, Going, NEW x \in {"tool_call", "done", "error"}, Arrive(<<x>>),
         x = "done" => usage', usage => usage',
         IF policy = "off"
         THEN PassOn(<<<<x>>>>, FALSE, x = "error")
         ELSE Screen(held, Len(held), <<<<x>>>>, FALSE, x = "error")
  PROVE  StreamInv'
  <1>1. /\ IsList(<<x>>) /\ Range(<<x>>) = {x} /\ x \notin {"s", "b", "n"} /\ <<x>> # DoneMark
        /\ Range(<<x>>) \subseteq Items
    <2>1. IsList(<<x>>) /\ Range(<<x>>) = {x} /\ <<x>>[1] = x /\ DoneMark[1] = "[DONE]"
      BY Single DEF DoneMark
    <2>2. x \notin {"s", "b", "n"} /\ x # "[DONE]" /\ x \in Items
      BY DEF Items
    <2> QED BY <2>1, <2>2
  <1>2. IsQueue(<<<<x>>>>) /\ FlattenSeq(<<<<x>>>>) = <<x>>
    BY <1>1, OneQueued
  <1>3. (x = "error") \in BOOLEAN
    OBVIOUS
  <1>4. AfterItem(Came \o <<x>>, x = "error")
    <2>1. CASE policy = "off"
      <3>1. PassOn(<<<<x>>>>, FALSE, x = "error")
        BY <2>1
      <3>2. AfterItem(Came \o FlattenSeq(<<<<x>>>>), x = "error")
        BY <1>2, <1>3, <2>1, <3>1, PassOnStep
      <3> QED BY <1>2, <3>2
    <2>2. CASE policy # "off"
      <3> DEFINE r == Release(policy, held, Len(held))
      <3>1. Screen(held, Len(held), <<<<x>>>>, FALSE, x = "error")
        BY <2>2
      <3>2. SoFar(policy, Came, held, worst, Reply, FALSE, TRUE) /\ policy \in {"observe", "block"} /\ Range(held) \subseteq Symbols
        BY <2>2, GoesOn DEF Policies
      <3>3. r = Release(policy, held, Len(held))
        OBVIOUS
      <3> HIDE DEF r
      <3>4. /\ Becomes(policy, Came \o <<x>>, worst, Reply, r, <<x>>, TRUE)
            /\ ~ r.blocked => /\ Range(r.held) \subseteq Range(held)
                              /\ Range(r.text) \subseteq Range(held) \cup {Mask}
        <4>1. ReleasesAll(policy, Came, held, worst, Reply, r)
          BY <3>2, <3>3 DEF ReleasesAll
        <4> QED BY <1>1, <3>2, <4>1, MarkBecomes
      <3>5. (~ FALSE) = TRUE
        OBVIOUS
      <3>6. ~ r.blocked => Range(r.held) \subseteq Symbols /\ Range(r.text) \subseteq Symbols \cup {Mask}
        BY <3>2, <3>4
      <3>7. Becomes(policy, Came \o <<x>>, worst, Reply, r, FlattenSeq(<<<<x>>>>), ~ FALSE)
        BY <1>2, <3>4, <3>5
      <3> QED BY <1>2, <1>3, <2>2, <3>1, <3>3, <3>6, <3>7, ScreenStep
    <2> QED BY <2>1, <2>2
  <1>5. /\ (x = "error") <=> "error" \in Range(<<x>>)
        /\ "done" \in Range(<<x>>) => usage'
    BY <1>1
  <1> QED BY <1>1, <1>3, <1>4, <1>5, ItemKeeps

\* The provider's end.
LEMMA EndKeeps ==
  ASSUME StreamInv, UpstreamEnds
  PROVE  StreamInv'
  <1>1. /\ Going /\ policy' = policy /\ sent' = sent /\ usage' = usage /\ seen' = seen /\ body' = body /\ rows' = rows
        /\ IF policy = "off"
           THEN PassOn(<<>>, TRUE, FALSE)
           ELSE Screen(held, Len(held), <<>>, TRUE, FALSE)
    BY DEF UpstreamEnds, Going
  <1>2. IsQueue(<<>>) /\ FlattenSeq(<<>>) = <<>>
    BY OneQueued
  <1>3. AfterItem(Came, FALSE)
    <2>1. CASE policy = "off"
      <3>1. PassOn(<<>>, TRUE, FALSE)
        BY <1>1, <2>1
      <3>2. AfterItem(Came \o FlattenSeq(<<>>), FALSE)
        BY <1>1, <1>2, <2>1, <3>1, PassOnStep
      <3>3. Came \o <<>> = Came
        BY <1>1, GoesOn, NothingAdded
      <3> QED BY <1>2, <3>2, <3>3
    <2>2. CASE policy # "off"
      <3> DEFINE r == Release(policy, held, Len(held))
      <3>1. Screen(held, Len(held), <<>>, TRUE, FALSE)
        BY <1>1, <2>2
      <3>2. SoFar(policy, Came, held, worst, Reply, FALSE, TRUE) /\ policy \in {"observe", "block"} /\ Range(held) \subseteq Symbols
        BY <1>1, <2>2, GoesOn DEF Policies
      <3>3. r = Release(policy, held, Len(held))
        OBVIOUS
      <3> HIDE DEF r
      <3>4. /\ Becomes(policy, Came, worst, Reply, r, <<>>, FALSE)
            /\ ~ r.blocked => /\ Range(r.held) \subseteq Range(held)
                              /\ Range(r.text) \subseteq Range(held) \cup {Mask}
        <4>1. ReleasesAll(policy, Came, held, worst, Reply, r)
          BY <3>2, <3>3 DEF ReleasesAll
        <4> QED BY <3>2, <4>1, EndBecomes
      <3>5. (~ TRUE) = FALSE
        OBVIOUS
      <3>6. ~ r.blocked => Range(r.held) \subseteq Symbols /\ Range(r.text) \subseteq Symbols \cup {Mask}
        BY <3>2, <3>4
      <3>7. Becomes(policy, Came, worst, Reply, r, FlattenSeq(<<>>), ~ TRUE)
        BY <1>2, <3>4, <3>5
      <3> QED BY <1>1, <1>2, <2>2, <3>1, <3>3, <3>6, <3>7, ScreenStep
    <2> QED BY <2>1, <2>2
  <1>4. /\ SoFar(policy, Came, held', worst', ReplyOf(seen, pending'), status' = "blocked", upstream' = "open")
        /\ status' = "blocked" => upstream' = "over"
        /\ IsQueue(pending') /\ Range(held') \subseteq Symbols
        /\ status' \in {"blocked", status}
        /\ scans' = <<>> \/ (scans' = <<worst'>> /\ policy # "off" /\ upstream' = "over")
    BY <1>3 DEF AfterItem
  <1>5. Reply' = ReplyOf(seen, pending') /\ Came' = Came
    BY <1>1 DEF Reply, Said, ReplyOf, SaidOf, Came
  <1>6. StreamTypes'
    <2>1. status' \in {"ok", "error", "blocked"}
      BY <1>4 DEF StreamInv, StreamTypes
    <2>2. policy' \in Policies /\ AreLists(seen') /\ Range(Came') \subseteq Items /\ AreLists(sent')
      BY <1>1, <1>5 DEF StreamInv, StreamTypes
    <2> QED BY <1>4, <2>1, <2>2 DEF StreamTypes
  <1>7. ReplySoFar'
    BY <1>1, <1>4, <1>5 DEF ReplySoFar
  <1>8. StatusSoFar'
    BY <1>1, <1>4, <1>5 DEF StreamInv, StatusSoFar
  <1>9. RecordsSoFar'
    BY <1>1, <1>4, GoesOn DEF RecordsSoFar, Going
  <1> QED BY <1>6, <1>7, <1>8, <1>9 DEF StreamInv

\* The client takes an item.
LEMMA HandOutKeeps ==
  ASSUME StreamInv, HandOut
  PROVE  StreamInv'
  <1>1. /\ body = "streaming" /\ pending # <<>> /\ seen' = Append(seen, Head(pending)) /\ pending' = Tail(pending)
        /\ policy' = policy /\ upstream' = upstream /\ sent' = sent /\ held' = held /\ worst' = worst
        /\ scans' = scans /\ status' = status /\ usage' = usage /\ body' = body /\ rows' = rows
    BY DEF HandOut
  <1>2. AreLists(seen) /\ IsQueue(pending)
    BY DEF StreamInv, StreamTypes
  <1>3. AreLists(seen') /\ IsQueue(pending') /\ ReplyOf(seen', pending') = ReplyOf(seen, pending)
    BY <1>1, <1>2, HandedOut
  <1>4. Reply' = Reply /\ Came' = Came /\ Row' = Row
    BY <1>1, <1>3 DEF Reply, Said, ReplyOf, SaidOf, Came, Row
  <1>5. StreamTypes'
    BY <1>1, <1>3, <1>4 DEF StreamInv, StreamTypes
  <1>6. ReplySoFar'
    BY <1>1, <1>4 DEF StreamInv, ReplySoFar
  <1>7. StatusSoFar'
    BY <1>1, <1>4 DEF StreamInv, StatusSoFar
  <1>8. RecordsSoFar'
    BY <1>1, <1>4 DEF StreamInv, RecordsSoFar
  <1> QED BY <1>5, <1>6, <1>7, <1>8 DEF StreamInv

\* The body closes with [DONE], which is no part of the reply.
LEMMA FinishKeeps ==
  ASSUME StreamInv, Finish
  PROVE  StreamInv'
  <1>1. /\ body = "streaming" /\ seen' = Append(seen, DoneMark) /\ body' = "finished" /\ pending' = pending
        /\ policy' = policy /\ upstream' = upstream /\ sent' = sent /\ held' = held /\ worst' = worst
        /\ scans' = scans /\ status' = status /\ usage' = usage /\ rows' = rows
    BY DEF Finish
  <1>2. AreLists(seen) /\ IsList(DoneMark)
    BY Single DEF StreamInv, StreamTypes, DoneMark
  <1>3. AreLists(seen') /\ ReplyOf(seen', pending) = ReplyOf(seen, pending)
    <2>1. /\ AreLists(Append(seen, DoneMark)) /\ AreLists(SaidOf(seen))
          /\ FlattenSeq(SaidOf(Append(seen, DoneMark))) = FlattenSeq(SaidOf(seen)) \o <<>>
      BY <1>2, SaidAppend
    <2>2. FlattenSeq(SaidOf(seen)) \o <<>> = FlattenSeq(SaidOf(seen))
      <3>1. IsList(FlattenSeq(SaidOf(seen)))
        BY <2>1, FlattenBoth
      <3> QED BY <3>1, NothingAdded
    <2> QED BY <1>1, <2>1, <2>2 DEF ReplyOf
  <1>4. Reply' = Reply /\ Came' = Came
    BY <1>1, <1>3 DEF Reply, Said, ReplyOf, SaidOf, Came
  <1>5. StreamTypes'
    BY <1>1, <1>3, <1>4 DEF StreamInv, StreamTypes
  <1>6. ReplySoFar'
    BY <1>1, <1>4 DEF StreamInv, ReplySoFar
  <1>7. StatusSoFar'
    BY <1>1, <1>4 DEF StreamInv, StatusSoFar
  <1>8. RecordsSoFar'
    BY <1>1, <1>4 DEF StreamInv, RecordsSoFar
  <1> QED BY <1>5, <1>6, <1>7, <1>8 DEF StreamInv

\* The body is dropped: the row and the scan.
LEMMA DropKeeps ==
  ASSUME StreamInv, Drop
  PROVE  StreamInv'
  <1>1. /\ body # "dropped" /\ rows' = Append(rows, Row) /\ scans' = Recorded(worst) /\ body' = "dropped"
        /\ policy' = policy /\ upstream' = upstream /\ sent' = sent /\ held' = held /\ worst' = worst
        /\ pending' = pending /\ status' = status /\ usage' = usage /\ seen' = seen
    BY DEF Drop
  <1>2. Reply' = Reply /\ Came' = Came /\ Row' = Row
    BY <1>1 DEF Reply, Said, Came, Row
  <1>3. StreamTypes'
    BY <1>1, <1>2 DEF StreamInv, StreamTypes
  <1>4. ReplySoFar'
    BY <1>1, <1>2 DEF StreamInv, ReplySoFar
  <1>5. StatusSoFar'
    BY <1>1, <1>2 DEF StreamInv, StatusSoFar
  <1>6. RecordsSoFar'
    <2>1. rows = <<>>
      BY <1>1 DEF StreamInv, RecordsSoFar
    <2>2. rows' = <<Row'>>
      <3>1. Append(<<>>, Row) = <<>> \o <<Row>>
        BY NoElement, AppendsOne
      <3>2. <<>> \o <<Row>> = <<Row>>
        BY Single, NothingAdded
      <3> QED BY <1>1, <1>2, <2>1, <3>1, <3>2
    <2>3. scans = <<>> \/ (scans = <<worst>> /\ policy # "off")
      BY DEF StreamInv, RecordsSoFar
    <2>4. <<worst>> # <<>>
      BY Single, NoElement
    <2>5. scans' = (IF scans = <<>> /\ policy # "off" THEN <<worst>> ELSE scans)
      BY <1>1 DEF Recorded
    <2> QED BY <1>1, <2>2, <2>3, <2>4, <2>5 DEF RecordsSoFar
  <1> QED BY <1>3, <1>4, <1>5, <1>6 DEF StreamInv

\* Every step keeps the invariant.
LEMMA StreamInvNext == StreamInv /\ [Next]_vars => StreamInv'
  <1> SUFFICES ASSUME StreamInv, [Next]_vars PROVE StreamInv'
    OBVIOUS
  <1>1. ASSUME NEW text \in Deltas, DeltaArrives(text) PROVE StreamInv'
    BY <1>1, DeltaKeeps
  <1>2. CASE ToolCallArrives
    <2>1. Arrive(<<"tool_call">>) /\ Going /\ (usage => usage')
      BY <1>2 DEF ToolCallArrives, ToolCall, Arrive, Polling, Going
    <2>2. IF policy = "off"
          THEN PassOn(<<<<"tool_call">>>>, FALSE, "tool_call" = "error")
          ELSE Screen(held, Len(held), <<<<"tool_call">>>>, FALSE, "tool_call" = "error")
      <3>1. ("tool_call" = "error") = FALSE
        OBVIOUS
      <3> QED BY <1>2, <3>1 DEF ToolCallArrives, ToolCall
    <2>3. "tool_call" = "done" => usage'
      OBVIOUS
    <2> QED BY <2>1, <2>2, <2>3, MarkKeeps
  <1>3. CASE DoneArrives
    <2>1. Arrive(<<"done">>) /\ Going /\ usage' = TRUE
      BY <1>3 DEF DoneArrives, Done, Arrive, Polling, Going
    <2>2. IF policy = "off"
          THEN PassOn(<<<<"done">>>>, FALSE, "done" = "error")
          ELSE Screen(held, Len(held), <<<<"done">>>>, FALSE, "done" = "error")
      <3>1. ("done" = "error") = FALSE
        OBVIOUS
      <3> QED BY <1>3, <3>1 DEF DoneArrives, Done
    <2> QED BY <2>1, <2>2, MarkKeeps
  <1>4. CASE ErrorArrives
    <2>1. Arrive(<<"error">>) /\ Going /\ (usage => usage')
      BY <1>4 DEF ErrorArrives, Failure, Arrive, Polling, Going
    <2>2. IF policy = "off"
          THEN PassOn(<<<<"error">>>>, FALSE, "error" = "error")
          ELSE Screen(held, Len(held), <<<<"error">>>>, FALSE, "error" = "error")
      <3>1. ("error" = "error") = TRUE
        OBVIOUS
      <3> QED BY <1>4, <3>1 DEF ErrorArrives, Failure
    <2>3. "error" = "done" => usage'
      OBVIOUS
    <2> QED BY <2>1, <2>2, <2>3, MarkKeeps
  <1>5. CASE UNCHANGED vars
    <2>1. /\ policy' = policy /\ upstream' = upstream /\ sent' = sent /\ held' = held /\ worst' = worst
          /\ scans' = scans /\ pending' = pending /\ status' = status /\ usage' = usage /\ seen' = seen
          /\ body' = body /\ rows' = rows
      BY <1>5 DEF vars
    <2>2. Reply' = Reply /\ Came' = Came /\ Row' = Row
      BY <2>1 DEF Reply, Said, Came, Row
    <2>3. StreamTypes' /\ StatusSoFar'
      BY <2>1, <2>2 DEF StreamInv, StreamTypes, StatusSoFar
    <2>4. ReplySoFar' /\ RecordsSoFar'
      BY <2>1, <2>2 DEF StreamInv, ReplySoFar, RecordsSoFar
    <2> QED BY <2>3, <2>4 DEF StreamInv
  <1>6. CASE HandOut
    BY <1>6, HandOutKeeps
  <1>7. CASE UpstreamEnds
    BY <1>7, EndKeeps
  <1>8. CASE Finish
    BY <1>8, FinishKeeps
  <1>9. CASE Drop
    BY <1>9, DropKeeps
  <1> QED BY <1>1, <1>2, <1>3, <1>4, <1>5, <1>6, <1>7, <1>8, <1>9 DEF Next, Poll

\* The invariant holds of every behaviour.
LEMMA StreamInvHolds == Spec => []StreamInv
  BY StreamInvInit, StreamInvNext, PTL DEF Spec

-----------------------------------------------------------------------------
(* What the reply promises *)

\* A reply that is not blocked shows what was screened of the text that came.
Shows(g) ==
  /\ Passed(policy, Came, held, worst, Reply, g)
  /\ IsList(g) /\ IsList(held) /\ Range(g) \subseteq Items
  /\ Range(Came) = Range(g) \cup Range(held)
  /\ Range(Reply) \subseteq Range(g) \cup {Mask}
  /\ \A x \in Range(g) : x # "s" => x \in Range(Reply)

\* Every reply that is not blocked is one.
LEMMA OpenReply ==
  ASSUME StreamInv, status # "blocked"
  PROVE  \E g : Shows(g)
  <1>1. (status = "blocked") = FALSE
    OBVIOUS
  <1>2. SoFar(policy, Came, held, worst, Reply, FALSE, upstream = "open")
    BY <1>1 DEF StreamInv, ReplySoFar
  <1>3. PICK g : Passed(policy, Came, held, worst, Reply, g)
    BY <1>2 DEF SoFar
  <1>4. IsList(g) /\ IsList(held) /\ Came = g \o held /\ Reply = Screened(policy, g)
    BY <1>3 DEF Passed
  <1>5. Range(Came) = Range(g) \cup Range(held)
    BY <1>4, PutTogetherRange
  <1>6. Range(Came) \subseteq Items
    BY DEF StreamInv, StreamTypes
  <1>7. Range(Reply) \subseteq Range(g) \cup {Mask} /\ \A x \in Range(g) : x # "s" => x \in Range(Reply)
    BY <1>4, MaskedRange DEF Screened
  <1> QED BY <1>3, <1>4, <1>5, <1>6, <1>7 DEF Shows

\* A blocked reply is what was screened up to some point, and the two closing items.
Ends(g, m) ==
  /\ Stopped(Came, Reply, g)
  /\ IsList(g) /\ Range(g) \subseteq Range(Came)
  /\ m = Masked(g) /\ IsList(m) /\ Reply = (m \o Filtered) \o Blocked
  /\ IsList(Reply) /\ Range(Reply) = Range(m) \cup {"done_content_filter", "blocked"}
  /\ Range(m) \subseteq Range(g) \cup {Mask}

\* Every blocked reply is one, by the block policy, and the provider is read no more.
LEMMA ClosedReply ==
  ASSUME StreamInv, status = "blocked"
  PROVE  policy = "block" /\ worst = "block" /\ upstream = "over" /\ \E g, m : Ends(g, m)
  <1>1. (status = "blocked") = TRUE
    OBVIOUS
  <1>2. SoFar(policy, Came, held, worst, Reply, TRUE, upstream = "open") /\ upstream = "over"
    BY <1>1 DEF StreamInv, ReplySoFar
  <1>3. policy = "block" /\ worst = "block" /\ \E g : Stopped(Came, Reply, g)
    BY <1>2 DEF SoFar
  <1>4. PICK g : Stopped(Came, Reply, g)
    BY <1>3
  <1>5. PICK rest : IsList(rest) /\ Came = g \o rest
    BY <1>4 DEF Stopped
  <1>6. IsList(g) /\ Reply = (Masked(g) \o Filtered) \o Blocked
    BY <1>4 DEF Stopped
  <1>7. Range(g) \subseteq Range(Came)
    BY <1>5, <1>6, PutTogetherRange
  <1>8. PICK m : m = Masked(g)
    OBVIOUS
  <1>9. IsList(m) /\ Range(m) \subseteq Range(g) \cup {Mask}
    BY <1>6, <1>8, MaskedByCells, MaskedRange
  <1>10. /\ IsList(Filtered) /\ Range(Filtered) = {"done_content_filter"}
         /\ IsList(Blocked) /\ Range(Blocked) = {"blocked"}
    BY Single DEF Filtered, Blocked
  <1>11. IsList(m \o Filtered) /\ Range(m \o Filtered) = Range(m) \cup {"done_content_filter"}
    BY <1>9, <1>10, PutTogether, PutTogetherRange
  <1>12. /\ IsList((m \o Filtered) \o Blocked)
         /\ Range((m \o Filtered) \o Blocked) = Range(m) \cup {"done_content_filter", "blocked"}
    BY <1>10, <1>11, PutTogether, PutTogetherRange
  <1>13. Ends(g, m)
    BY <1>4, <1>6, <1>7, <1>8, <1>9, <1>12 DEF Ends
  <1> QED BY <1>2, <1>3, <1>13

\* The reply says that it was blocked exactly when the status does.
LEMMA BlockShows ==
  ASSUME StreamInv
  PROVE  WasBlocked <=> status = "blocked"
  <1>1. CASE status = "blocked"
    <2>1. PICK g, m : Ends(g, m)
      BY <1>1, ClosedReply
    <2>2. "blocked" \in Range(Reply)
      BY <2>1 DEF Ends
    <2> QED BY <1>1, <2>2 DEF WasBlocked
  <1>2. CASE status # "blocked"
    <2>1. PICK g : Shows(g)
      BY <1>2, OpenReply
    <2>2. Range(Reply) \subseteq Items \cup {Mask}
      BY <2>1 DEF Shows
    <2>3. "blocked" \notin Items \cup {Mask}
      BY DEF Items, Symbols, Mask
    <2> QED BY <1>2, <2>2, <2>3 DEF WasBlocked
  <1> QED BY <1>1, <1>2

\* From the invariant: what is released, and what is held once screened, is the whole screened at once.
LEMMA WholeFollows == StreamInv => ReplyIsScreenedWhole
  <1> SUFFICES ASSUME StreamInv, ~ WasBlocked
               PROVE  Reply \o (IF policy = "off" THEN <<>> ELSE Screened(policy, held)) = Screened(policy, Came)
    BY DEF ReplyIsScreenedWhole, Came
  <1>1. status # "blocked"
    BY BlockShows
  <1>2. PICK g : Passed(policy, Came, held, worst, Reply, g)
    BY <1>1, OpenReply DEF Shows
  <1>3. /\ IsList(g) /\ IsList(held) /\ Came = g \o held /\ Between(Came, Len(g))
        /\ Reply = Screened(policy, g) /\ (policy = "off" => held = <<>>)
    BY <1>2 DEF Passed
  <1>4. CASE policy = "off"
    <2>1. Reply = g /\ Came = g /\ Screened(policy, Came) = Came
      BY <1>3, <1>4, NothingAdded DEF Screened
    <2> QED BY <1>3, <1>4, <2>1, NothingAdded
  <1>5. CASE policy = "observe"
    <2>1. Reply = g /\ Screened(policy, held) = held /\ Screened(policy, Came) = Came
      BY <1>3, <1>5 DEF Screened
    <2> QED BY <1>3, <1>5, <2>1
  <1>6. CASE policy = "block"
    <2>1. Between(g \o held, Len(g))
      BY <1>3
    <2>2. Masked(g \o held) = Masked(g) \o Masked(held)
      BY <1>3, <2>1, MaskedParts
    <2>3. Reply = Masked(g) /\ Screened(policy, held) = Masked(held) /\ Screened(policy, Came) = Masked(Came)
      BY <1>3, <1>6 DEF Screened
    <2> QED BY <1>3, <1>6, <2>2, <2>3
  <1>7. policy \in {"off", "observe", "block"}
    BY DEF StreamInv, StreamTypes, Policies
  <1> QED BY <1>4, <1>5, <1>6, <1>7

\* The beginning of a longer list is a prefix.
LEMMA BeginsWith ==
  ASSUME NEW s, NEW t, IsList(s), IsList(t)
  PROVE  IsPrefix(s, s \o t) /\ Len(s \o t) - Len(t) = Len(s) /\ Len(s) \in Nat
  <1>1. SubSeq(s \o t, 1, Len(s)) = s
    BY Beginning
  <1>2. SubSeq(s \o <<>>, 1, Len(s)) = s /\ s \o <<>> = s
    BY NoElement, NothingAdded, Beginning
  <1>3. Len(s) \in Nat /\ Len(s) <= Len(s \o t)
    BY NotLonger
  <1>4. Len(s \o t) - Len(t) = Len(s)
    <2>1. PICK ls, lt \in Nat : ls = Len(s) /\ lt = Len(t) /\ Len(s \o t) = ls + lt
      BY PutTogether, ListShape
    <2>2. (ls + lt) - lt = ls
      OBVIOUS
    <2> QED BY <2>1, <2>2
  <1> QED BY <1>1, <1>2, <1>3, <1>4 DEF IsPrefix

\* From the invariant: a blocked reply is a screened beginning and the two closing items.
LEMMA BlockFollows == StreamInv => BlockedReplyStops
  <1> SUFFICES ASSUME StreamInv, WasBlocked
               PROVE  LET shown == SubSeq(Reply, 1, Len(Reply) - 2)
                      IN  /\ Reply = shown \o Filtered \o Blocked
                          /\ IsPrefix(shown, Screened(policy, Came))
                          /\ Banned(shown) = {}
                          /\ upstream = "over" /\ status = "blocked"
    BY DEF BlockedReplyStops, Came
  <1>1. status = "blocked"
    BY BlockShows
  <1>2. policy = "block" /\ upstream = "over"
    BY <1>1, ClosedReply
  <1>3. PICK g, m : Ends(g, m)
    BY <1>1, ClosedReply
  <1>4. Stopped(Came, Reply, g) /\ IsList(g) /\ m = Masked(g) /\ IsList(m) /\ Reply = (m \o Filtered) \o Blocked
    BY <1>3 DEF Ends
  <1>5. PICK rest : IsList(rest) /\ Came = g \o rest
    BY <1>4 DEF Stopped
  <1>6. Between(Came, Len(g)) /\ Banned(g) = {}
    BY <1>4 DEF Stopped
  <1>7. SubSeq(Reply, 1, Len(Reply) - 2) = m
    <2>1. IsList(Filtered) /\ IsList(Blocked) /\ Len(Filtered) = 1 /\ Len(Blocked) = 1
      BY Single DEF Filtered, Blocked
    <2>2. IsList(Filtered \o Blocked) /\ Len(Filtered \o Blocked) = 2
      <3>1. PICK x, y : x = Filtered /\ y = Blocked
        OBVIOUS
      <3>2. IsList(x) /\ IsList(y) /\ Len(x) = 1 /\ Len(y) = 1
        BY <2>1, <3>1
      <3>3. IsList(x \o y) /\ Len(x \o y) = 1 + 1
        BY <3>2, PutTogether
      <3> QED BY <3>1, <3>3
    <2>3. Reply = m \o (Filtered \o Blocked)
      <3>1. (m \o Filtered) \o Blocked = m \o (Filtered \o Blocked)
        <4>1. AreThree(m, Filtered, Blocked)
          BY <1>4, <2>1 DEF AreThree
        <4> QED BY <4>1, Assoc
      <3> QED BY <1>4, <3>1
    <2> DEFINE t == Filtered \o Blocked
    <2>4. IsList(t) /\ Len(t) = 2 /\ Reply = m \o t
      BY <2>2, <2>3
    <2> HIDE DEF t
    <2>5. SubSeq(m \o t, 1, Len(m)) = m /\ Len(m \o t) - Len(t) = Len(m)
      BY <1>4, <2>4, Beginning, BeginsWith
    <2> QED BY <2>4, <2>5
  <1>8. IsPrefix(m, Screened(policy, Came))
    <2>1. Between(g \o rest, Len(g))
      BY <1>5, <1>6
    <2>2. Masked(g \o rest) = m \o Masked(rest)
      BY <1>4, <1>5, <2>1, MaskedParts
    <2>3. IsList(Masked(rest))
      BY <1>5, MaskedByCells
    <2>4. Screened(policy, Came) = m \o Masked(rest)
      BY <1>2, <1>5, <2>2 DEF Screened
    <2>5. IsPrefix(m, m \o Masked(rest))
      BY <1>4, <2>3, BeginsWith
    <2> QED BY <2>4, <2>5
  <1>9. Banned(m) = {}
    BY <1>4, <1>6, MaskedKeepsBanned
  <1>10. Reply = m \o Filtered \o Blocked
    BY <1>4
  <1> QED BY <1>1, <1>2, <1>7, <1>8, <1>9, <1>10

\* The worst outcome of a reply that is not blocked can be read off it.
LEMMA WorstShows ==
  ASSUME StreamInv, ~ WasBlocked, policy # "off"
  PROVE  /\ worst = IF Mask \in Range(Reply) THEN "masked"
                    ELSE IF policy = "observe" /\ Secrets(Reply) \cup Banned(Reply) # {} THEN "observe" ELSE "pass"
         /\ Mask \in Range(Reply) => policy = "block"
  <1>1. status # "blocked"
    BY BlockShows
  <1>2. PICK g : Shows(g)
    BY <1>1, OpenReply
  <1>3. /\ IsList(g) /\ Range(g) \subseteq Items /\ Range(Reply) \subseteq Range(g) \cup {Mask}
        /\ Reply = Screened(policy, g) /\ worst = Outcome(policy, g)
    BY <1>2 DEF Shows, Passed
  <1>4. Mask \notin Range(g)
    BY <1>3 DEF Items, Symbols, Mask
  <1>5. CASE policy = "observe"
    <2>1. Reply = g /\ worst = IF Secrets(g) \cup Banned(g) = {} THEN "pass" ELSE "observe"
      BY <1>3, <1>5, OutcomeOf DEF Screened
    <2> QED BY <1>4, <1>5, <2>1
  <1>6. CASE policy = "block"
    <2>1. Reply = Masked(g) /\ worst = IF Secrets(g) = {} THEN "pass" ELSE "masked"
      BY <1>3, <1>6, OutcomeOf DEF Screened
    <2>2. Mask \in Range(Masked(g)) <=> Secrets(g) # {}
      BY <1>3, <1>4, MaskedRange
    <2> QED BY <1>6, <2>1, <2>2
  <1>7. policy \in {"off", "observe", "block"}
    BY DEF StreamInv, StreamTypes, Policies
  <1> QED BY <1>5, <1>6, <1>7

\* From the invariant: the one scan recorded says what the reply shows.
LEMMA ScanFollows == StreamInv => OneScanWithTheWorst
  <1> SUFFICES ASSUME StreamInv PROVE OneScanWithTheWorst
    OBVIOUS
  <1>1. scans = <<>> \/ (scans = <<worst>> /\ policy # "off")
    BY DEF StreamInv, RecordsSoFar
  <1>2. body = "dropped" /\ policy # "off" => scans # <<>>
    BY DEF StreamInv, RecordsSoFar
  <1>3. Len(<<>>) = 0 /\ Len(<<worst>>) = 1 /\ <<worst>>[1] = worst
    BY EmptySeq, Single
  <1>4. Len(scans) <= 1 /\ (scans # <<>> => scans[1] = worst /\ policy # "off")
    <2>1. CASE scans = <<>>
      <3>1. Len(scans) = 0
        BY <1>3, <2>1
      <3> QED BY <2>1, <3>1
    <2>2. CASE scans = <<worst>> /\ policy # "off"
      <3>1. Len(scans) = 1 /\ scans[1] = worst
        BY <1>3, <2>2
      <3> QED BY <2>2, <3>1
    <2> QED BY <1>1, <2>1, <2>2
  <1>5. CASE WasBlocked
    <2>1. worst = "block" /\ policy # "observe"
      BY <1>5, BlockShows, ClosedReply
    <2>2. ASSUME scans # <<>>
          PROVE  scans[1] =
              CASE WasBlocked                                -> "block"
                [] ~ WasBlocked /\ Mask \in Range(Reply)     -> "masked"
                [] policy = "observe" /\ Secrets(Reply) \cup Banned(Reply) # {} -> "observe"
                [] OTHER                                     -> "pass"
      BY <1>4, <1>5, <2>1, <2>2
    <2> QED BY <1>2, <1>4, <2>2 DEF OneScanWithTheWorst
  <1>6. CASE ~ WasBlocked
    <2>1. CASE scans = <<>>
      BY <1>2, <1>4, <2>1 DEF OneScanWithTheWorst
    <2>2. CASE scans # <<>>
      <3>1. policy # "off" /\ scans[1] = worst
        BY <1>4, <2>2
      <3>2. worst = IF Mask \in Range(Reply) THEN "masked"
                 ELSE IF policy = "observe" /\ Secrets(Reply) \cup Banned(Reply) # {} THEN "observe" ELSE "pass"
        BY <1>6, <3>1, WorstShows
      <3>3. scans[1] =
              CASE WasBlocked                                -> "block"
                [] ~ WasBlocked /\ Mask \in Range(Reply)     -> "masked"
                [] policy = "observe" /\ Secrets(Reply) \cup Banned(Reply) # {} -> "observe"
                [] OTHER                                     -> "pass"
        <4>1. CASE Mask \in Range(Reply)
          <5>1. policy # "observe" /\ worst = "masked"
            BY <1>6, <3>1, <3>2, <4>1, WorstShows
          <5> QED BY <1>6, <3>1, <4>1, <5>1
        <4>2. CASE Mask \notin Range(Reply)
          BY <1>6, <3>1, <3>2, <4>2
        <4> QED BY <4>1, <4>2
      <3> QED BY <1>2, <1>4, <3>3 DEF OneScanWithTheWorst
    <2> QED BY <2>1, <2>2
  <1> QED BY <1>5, <1>6

\* From the invariant: the one row written says what the reply shows.
LEMMA RowFollows == StreamInv => RowTellsTheReply
  <1> SUFFICES ASSUME StreamInv PROVE RowTellsTheReply
    OBVIOUS
  <1>1. rows = IF body = "dropped" THEN <<Row>> ELSE <<>>
    BY DEF StreamInv, RecordsSoFar
  <1>2. /\ Len(<<>>) = 0 /\ Len(<<Row>>) = 1 /\ <<Row>>[1] = Row
        /\ Row.status = status /\ Row.counted = usage
    BY EmptySeq, Single DEF Row
  <1>3. Len(rows) = (IF body = "dropped" THEN 1 ELSE 0)
    BY <1>1, <1>2
  <1>4. rows # <<>> => rows[1].status = status /\ rows[1].counted = usage
    BY <1>1, <1>2
  <1>5. WasBlocked <=> status = "blocked"
    BY BlockShows
  <1>6. /\ status \in {"ok", "error", "blocked"}
        /\ (status = "error" => "error" \in Range(Came)) /\ (status = "ok" => "error" \notin Range(Came))
        /\ ("done" \in Range(Came) => usage) /\ Range(held) \subseteq Symbols
    BY DEF StreamInv, StreamTypes, StatusSoFar
  <1>7. CASE status = "blocked"
    <2>1. PICK g, m : Ends(g, m)
      BY <1>7, ClosedReply
    <2>2. "done" \in Range(Reply) => "done" \in Range(Came)
      BY <2>1 DEF Ends, Mask
    <2> QED BY <1>3, <1>4, <1>5, <1>6, <1>7, <2>2 DEF RowTellsTheReply
  <1>8. CASE status # "blocked"
    <2>1. PICK g : Shows(g)
      BY <1>8, OpenReply
    <2>2. /\ Range(Came) = Range(g) \cup Range(held)
          /\ Range(Reply) \subseteq Range(g) \cup {Mask}
          /\ \A x \in Range(g) : x # "s" => x \in Range(Reply)
      BY <2>1 DEF Shows
    <2>3. "error" \notin Symbols /\ "error" # Mask /\ "done" # Mask /\ "error" # "s"
      BY DEF Symbols, Mask
    <2>4. "error" \in Range(Reply) <=> "error" \in Range(Came)
      BY <1>6, <2>2, <2>3
    <2>5. "done" \in Range(Reply) => "done" \in Range(Came)
      BY <2>2, <2>3
    <2> QED BY <1>3, <1>4, <1>5, <1>6, <1>8, <2>4, <2>5 DEF RowTellsTheReply
  <1> QED BY <1>7, <1>8

\* Whatever deltas come, in whatever pieces, a reply that is not blocked is the
\* whole reply screened at once: no match is cut in two or let through, no text
\* is lost, doubled or moved across a mark (OutputGuard::push, flush).
THEOREM RepliesAreScreenedWhole == Spec => []ReplyIsScreenedWhole
  BY StreamInvHolds, WholeFollows, PTL

\* A blocked reply is a screened prefix of what came, without the banned word,
\* closed by a content_filter Done and the Blocked item (GuardedStream::block).
THEOREM BlockedRepliesStop == Spec => []BlockedReplyStops
  BY StreamInvHolds, BlockFollows, PTL

\* However a screened reply ends, one scan is recorded, with the worst outcome
\* any part of it met (OutputGuard::record).
THEOREM RepliesAreScannedOnce == Spec => []OneScanWithTheWorst
  BY StreamInvHolds, ScanFollows, PTL

\* Completed, failed, blocked or abandoned, a dropped reply leaves one row that
\* says how it ended and counts the tokens of every Done (StreamSideEffects).
THEOREM RowsTellTheReply == Spec => []RowTellsTheReply
  BY StreamInvHolds, RowFollows, PTL

-----------------------------------------------------------------------------
(***************************************************************************)
(* VertexAuth never sends a token that has run out: for any number of      *)
(* requests, and any times that satisfy VertexAuthAssumption.              *)
(*                                                                         *)
(* The property is not inductive: a token that is good when it is sent may *)
(* come from the cache, whose content nobody checks, or from a fetch that  *)
(* was over some time ago.  AuthInv says how good either still has to be.  *)
(***************************************************************************)

Phases == {"idle", "fetch", "issued", "failed", "send", "sent"}

AuthTypes ==
  /\ cached \in [left : Nat, keep : Nat]
  /\ phase \in [Requests -> Phases]
  /\ token \in [Requests -> Nat]
  /\ late \in [Requests -> Nat]

\* What is kept was installed at most Delay ticks after it was issued, and both
\* its times run since.
KeptIsGood == cached.keep > 0 => cached.keep + MinLeft <= cached.left + Ttl + Delay

\* A token in a request's hands is good for longer than its task may still wait.
InHandIsGood ==
  \A r \in Requests :
    /\ Due(r) => late[r] <= Delay
    /\ phase[r] = "issued" => token[r] + late[r] >= MinLeft
    /\ phase[r] = "send" => token[r] + late[r] > Delay

AuthInv == AuthTypes /\ KeptIsGood /\ InHandIsGood

\* It holds when the process starts.
LEMMA AuthInvInit == AuthInit => AuthInv
  BY VertexAuthAssumption DEF AuthInit, AuthInv, AuthTypes, KeptIsGood, InHandIsGood, Due,
                             NoToken, Phases

\* A step of one request leaves what the others hold alone.
LEMMA GoesInHand ==
  ASSUME AuthInv, NEW r \in Requests, NEW to \in Phases, Goes(r, to), NEW left \in Nat,
         \/ token' = token /\ left = token[r]
         \/ token' = [token EXCEPT ![r] = left],
         to = "issued" => left >= MinLeft,
         to = "send" => left > Delay,
         cached' \in [left : Nat, keep : Nat], KeptIsGood'
  PROVE  AuthInv'
  <1> USE VertexAuthAssumption DEF AuthInv, AuthTypes, Goes
  <1>1. AuthTypes'
    OBVIOUS
  <1>2. ASSUME NEW q \in Requests PROVE
          /\ Due(q)' => late'[q] <= Delay
          /\ phase'[q] = "issued" => token'[q] + late'[q] >= MinLeft
          /\ phase'[q] = "send" => token'[q] + late'[q] > Delay
    <2>1. CASE q = r
      BY <2>1 DEF Due
    <2>2. CASE q # r
      BY <2>2 DEF Due, InHandIsGood
    <2> QED BY <2>1, <2>2
  <1> QED BY <1>1, <1>2 DEF InHandIsGood

\* Time takes as much from what is kept and in hand as from what may still be waited for.
LEMMA AuthInvTick == AuthInv /\ Tick => AuthInv'
  <1> SUFFICES ASSUME AuthInv, Tick PROVE AuthInv'
    OBVIOUS
  <1> USE VertexAuthAssumption DEF AuthInv, AuthTypes, Tick, Less
  <1>1. AuthTypes'
    OBVIOUS
  <1>2. KeptIsGood'
    BY DEF KeptIsGood
  <1>3. InHandIsGood'
    <2> SUFFICES ASSUME NEW r \in Requests PROVE
          /\ Due(r)' => late'[r] <= Delay
          /\ phase'[r] = "issued" => token'[r] + late'[r] >= MinLeft
          /\ phase'[r] = "send" => token'[r] + late'[r] > Delay
      BY DEF InHandIsGood
    <2>1. CASE Due(r)
      <3>1. late[r] < Delay /\ late'[r] = late[r] + 1 /\ phase'[r] = phase[r]
        BY <2>1 DEF Due
      <3>2. token[r] > 0 /\ token'[r] = token[r] - 1
        BY <2>1, <3>1 DEF Due, InHandIsGood
      <3> QED BY <2>1, <3>1, <3>2 DEF InHandIsGood
    <2>2. CASE ~ Due(r)
      BY <2>2 DEF Due
    <2> QED BY <2>1, <2>2
  <1> QED BY <1>1, <1>2, <1>3

\* No call is made with a token that has run out (VertexAuth::token): what the
\* margin and the time a token is kept for are there for.
THEOREM TokensAreGood == AuthSpec => []NoExpiredToken
  <1>1. AuthInit => AuthInv
    BY AuthInvInit
  <1>2. AuthInv /\ [AuthNext]_authVars => AuthInv'
    <2> SUFFICES ASSUME AuthInv, [AuthNext]_authVars PROVE AuthInv'
      OBVIOUS
    <2> USE VertexAuthAssumption
    <2>1. ASSUME NEW r \in Requests, TokenCached(r) PROVE AuthInv'
      <3>1. cached.left > Delay
        BY <2>1 DEF TokenCached, Fresh, AuthInv, AuthTypes, KeptIsGood
      <3> QED BY <2>1, <3>1, GoesInHand DEF TokenCached, AuthInv, AuthTypes, KeptIsGood, Phases
    <2>2. ASSUME NEW r \in Requests, TokenStale(r) PROVE AuthInv'
      BY <2>2, GoesInHand DEF TokenStale, AuthInv, AuthTypes, KeptIsGood, Phases
    <2>3. ASSUME NEW r \in Requests, TokenIssued(r) PROVE AuthInv'
      <3>1. PICK left \in MinLeft..MaxLeft : token' = [token EXCEPT ![r] = left]
        BY <2>3 DEF TokenIssued
      <3>2. left \in Nat /\ left >= MinLeft
        OBVIOUS
      <3>3. Goes(r, "issued") /\ UNCHANGED cached
        BY <2>3 DEF TokenIssued
      <3>4. cached' \in [left : Nat, keep : Nat] /\ KeptIsGood'
        BY <3>3 DEF AuthInv, AuthTypes, KeptIsGood
      <3> QED BY <3>1, <3>2, <3>3, <3>4, GoesInHand DEF Phases
    <2>4. ASSUME NEW r \in Requests, TokenRefused(r) PROVE AuthInv'
      BY <2>4, GoesInHand DEF TokenRefused, AuthInv, AuthTypes, KeptIsGood, Phases
    <2>5. ASSUME NEW r \in Requests, TokenInstalled(r) PROVE AuthInv'
      <3>1. token[r] \in Nat /\ token[r] + Delay >= MinLeft /\ token[r] > Delay
        BY <2>5 DEF TokenInstalled, AuthInv, AuthTypes, InHandIsGood, Due
      <3>2. KeptIsGood' /\ cached' \in [left : Nat, keep : Nat]
        BY <2>5, <3>1 DEF TokenInstalled, KeptIsGood
      <3> QED BY <2>5, <3>1, <3>2, GoesInHand DEF TokenInstalled, Phases
    <2>6. ASSUME NEW r \in Requests, TokenUsed(r) PROVE AuthInv'
      BY <2>6, GoesInHand DEF TokenUsed, AuthInv, AuthTypes, KeptIsGood, Phases
    <2>7. ASSUME NEW r \in Requests, TokenLeft(r) PROVE AuthInv'
      BY <2>7, GoesInHand DEF TokenLeft, AuthInv, AuthTypes, KeptIsGood, Phases
    <2>8. CASE UNCHANGED authVars
      BY <2>8 DEF authVars, AuthInv, AuthTypes, KeptIsGood, InHandIsGood, Due
    <2> QED BY <2>1, <2>2, <2>3, <2>4, <2>5, <2>6, <2>7, <2>8, AuthInvTick
            DEF AuthNext, GetsToken
  <1>3. AuthInv => NoExpiredToken
    BY VertexAuthAssumption DEF AuthInv, AuthTypes, InHandIsGood, NoExpiredToken, Due
  <1> QED BY <1>1, <1>2, <1>3, PTL DEF AuthSpec
=============================================================================
