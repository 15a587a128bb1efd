------------------------- MODULE BuildkitdToml_proofs -------------------------
(***************************************************************************)
(* Proof that the generated buildkitd.toml is right for exactly the texts  *)
(* TomlExact says, however long they are.                                  *)
(*                                                                         *)
(* A line's table is that of the last header before it, so what is put in  *)
(* front of a text changes the table of its top-level lines, and what is   *)
(* put behind it changes none.                                             *)
(***************************************************************************)
EXTENDS BuilderRollout_proofs, WellFoundedInduction

\* A set of positions that is not empty has a last one.
LEMMA LastOne ==
  ASSUME NEW n \in Nat, NEW I \in SUBSET (1 .. n), I # {}
  PROVE  Max(I) \in I /\ \A y \in I : Max(I) >= y
<1> DEFINE Above(y) == {x \in I : x > y}
           F == {Above(y) : y \in I}
<1>1. IsFiniteSet(I)
  <2>1. 1 \in Int /\ n \in Int
    OBVIOUS
  <2>2. IsFiniteSet(1 .. n)
    BY <2>1, FS_Interval
  <2> QED BY <2>2, FS_Subset
<1>2. F \subseteq FiniteSubsetsOf(I) /\ F # {}
  <2>1. FiniteSubsetsOf(I) = SUBSET I
    BY <1>1, FS_FiniteSubsetsOfFinite
  <2>2. F \subseteq SUBSET I /\ F # {}
    OBVIOUS
  <2> QED BY <2>1, <2>2
<1>3. PICK U \in F : \A V \in F : <<V, U>> \notin StrictSubsetOrdering(I)
  <2> HIDE DEF F
  <2> QED BY <1>2, WFMin, FS_StrictSubsetOrderingWellFounded
<1>4. PICK y \in I : U = Above(y)
  BY <1>3
<1>5. ASSUME NEW z \in Above(y) PROVE FALSE
  <2>1. Above(z) \subseteq Above(y) /\ z \notin Above(z)
    <3>1. I \subseteq Int /\ z \in I /\ z > y
      OBVIOUS
    <3>2. \A x \in I : x > z => x > y
      BY <3>1
    <3>3. ~(z > z)
      BY <3>1
    <3> QED BY <3>2, <3>3
  <2>2. <<Above(z), Above(y)>> \in StrictSubsetOrdering(I)
    BY <1>5, <2>1 DEF StrictSubsetOrdering
  <2> QED BY <1>3, <1>4, <2>2
<1>6. \A x \in I : y >= x
  BY <1>5
<1> QED BY <1>4, <1>6 DEF Max

-----------------------------------------------------------------------------
(* The table a line belongs to.                                            *)

\* The last header before a line, or none.
LEMMA TableIs ==
  ASSUME NEW toml \in Seq(STRING), NEW i \in 1 .. Len(toml)
  PROVE  \/ /\ TableAt(toml, i) = "top"
            /\ \A k \in 1 .. i : toml[k] \notin Headers
         \/ \E j \in 1 .. i :
              /\ TableAt(toml, i) = toml[j] /\ toml[j] \in Headers
              /\ \A k \in (j + 1) .. i : toml[k] \notin Headers
<1> DEFINE I == {k \in 1 .. i : toml[k] \in Headers}
           j == IF I # {} THEN Max(I) ELSE 0
<1>1. TableAt(toml, i) = IF j = 0 THEN "top" ELSE toml[j]
  BY DEF TableAt, SelectLastInSubSeq
<1>2. CASE I = {}
  BY <1>1, <1>2
<1>3. CASE I # {}
  <2>1. i \in Nat
    OBVIOUS
  <2>2. Max(I) \in I /\ \A y \in I : Max(I) >= y
    BY <1>3, <2>1, LastOne
  <2>3. Max(I) \in 1 .. i /\ toml[Max(I)] \in Headers /\ TableAt(toml, i) = toml[Max(I)]
    BY <1>1, <1>3, <2>2
  <2>4. \A k \in (Max(I) + 1) .. i : toml[k] \notin Headers
    BY <2>2, <2>3
  <2> QED BY <2>3, <2>4
<1> QED BY <1>2, <1>3

LEMMA TableOfHeader ==
  ASSUME NEW toml \in Seq(STRING), NEW i \in 1 .. Len(toml), NEW j \in 1 .. i,
         toml[j] \in Headers, \A k \in (j + 1) .. i : toml[k] \notin Headers
  PROVE  TableAt(toml, i) = toml[j]
BY TableIs

LEMMA TopTable ==
  ASSUME NEW toml \in Seq(STRING), NEW i \in 1 .. Len(toml),
         \A k \in 1 .. i : toml[k] \notin Headers
  PROVE  TableAt(toml, i) = "top"
BY TableIs

\* A table other than the top one has its header among the lines.
LEMMA TableHasHeader ==
  ASSUME NEW toml \in Seq(STRING), NEW i \in 1 .. Len(toml), TableAt(toml, i) # "top"
  PROVE  TableAt(toml, i) \in Headers /\ Contains(toml, TableAt(toml, i))
BY TableIs DEF Contains

\* What is behind a line does not matter to it.
LEMMA TableInFront ==
  ASSUME NEW s \in Seq(STRING), NEW t \in Seq(STRING), NEW i \in 1 .. Len(s)
  PROVE  TableAt(s \o t, i) = TableAt(s, i)
<1>1. s \o t \in Seq(STRING) /\ i \in 1 .. Len(s \o t)
  BY ConcatProperties, LenProperties
<1>2. \A k \in 1 .. i : (s \o t)[k] = s[k]
  BY ConcatProperties, LenProperties
<1> DEFINE u == s \o t
<1> HIDE DEF u
<1>3. u \in Seq(STRING) /\ i \in 1 .. Len(u) /\ \A k \in 1 .. i : u[k] = s[k]
  BY <1>1, <1>2 DEF u
<1>4. TableAt(u, i) = TableAt(s, i)
  <2>1. CASE \A k \in 1 .. i : s[k] \notin Headers
    BY <1>3, <2>1, TopTable
  <2>2. CASE ~\A k \in 1 .. i : s[k] \notin Headers
    <3>1. PICK j \in 1 .. i : /\ TableAt(s, i) = s[j] /\ s[j] \in Headers
                              /\ \A k \in (j + 1) .. i : s[k] \notin Headers
      BY <2>2, TableIs
    <3>2. u[j] = s[j] /\ \A k \in (j + 1) .. i : u[k] \notin Headers
      BY <1>3, <3>1
    <3> QED BY <1>3, <3>1, <3>2, TableOfHeader
  <2> QED BY <2>1, <2>2
<1> QED BY <1>4 DEF u

\* The lines of two texts one behind the other.
LEMMA Lines ==
  ASSUME NEW s \in Seq(STRING), NEW t \in Seq(STRING)
  PROVE  /\ s \o t \in Seq(STRING) /\ Len(s) \in Nat /\ Len(s \o t) = Len(s) + Len(t)
         /\ \A k \in 1 .. Len(s) : (s \o t)[k] = s[k]
         /\ \A k \in 1 .. Len(t) : (s \o t)[Len(s) + k] = t[k]
<1>1. Len(s) \in Nat /\ s \o t \in Seq(STRING) /\ Len(s \o t) = Len(s) + Len(t)
  BY ConcatProperties, LenProperties
<1>2. \A k \in 1 .. Len(s) : (s \o t)[k] = s[k]
  BY ConcatProperties, LenProperties
<1>3. ASSUME NEW k \in 1 .. Len(t) PROVE (s \o t)[Len(s) + k] = t[k]
  <2>1. /\ Len(s) + k \in 1 .. Len(s) + Len(t) /\ ~(Len(s) + k <= Len(s))
        /\ Len(s) + k - Len(s) = k
    BY <1>1, LenProperties
  <2>2. (s \o t)[Len(s) + k] = t[Len(s) + k - Len(s)]
    BY <2>1, ConcatProperties
  <2> QED BY <2>1, <2>2
<1> QED BY <1>1, <1>2, <1>3

\* A top-level line comes into the last table in front of it.
LEMMA TableBehind ==
  ASSUME NEW s \in Seq(STRING), NEW t \in Seq(STRING), NEW i \in 1 .. Len(t), Len(s) > 0
  PROVE  TableAt(s \o t, Len(s) + i) =
           IF TableAt(t, i) = "top" THEN TableAt(s, Len(s)) ELSE TableAt(t, i)
<1> DEFINE n == Len(s)
           u == s \o t
<1>1. n \in Nat /\ n > 0 /\ u \in Seq(STRING) /\ n + i \in 1 .. Len(u) /\ n \in 1 .. n
  BY ConcatProperties, LenProperties
<1>2. /\ \A k \in 1 .. n : u[k] = s[k]
      /\ \A k \in 1 .. Len(t) : u[n + k] = t[k]
  BY Lines
<1> HIDE DEF u, n
<1>3. CASE TableAt(t, i) # "top"
  <2>1. PICK j \in 1 .. i : /\ TableAt(t, i) = t[j] /\ t[j] \in Headers
                            /\ \A k \in (j + 1) .. i : t[k] \notin Headers
    BY <1>3, TableIs
  <2>2. n + j \in 1 .. n + i /\ u[n + j] = t[j]
    BY <1>1, <1>2, LenProperties
  <2>3. ASSUME NEW k \in (n + j + 1) .. (n + i) PROVE u[k] \notin Headers
    <3>1. k - n \in (j + 1) .. i /\ k - n \in 1 .. Len(t) /\ n + (k - n) = k
      BY <1>1, LenProperties
    <3> QED BY <1>2, <2>1, <3>1
  <2>4. TableAt(u, n + i) = u[n + j]
    BY <1>1, <2>1, <2>2, <2>3, TableOfHeader
  <2> QED BY <1>3, <2>1, <2>2, <2>4 DEF u, n
<1>4. CASE TableAt(t, i) = "top"
  <2>1. \A k \in 1 .. i : t[k] \notin Headers
    <3>1. "top" \notin Headers
      BY DEF Headers
    <3> QED BY <1>4, <3>1, TableIs
  <2>2. \A k \in (n + 1) .. (n + i) : u[k] \notin Headers
    <3>1. ASSUME NEW k \in (n + 1) .. (n + i)
          PROVE  k - n \in 1 .. i /\ k - n \in 1 .. Len(t) /\ n + (k - n) = k
      BY <1>1, LenProperties
    <3> QED BY <1>2, <2>1, <3>1
  <2>3. TableAt(u, n + i) = TableAt(s, n)
    <3>1. CASE \A k \in 1 .. n : s[k] \notin Headers
      <4>1. \A k \in 1 .. n + i : u[k] \notin Headers
        BY <1>1, <1>2, <2>2, <3>1
      <4>2. TableAt(u, n + i) = "top"
        BY <1>1, <4>1, TopTable
      <4>3. TableAt(s, n) = "top"
        BY <1>1, <3>1, TopTable DEF n
      <4> QED BY <4>2, <4>3
    <3>2. CASE ~\A k \in 1 .. n : s[k] \notin Headers
      <4>1. PICK j \in 1 .. n : /\ TableAt(s, n) = s[j] /\ s[j] \in Headers
                                /\ \A k \in (j + 1) .. n : s[k] \notin Headers
        BY <1>1, <3>2, TableIs DEF n
      <4>2. \A k \in (j + 1) .. (n + i) : u[k] \notin Headers
        <5>1. ASSUME NEW k \in (j + 1) .. (n + i)
              PROVE  k \in (n + 1) .. (n + i) \/ (k \in (j + 1) .. n /\ k \in 1 .. n)
          BY <1>1, LenProperties
        <5> QED BY <1>2, <2>2, <4>1, <5>1
      <4>3. j \in 1 .. n + i /\ u[j] = s[j]
        BY <1>1, <1>2
      <4> QED BY <1>1, <4>1, <4>2, <4>3, TableOfHeader
    <3> QED BY <3>1, <3>2
  <2> QED BY <1>4, <2>3 DEF u, n
<1> QED BY <1>3, <1>4

-----------------------------------------------------------------------------
(* What the listener in front changes.                                     *)

Listener == <<"[grpc]", "address tcp 1234">>

\* A line is its own key, or sets an address.
LEMMA Keys ==
  ASSUME NEW line
  PROVE  Key(line) = line \/ Key(line) = "address"
BY DEF Key

LEMMA ListenerLines ==
  /\ Listener \in Seq(STRING) /\ Len(Listener) = 2
  /\ Listener[1] = "[grpc]" /\ Listener[2] = "address tcp 1234"
  /\ TableAt(Listener, 1) = "[grpc]" /\ TableAt(Listener, 2) = "[grpc]"
<1>1. /\ Listener \in Seq(STRING) /\ Len(Listener) = 2
      /\ Listener[1] = "[grpc]" /\ Listener[2] = "address tcp 1234"
  BY LiteralsAssumption, ShortTexts DEF Listener
<1>2. Len(Listener) = 2
  BY <1>1
<1>3. 1 \in 1 .. Len(Listener) /\ 2 \in 1 .. Len(Listener) /\ 1 \in 1 .. 1 /\ 1 \in 1 .. 2
  BY <1>2
<1>4. /\ \A k \in (1 + 1) .. 1 : Listener[k] \notin Headers
      /\ \A k \in (1 + 1) .. 2 : k = 2
  OBVIOUS
<1>5. Listener[1] \in Headers /\ Listener[2] \notin Headers
  BY <1>1 DEF Headers
<1>6. TableAt(Listener, 1) = Listener[1]
  BY <1>1, <1>3, <1>4, <1>5, TableOfHeader
<1>7. TableAt(Listener, 2) = Listener[1]
  BY <1>1, <1>3, <1>4, <1>5, TableOfHeader
<1> QED BY <1>1, <1>6, <1>7

\* The lines of a text with the listener in front, and their tables.
LEMMA InFront ==
  ASSUME NEW text \in Seq(STRING), NEW u, u = Listener \o text
  PROVE  /\ u \in Seq(STRING) /\ DOMAIN u = 1 .. Len(u) /\ DOMAIN text = 1 .. Len(text)
         /\ Len(text) \in Nat /\ Len(u) = Len(text) + 2
         /\ u[1] = "[grpc]" /\ u[2] = "address tcp 1234"
         /\ TableAt(u, 1) = "[grpc]" /\ TableAt(u, 2) = "[grpc]"
         /\ \A i \in 1 .. Len(text) :
              /\ u[i + 2] = text[i]
              /\ TableAt(u, i + 2) =
                   IF TableAt(text, i) = "top" THEN "[grpc]" ELSE TableAt(text, i)
<1>1. Listener \in Seq(STRING) /\ Len(Listener) = 2
  BY ListenerLines
<1>2. /\ u \in Seq(STRING) /\ Len(u) = Len(Listener) + Len(text)
      /\ \A k \in 1 .. Len(Listener) + Len(text) :
           u[k] = IF k <= Len(Listener) THEN Listener[k] ELSE text[k - Len(Listener)]
  BY <1>1, ConcatProperties
<1>3. DOMAIN u = 1 .. Len(u) /\ DOMAIN text = 1 .. Len(text) /\ Len(text) \in Nat
  BY <1>2, LenProperties
<1>4. Len(u) = Len(text) + 2
  BY <1>1, <1>2, <1>3
<1>5. /\ 1 \in 1 .. 2 + Len(text) /\ 2 \in 1 .. 2 + Len(text)
      /\ \A i \in 1 .. Len(text) :
           i + 2 \in 1 .. 2 + Len(text) /\ ~(i + 2 <= 2) /\ i + 2 - 2 = i /\ 2 + i = i + 2
  BY <1>3
<1>6. u[1] = Listener[1] /\ u[2] = Listener[2] /\ \A i \in 1 .. Len(text) : u[i + 2] = text[i]
  BY <1>1, <1>2, <1>5
<1>7. TableAt(u, 1) = TableAt(Listener, 1) /\ TableAt(u, 2) = TableAt(Listener, 2)
  <2>1. 1 \in 1 .. Len(Listener) /\ 2 \in 1 .. Len(Listener)
    BY <1>1
  <2> QED BY <1>1, <2>1, TableInFront
<1>8. ASSUME NEW i \in 1 .. Len(text)
      PROVE  TableAt(u, i + 2) = IF TableAt(text, i) = "top" THEN "[grpc]" ELSE TableAt(text, i)
  <2>1. Len(Listener) > 0
    BY <1>1
  <2>2. TableAt(u, Len(Listener) + i) =
          IF TableAt(text, i) = "top" THEN TableAt(Listener, Len(Listener)) ELSE TableAt(text, i)
    BY <1>1, <2>1, TableBehind
  <2>3. Len(Listener) + i = i + 2
    BY <1>1, <1>5
  <2>4. TableAt(Listener, Len(Listener)) = "[grpc]"
    BY ListenerLines
  <2> QED BY <2>2, <2>3, <2>4
<1> QED BY <1>2, <1>3, <1>4, <1>6, <1>7, <1>8, ListenerLines

\* A position is one of the listener's, or two behind one of the text's.
LEMMA Shifted ==
  ASSUME NEW n \in Nat, NEW k \in 1 .. n + 2
  PROVE  k = 1 \/ k = 2 \/ \E i \in 1 .. n : k = i + 2
<1>1. k > 2 => k - 2 \in 1 .. n /\ k = (k - 2) + 2
  OBVIOUS
<1> QED BY <1>1

LEMMA FrontSays ==
  ASSUME NEW text \in Seq(STRING), NEW u, u = Listener \o text
  PROVE  /\ Says(u, "[grpc]", "address tcp 1234")
         /\ UsesTls(u) <=> UsesTls(text)
         /\ HasTls(u) <=> HasTls(text)
         /\ \A i \in 1 .. Len(u) : TableAt(u, i) # "top"
<1> DEFINE n == Len(text)
<1>1. /\ n \in Nat /\ Len(u) = n + 2 /\ DOMAIN u = 1 .. n + 2 /\ DOMAIN text = 1 .. n
      /\ u[1] = "[grpc]" /\ u[2] = "address tcp 1234"
      /\ TableAt(u, 1) = "[grpc]" /\ TableAt(u, 2) = "[grpc]"
      /\ \A i \in 1 .. n :
           /\ u[i + 2] = text[i]
           /\ TableAt(u, i + 2) =
                IF TableAt(text, i) = "top" THEN "[grpc]" ELSE TableAt(text, i)
  BY InFront
<1>n. n \in Nat
  BY <1>1
<1>2. \A i \in 1 .. n : i + 2 \in 1 .. n + 2
  BY <1>n
<1>3. \A k \in 1 .. n + 2 : k = 1 \/ k = 2 \/ \E i \in 1 .. n : k = i + 2
  BY <1>n, Shifted
<1>4. 2 \in 1 .. n + 2
  BY <1>n
<1> HIDE DEF n
<1>5. Says(u, "[grpc]", "address tcp 1234")
  BY <1>1, <1>4 DEF Says
<1>6. UsesTls(u) <=> UsesTls(text)
  <2>1. ASSUME NEW k \in 1 .. n + 2, u[k] = "mounted certificates",
               TableAt(u, k) = "[grpc.tls]"
        PROVE  UsesTls(text)
    <3>1. PICK i \in 1 .. n : k = i + 2
      BY <1>1, <1>3, <2>1
    <3>2. text[i] = "mounted certificates" /\ TableAt(text, i) = "[grpc.tls]"
      BY <1>1, <2>1, <3>1
    <3> QED BY <1>1, <3>2 DEF UsesTls, Says
  <2>2. ASSUME NEW i \in 1 .. n, text[i] = "mounted certificates",
               TableAt(text, i) = "[grpc.tls]"
        PROVE  UsesTls(u)
    <3>1. i + 2 \in DOMAIN u
      BY <1>1, <1>2
    <3>2. u[i + 2] = "mounted certificates" /\ TableAt(u, i + 2) = "[grpc.tls]"
      BY <1>1, <2>2
    <3> QED BY <3>1, <3>2 DEF UsesTls, Says
  <2>3. /\ UsesTls(u) <=> \E k \in 1 .. n + 2 : u[k] = "mounted certificates"
                                              /\ TableAt(u, k) = "[grpc.tls]"
        /\ UsesTls(text) <=> \E i \in 1 .. n : text[i] = "mounted certificates"
                                              /\ TableAt(text, i) = "[grpc.tls]"
    BY <1>1 DEF UsesTls, Says
  <2> QED BY <2>1, <2>2, <2>3
<1>7. HasTls(u) <=> HasTls(text)
  <2>1. ASSUME NEW k \in 1 .. n + 2, u[k] \in TlsLines
        PROVE  \E i \in 1 .. n : text[i] \in TlsLines
    <3>1. k # 1 /\ k # 2
      BY <1>1, <2>1 DEF TlsLines
    <3>2. PICK i \in 1 .. n : k = i + 2
      BY <1>3, <3>1
    <3> QED BY <1>1, <2>1, <3>2
  <2>2. ASSUME NEW i \in 1 .. n, text[i] \in TlsLines
        PROVE  \E k \in 1 .. n + 2 : u[k] \in TlsLines
    BY <1>1, <1>2, <2>2
  <2>3. /\ HasTls(u) <=> \E k \in 1 .. n + 2 : u[k] \in TlsLines
        /\ HasTls(text) <=> \E i \in 1 .. n : text[i] \in TlsLines
    BY <1>1 DEF HasTls, ToSet
  <2> QED BY <2>1, <2>2, <2>3
<1>8. \A i \in 1 .. Len(u) : TableAt(u, i) # "top"
  <2>1. ASSUME NEW k \in 1 .. n + 2 PROVE TableAt(u, k) # "top"
    <3>1. CASE k = 1 \/ k = 2
      BY <1>1, <3>1
    <3>2. CASE ~(k = 1 \/ k = 2)
      <4>1. PICK i \in 1 .. n : k = i + 2
        BY <1>3, <3>2
      <4> QED BY <1>1, <4>1
    <3> QED BY <3>1, <3>2
  <2> QED BY <1>1, <2>1
<1> QED BY <1>5, <1>6, <1>7, <1>8

\* With the listener in front, a text without tcp:// parses if it did, has no
\* [grpc] and no top-level address.
LEMMA FrontParses ==
  ASSUME NEW text \in Seq(STRING), NEW u, u = Listener \o text
  PROVE  WellFormed(u) <=>
           /\ WellFormed(text) /\ ~Contains(text, "[grpc]")
           /\ \A i \in DOMAIN text : Key(text[i]) = "address" => TableAt(text, i) # "top"
<1> DEFINE n == Len(text)
           f(table) == IF table = "top" THEN "[grpc]" ELSE table
<1>1. /\ n \in Nat /\ Len(u) = n + 2 /\ DOMAIN u = 1 .. n + 2 /\ DOMAIN text = 1 .. n
      /\ u[1] = "[grpc]" /\ u[2] = "address tcp 1234"
      /\ TableAt(u, 1) = "[grpc]" /\ TableAt(u, 2) = "[grpc]"
      /\ \A i \in 1 .. n : u[i + 2] = text[i] /\ TableAt(u, i + 2) = f(TableAt(text, i))
  BY InFront
<1>n. n \in Nat
  BY <1>1
<1>2. /\ \A i \in 1 .. n : i + 2 \in 1 .. n + 2 /\ i + 2 # 1 /\ i + 2 # 2
      /\ \A i, j \in 1 .. n : i # j => i + 2 # j + 2
      /\ 1 \in 1 .. n + 2 /\ 2 \in 1 .. n + 2
  BY <1>n
<1>3. \A k \in 1 .. n + 2 : k = 1 \/ k = 2 \/ \E i \in 1 .. n : k = i + 2
  BY <1>n, Shifted
<1>5. /\ "[grpc]" \in Headers /\ "address tcp 1234" \notin Headers
      /\ Key("[grpc]") = "[grpc]" /\ Key("address tcp 1234") = "address"
      /\ "[grpc]" \notin Comments /\ "address tcp 1234" \notin Comments /\ "address" # "[grpc]"
  BY DEF Headers, Key, Comments
<1>6. Contains(text, "[grpc]") <=> \E i \in 1 .. n : text[i] = "[grpc]"
  BY DEF Contains
<1>7. \A i \in 1 .. n : TableAt(text, i) = "[grpc]" => \E j \in 1 .. n : text[j] = "[grpc]"
  <2>1. "[grpc]" # "top"
    OBVIOUS
  <2> QED BY <1>6, <2>1, TableHasHeader
<1>8. \A line : Key(line) = "[grpc]" => line = "[grpc]"
  BY Keys, <1>5
<1> HIDE DEF n
<1>9. ASSUME WellFormed(u)
      PROVE  /\ WellFormed(text) /\ ~Contains(text, "[grpc]")
             /\ \A i \in 1 .. n : Key(text[i]) = "address" => TableAt(text, i) # "top"
  <2>1. ASSUME NEW i \in 1 .. n, NEW j \in 1 .. n, i # j, text[i] \notin Comments,
               Key(text[i]) = Key(text[j])
        PROVE  text[i] \notin Headers /\ TableAt(text, i) # TableAt(text, j)
    <3>1. /\ i + 2 \in DOMAIN u /\ j + 2 \in DOMAIN u /\ i + 2 # j + 2
          /\ u[i + 2] = text[i] /\ u[j + 2] = text[j]
      BY <1>1, <1>2, <2>1
    <3>2. u[i + 2] \notin Headers /\ TableAt(u, i + 2) # TableAt(u, j + 2)
      BY <1>9, <2>1, <3>1 DEF WellFormed
    <3> QED BY <1>1, <3>1, <3>2
  <2>2. WellFormed(text)
    BY <1>1, <2>1 DEF WellFormed
  <2>3. ~Contains(text, "[grpc]")
    <3> SUFFICES ASSUME NEW i \in 1 .. n, text[i] = "[grpc]" PROVE FALSE
      BY <1>6
    <3>1. u[1] \notin Headers
      BY <1>1, <1>2, <1>5, <1>9 DEF WellFormed
    <3> QED BY <1>1, <1>5, <3>1
  <2>4. ASSUME NEW i \in 1 .. n, Key(text[i]) = "address" PROVE TableAt(text, i) # "top"
    <3>1. /\ 2 \in DOMAIN u /\ i + 2 \in DOMAIN u /\ 2 # i + 2
          /\ u[2] \notin Comments /\ Key(u[2]) = Key(u[i + 2])
      BY <1>1, <1>2, <1>5, <2>4
    <3>2. TableAt(u, 2) # TableAt(u, i + 2)
      BY <1>9, <3>1 DEF WellFormed
    <3> QED BY <1>1, <3>2
  <2> QED BY <2>2, <2>3, <2>4
<1>10. ASSUME WellFormed(text), ~Contains(text, "[grpc]"),
              \A i \in 1 .. n : Key(text[i]) = "address" => TableAt(text, i) # "top"
       PROVE  WellFormed(u)
  <2>1. \A i \in 1 .. n : text[i] # "[grpc]" /\ TableAt(text, i) # "[grpc]"
    BY <1>6, <1>7, <1>10
  <2>2. ASSUME NEW i \in 1 .. n, NEW j \in 1 .. n, i # j, text[i] \notin Comments,
               Key(text[i]) = Key(text[j])
        PROVE  text[i] \notin Headers /\ f(TableAt(text, i)) # f(TableAt(text, j))
    <3>1. text[i] \notin Headers /\ TableAt(text, i) # TableAt(text, j)
      BY <1>1, <1>10, <2>2 DEF WellFormed
    <3> QED BY <2>1, <3>1
  <2>3. \A i \in 1 .. n : Key(text[i]) # "[grpc]"
    BY <1>8, <2>1
  <2>4. ASSUME NEW i \in 1 .. n, Key(text[i]) = "address"
        PROVE  text[i] \notin Headers /\ f(TableAt(text, i)) # "[grpc]"
    <3>1. text[i] \notin Headers
      BY <2>4 DEF Key, Headers
    <3> QED BY <1>10, <2>1, <2>4, <3>1
  <2>5. ASSUME NEW k \in 1 .. n + 2, NEW l \in 1 .. n + 2, k # l, u[k] \notin Comments,
               Key(u[k]) = Key(u[l])
        PROVE  u[k] \notin Headers /\ TableAt(u, k) # TableAt(u, l)
    <3>1. CASE k = 1
      <4>1. CASE l = 2
        BY <1>1, <1>5, <2>5, <3>1, <4>1
      <4>2. CASE l # 2
        <5>1. PICK j \in 1 .. n : l = j + 2
          BY <1>3, <2>5, <3>1, <4>2
        <5> QED BY <1>1, <1>5, <2>3, <2>5, <3>1, <5>1
      <4> QED BY <4>1, <4>2
    <3>2. CASE k = 2
      <4>1. CASE l = 1
        BY <1>1, <1>5, <2>5, <3>2, <4>1
      <4>2. CASE l # 1
        <5>1. PICK j \in 1 .. n : l = j + 2
          BY <1>3, <2>5, <3>2, <4>2
        <5> QED BY <1>1, <1>5, <2>4, <2>5, <3>2, <5>1
      <4> QED BY <4>1, <4>2
    <3>3. CASE k # 1 /\ k # 2
      <4>1. PICK i \in 1 .. n : k = i + 2
        BY <1>3, <3>3
      <4>2. CASE l = 1
        BY <1>1, <1>5, <2>3, <2>5, <4>1, <4>2
      <4>3. CASE l = 2
        BY <1>1, <1>5, <2>4, <2>5, <4>1, <4>3
      <4>4. CASE l # 1 /\ l # 2
        <5>1. PICK j \in 1 .. n : l = j + 2
          BY <1>3, <4>4
        <5>2. i # j /\ text[i] \notin Comments /\ Key(text[i]) = Key(text[j])
          BY <1>1, <2>5, <4>1, <5>1
        <5>3. text[i] \notin Headers /\ f(TableAt(text, i)) # f(TableAt(text, j))
          BY <2>2, <5>2
        <5> QED BY <1>1, <4>1, <5>1, <5>3
      <4> QED BY <4>2, <4>3, <4>4
    <3> QED BY <3>1, <3>2, <3>3
  <2>6. DOMAIN u = 1 .. n + 2
    BY <1>1
  <2> QED BY <2>5, <2>6 DEF WellFormed
<1> QED BY <1>1, <1>9, <1>10

-----------------------------------------------------------------------------
(* What the TLS table behind changes.                                      *)

LEMMA TlsTableLines ==
  /\ TlsTable \in Seq(STRING) /\ Len(TlsTable) = 2
  /\ TlsTable[1] = "[grpc.tls]" /\ TlsTable[2] = "mounted certificates"
  /\ TableAt(TlsTable, 1) = "[grpc.tls]" /\ TableAt(TlsTable, 2) = "[grpc.tls]"
<1>1. /\ TlsTable \in Seq(STRING) /\ Len(TlsTable) = 2
      /\ TlsTable[1] = "[grpc.tls]" /\ TlsTable[2] = "mounted certificates"
  BY LiteralsAssumption, ShortTexts DEF TlsTable
<1>2. Len(TlsTable) = 2
  BY <1>1
<1>3. 1 \in 1 .. Len(TlsTable) /\ 2 \in 1 .. Len(TlsTable) /\ 1 \in 1 .. 1 /\ 1 \in 1 .. 2
  BY <1>2
<1>4. /\ \A k \in (1 + 1) .. 1 : TlsTable[k] \notin Headers
      /\ \A k \in (1 + 1) .. 2 : k = 2
  OBVIOUS
<1>5. TlsTable[1] \in Headers /\ TlsTable[2] \notin Headers
  BY <1>1 DEF Headers
<1>6. TableAt(TlsTable, 1) = TlsTable[1]
  BY <1>1, <1>3, <1>4, <1>5, TableOfHeader
<1>7. TableAt(TlsTable, 2) = TlsTable[1]
  BY <1>1, <1>3, <1>4, <1>5, TableOfHeader
<1> QED BY <1>1, <1>6, <1>7

\* The lines of a text with the table behind, and their tables.
LEMMA InBack ==
  ASSUME NEW text \in Seq(STRING), NEW u, u = text \o TlsTable
  PROVE  /\ u \in Seq(STRING)
         /\ DOMAIN u = 1 .. Len(text) + 2 /\ DOMAIN text = 1 .. Len(text)
         /\ Len(text) \in Nat /\ Len(u) = Len(text) + 2
         /\ u[Len(text) + 1] = "[grpc.tls]"
         /\ u[Len(text) + 2] = "mounted certificates"
         /\ TableAt(u, Len(text) + 1) = "[grpc.tls]"
         /\ TableAt(u, Len(text) + 2) = "[grpc.tls]"
         /\ \A i \in 1 .. Len(text) : u[i] = text[i] /\ TableAt(u, i) = TableAt(text, i)
<1>0. PICK n : n = Len(text)
  OBVIOUS
<1>1. TlsTable \in Seq(STRING) /\ Len(TlsTable) = 2
  BY TlsTableLines
<1>2. /\ u \in Seq(STRING) /\ Len(u) = n + Len(TlsTable)
      /\ \A k \in 1 .. n + Len(TlsTable) :
           u[k] = IF k <= n THEN text[k] ELSE TlsTable[k - n]
  BY <1>0, <1>1, ConcatProperties
<1>3. DOMAIN u = 1 .. Len(u) /\ DOMAIN text = 1 .. n /\ n \in Nat
  BY <1>0, <1>2, LenProperties
<1>n. n \in Nat
  BY <1>3
<1>4. Len(u) = n + 2
  BY <1>1, <1>2
<1>5. /\ \A i \in 1 .. n : i \in 1 .. n + 2 /\ i <= n
      /\ n + 1 \in 1 .. n + 2 /\ ~(n + 1 <= n) /\ n + 1 - n = 1
      /\ n + 2 \in 1 .. n + 2 /\ ~(n + 2 <= n) /\ n + 2 - n = 2
  BY <1>n
<1>6. /\ u[n + 1] = TlsTable[1] /\ u[n + 2] = TlsTable[2]
      /\ \A i \in 1 .. n : u[i] = text[i]
  <2>1. /\ \A i \in 1 .. n : u[i] = text[i]
        /\ \A i \in 1 .. Len(TlsTable) : u[n + i] = TlsTable[i]
    BY <1>0, <1>1, Lines
  <2>2. 1 \in 1 .. Len(TlsTable) /\ 2 \in 1 .. Len(TlsTable)
    BY <1>1
  <2> QED BY <2>1, <2>2
<1>7. \A i \in 1 .. n : TableAt(u, i) = TableAt(text, i)
  BY <1>0, <1>1, TableInFront
<1>8. TableAt(u, n + 1) = "[grpc.tls]" /\ TableAt(u, n + 2) = "[grpc.tls]"
  <2>1. /\ n + 1 \in 1 .. Len(u) /\ n + 2 \in 1 .. Len(u)
        /\ n + 1 \in 1 .. n + 1 /\ n + 1 \in 1 .. n + 2
        /\ \A k \in (n + 1 + 1) .. (n + 1) : FALSE
        /\ \A k \in (n + 1 + 1) .. (n + 2) : k = n + 2
    BY <1>n, <1>4
  <2>2. /\ u[n + 1] = "[grpc.tls]" /\ u[n + 1] \in Headers /\ u[n + 2] \notin Headers
    BY <1>6, TlsTableLines DEF Headers
  <2>3. TableAt(u, n + 1) = u[n + 1]
    BY <1>2, <2>1, <2>2, TableOfHeader
  <2>4. TableAt(u, n + 2) = u[n + 1]
    BY <1>2, <2>1, <2>2, TableOfHeader
  <2> QED BY <2>2, <2>3, <2>4
<1> QED BY <1>0, <1>2, <1>3, <1>4, <1>6, <1>7, <1>8, TlsTableLines

\* It adds lines of its own table only.
LEMMA BackSays ==
  ASSUME NEW text \in Seq(STRING), NEW u, u = text \o TlsTable, ~HasTls(text)
  PROVE  /\ UsesTls(u) /\ ~UsesTls(text)
         /\ Says(u, "[grpc]", "address tcp 1234") <=> Says(text, "[grpc]", "address tcp 1234")
         /\ WellFormed(u) <=> WellFormed(text)
<1>0. PICK n : n = Len(text)
  OBVIOUS
<1>1. /\ DOMAIN u = 1 .. n + 2 /\ DOMAIN text = 1 .. n /\ n \in Nat
      /\ u[n + 1] = "[grpc.tls]" /\ u[n + 2] = "mounted certificates"
      /\ TableAt(u, n + 1) = "[grpc.tls]" /\ TableAt(u, n + 2) = "[grpc.tls]"
      /\ \A i \in 1 .. n : u[i] = text[i] /\ TableAt(u, i) = TableAt(text, i)
  BY <1>0, InBack
<1>n. n \in Nat
  BY <1>1
<1>2. /\ n + 1 \in 1 .. n + 2 /\ n + 2 \in 1 .. n + 2 /\ n + 1 # n + 2
      /\ \A i \in 1 .. n : i \in 1 .. n + 2 /\ i # n + 1 /\ i # n + 2
      /\ \A k \in 1 .. n + 2 : k = n + 1 \/ k = n + 2 \/ k \in 1 .. n
  BY <1>n
<1>3. \A i \in 1 .. n : text[i] # "[grpc.tls]" /\ TableAt(text, i) # "[grpc.tls]"
  <2>1. "[grpc.tls]" # "top"
    OBVIOUS
  <2>2. \A i \in 1 .. n : text[i] # "[grpc.tls]"
    BY <1>1 DEF HasTls, ToSet, TlsLines
  <2> QED BY <1>0, <2>1, <2>2, TableHasHeader DEF Contains
<1>4. UsesTls(u)
  BY <1>1, <1>2 DEF UsesTls, Says
<1>5. ~UsesTls(text)
  BY <1>1, <1>3 DEF UsesTls, Says
<1>6. Says(u, "[grpc]", "address tcp 1234") <=> Says(text, "[grpc]", "address tcp 1234")
  <2>1. ASSUME NEW k \in 1 .. n + 2, u[k] = "address tcp 1234", TableAt(u, k) = "[grpc]"
        PROVE  k \in 1 .. n /\ text[k] = "address tcp 1234" /\ TableAt(text, k) = "[grpc]"
    <3>1. k # n + 1 /\ k # n + 2
      BY <1>1, <2>1
    <3> QED BY <1>1, <1>2, <2>1, <3>1
  <2>2. ASSUME NEW i \in 1 .. n, text[i] = "address tcp 1234", TableAt(text, i) = "[grpc]"
        PROVE  i \in 1 .. n + 2 /\ u[i] = "address tcp 1234" /\ TableAt(u, i) = "[grpc]"
    BY <1>1, <1>2, <2>2
  <2>3. /\ Says(u, "[grpc]", "address tcp 1234") <=>
             \E k \in 1 .. n + 2 : u[k] = "address tcp 1234" /\ TableAt(u, k) = "[grpc]"
        /\ Says(text, "[grpc]", "address tcp 1234") <=>
             \E i \in 1 .. n : text[i] = "address tcp 1234" /\ TableAt(text, i) = "[grpc]"
    BY <1>1 DEF Says
  <2> QED BY <2>1, <2>2, <2>3
<1>7. ASSUME WellFormed(u) PROVE WellFormed(text)
  <2>1. ASSUME NEW i \in 1 .. n, NEW j \in 1 .. n, i # j, text[i] \notin Comments,
               Key(text[i]) = Key(text[j])
        PROVE  text[i] \notin Headers /\ TableAt(text, i) # TableAt(text, j)
    <3>1. i \in DOMAIN u /\ j \in DOMAIN u /\ u[i] = text[i] /\ u[j] = text[j]
      BY <1>1, <1>2
    <3>2. u[i] \notin Headers /\ TableAt(u, i) # TableAt(u, j)
      BY <1>7, <2>1, <3>1 DEF WellFormed
    <3> QED BY <1>1, <3>2
  <2> QED BY <1>1, <2>1 DEF WellFormed
<1>8. ASSUME WellFormed(text) PROVE WellFormed(u)
  <2>1. /\ Key("[grpc.tls]") = "[grpc.tls]"
        /\ Key("mounted certificates") = "mounted certificates"
        /\ "address" # "[grpc.tls]" /\ "address" # "mounted certificates"
        /\ "mounted certificates" \notin Headers /\ "[grpc.tls]" # "mounted certificates"
    BY DEF Key, Headers
  <2>2. \A i \in 1 .. n : Key(text[i]) # "[grpc.tls]"
    BY <1>3, <2>1, Keys
  <2>3. \A i \in 1 .. n : Key(text[i]) = "mounted certificates" => text[i] \notin Headers
    BY <2>1, Keys
  <2>4. ASSUME NEW k \in 1 .. n + 2, NEW l \in 1 .. n + 2, k # l, u[k] \notin Comments,
               Key(u[k]) = Key(u[l])
        PROVE  u[k] \notin Headers /\ TableAt(u, k) # TableAt(u, l)
    <3>1. CASE k = n + 1
      <4>1. l = n + 2 \/ l \in 1 .. n
        BY <1>2, <2>4, <3>1
      <4>2. CASE l = n + 2
        BY <1>1, <2>1, <2>4, <3>1, <4>2
      <4>3. CASE l \in 1 .. n
        BY <1>1, <2>1, <2>2, <2>4, <3>1, <4>3
      <4> QED BY <4>1, <4>2, <4>3
    <3>2. CASE k = n + 2
      <4>1. l = n + 1 \/ l \in 1 .. n
        BY <1>2, <2>4, <3>2
      <4>2. CASE l = n + 1
        BY <1>1, <2>1, <2>4, <3>2, <4>2
      <4>3. CASE l \in 1 .. n
        BY <1>1, <1>3, <2>1, <2>4, <3>2, <4>3
      <4> QED BY <4>1, <4>2, <4>3
    <3>3. CASE k \in 1 .. n
      <4>1. CASE l = n + 1
        BY <1>1, <2>1, <2>2, <2>4, <3>3, <4>1
      <4>2. CASE l = n + 2
        BY <1>1, <1>3, <2>1, <2>3, <2>4, <3>3, <4>2
      <4>3. CASE l \in 1 .. n
        <5>1. /\ k \in DOMAIN text /\ l \in DOMAIN text
              /\ text[k] \notin Comments /\ Key(text[k]) = Key(text[l])
          BY <1>1, <2>4, <3>3, <4>3
        <5>2. text[k] \notin Headers /\ TableAt(text, k) # TableAt(text, l)
          BY <1>8, <2>4, <5>1 DEF WellFormed
        <5> QED BY <1>1, <3>3, <4>3, <5>2
      <4> QED BY <1>2, <4>1, <4>2, <4>3
    <3> QED BY <1>2, <3>1, <3>2, <3>3
  <2>5. DOMAIN u = 1 .. n + 2
    BY <1>1
  <2> QED BY <2>4, <2>5 DEF WellFormed
<1> QED BY <1>4, <1>5, <1>6, <1>7, <1>8

\* The text in front keeps its lines, and a line of the table is not at the top.
LEMMA BackKeeps ==
  ASSUME NEW text \in Seq(STRING), NEW u, u = text \o TlsTable
  PROVE  /\ \A i \in DOMAIN text : Says(u, TableAt(text, i), text[i])
         /\ \A k \in DOMAIN u :
              TableAt(u, k) = "top" => \E i \in DOMAIN text : TableAt(text, i) = "top"
<1>0. PICK n : n = Len(text)
  OBVIOUS
<1>1. /\ DOMAIN u = 1 .. n + 2 /\ DOMAIN text = 1 .. n /\ n \in Nat
      /\ TableAt(u, n + 1) = "[grpc.tls]" /\ TableAt(u, n + 2) = "[grpc.tls]"
      /\ \A i \in 1 .. n : u[i] = text[i] /\ TableAt(u, i) = TableAt(text, i)
  BY <1>0, InBack
<1>n. n \in Nat
  BY <1>1
<1>2. /\ \A i \in 1 .. n : i \in 1 .. n + 2
      /\ \A k \in 1 .. n + 2 : k = n + 1 \/ k = n + 2 \/ k \in 1 .. n
  BY <1>n
<1>3. ASSUME NEW i \in DOMAIN text PROVE Says(u, TableAt(text, i), text[i])
  BY <1>1, <1>2 DEF Says
<1>4. ASSUME NEW k \in DOMAIN u, TableAt(u, k) = "top"
      PROVE  \E i \in DOMAIN text : TableAt(text, i) = "top"
  <2>1. k # n + 1 /\ k # n + 2
    BY <1>1, <1>4
  <2> QED BY <1>1, <1>2, <1>4, <2>1
<1> QED BY <1>3, <1>4

-----------------------------------------------------------------------------
(* The generated file.                                                     *)

Listening(text) == IF HasTcp(text) THEN text ELSE Listener \o text

LEMMA Generated ==
  ASSUME NEW text \in Seq(STRING), NEW exposed \in BOOLEAN
  PROVE  /\ Listening(text) \in Seq(STRING)
         /\ buildkitdToml(text, exposed) =
              IF exposed /\ ~HasTls(Listening(text))
              THEN Listening(text) \o TlsTable ELSE Listening(text)
<1>1. text # None
  BY ManifestAssumption
<1>2. Listening(text) \in Seq(STRING)
  BY ListenerLines, Lines DEF Listening
<1>3. buildkitdToml(text, exposed) =
        IF exposed /\ ~HasTls(Listening(text))
        THEN Listening(text) \o TlsTable ELSE Listening(text)
  BY <1>1 DEF buildkitdToml, Listening, Listener, HasTcp, HasTls
<1> QED BY <1>2, <1>3

\* The listener in front decides whether the file parses and listens where
\* the Services send the builds.
LEMMA ListeningServes ==
  ASSUME NEW text \in Seq(STRING), NEW u, u = Listening(text)
  PROVE  /\ WellFormed(u) /\ Says(u, "[grpc]", "address tcp 1234") <=>
              /\ WellFormed(text)
              /\ IF HasTcp(text) THEN Says(text, "[grpc]", "address tcp 1234")
                 ELSE /\ ~Contains(text, "[grpc]")
                      /\ \A i \in DOMAIN text :
                           Key(text[i]) = "address" => TableAt(text, i) # "top"
         /\ UsesTls(u) <=> UsesTls(text)
         /\ HasTls(u) <=> HasTls(text)
<1>1. CASE HasTcp(text)
  <2>1. u = text
    BY <1>1 DEF Listening
  <2> QED BY <1>1, <2>1
<1>2. CASE ~HasTcp(text)
  <2>1. u = Listener \o text
    BY <1>2 DEF Listening
  <2>2. /\ Says(u, "[grpc]", "address tcp 1234")
        /\ UsesTls(u) <=> UsesTls(text)
        /\ HasTls(u) <=> HasTls(text)
    BY <2>1, FrontSays
  <2>3. WellFormed(u) <=>
          /\ WellFormed(text) /\ ~Contains(text, "[grpc]")
          /\ \A i \in DOMAIN text : Key(text[i]) = "address" => TableAt(text, i) # "top"
    BY <1>2, <2>1, FrontParses
  <2> QED BY <1>2, <2>2, <2>3
<1> QED BY <1>1, <1>2

\* The TLS table behind decides whether it serves TLS.
LEMMA ServesExactly ==
  ASSUME NEW text \in Seq(STRING), NEW exposed \in BOOLEAN,
         NEW toml, toml = buildkitdToml(text, exposed)
  PROVE  /\ WellFormed(toml) /\ Says(toml, "[grpc]", "address tcp 1234")
         /\ UsesTls(toml) = exposed
         <=>
         /\ WellFormed(text)
         /\ IF HasTcp(text) THEN Says(text, "[grpc]", "address tcp 1234")
            ELSE /\ ~Contains(text, "[grpc]")
                 /\ \A i \in DOMAIN text :
                      Key(text[i]) = "address" => TableAt(text, i) # "top"
         /\ IF exposed THEN HasTls(text) => UsesTls(text)
            ELSE ~UsesTls(text)
<1>0. PICK u : u = Listening(text)
  OBVIOUS
<1> DEFINE Listens == /\ WellFormed(text)
                      /\ IF HasTcp(text) THEN Says(text, "[grpc]", "address tcp 1234")
                         ELSE /\ ~Contains(text, "[grpc]")
                              /\ \A i \in DOMAIN text :
                                   Key(text[i]) = "address" => TableAt(text, i) # "top"
<1>1. /\ u \in Seq(STRING)
      /\ toml = IF exposed /\ ~HasTls(u) THEN u \o TlsTable ELSE u
  BY <1>0, Generated
<1>2. /\ WellFormed(u) /\ Says(u, "[grpc]", "address tcp 1234") <=> Listens
      /\ UsesTls(u) <=> UsesTls(text)
      /\ HasTls(u) <=> HasTls(text)
  BY <1>0, ListeningServes
<1>3. UsesTls(toml) \in BOOLEAN /\ UsesTls(text) \in BOOLEAN /\ UsesTls(u) \in BOOLEAN
  BY DEF UsesTls, Says
<1> HIDE DEF Listens
<1>4. CASE exposed /\ ~HasTls(u)
  <2>1. toml = u \o TlsTable
    BY <1>1, <1>4
  <2>2. /\ UsesTls(toml) /\ ~UsesTls(u)
        /\ Says(toml, "[grpc]", "address tcp 1234") <=> Says(u, "[grpc]", "address tcp 1234")
        /\ WellFormed(toml) <=> WellFormed(u)
    BY <1>1, <1>4, <2>1, BackSays
  <2>3. /\ WellFormed(toml) /\ Says(toml, "[grpc]", "address tcp 1234")
        /\ UsesTls(toml) = exposed
        <=>
        /\ Listens
        /\ IF exposed THEN HasTls(text) => UsesTls(text) ELSE ~UsesTls(text)
    BY <1>2, <1>3, <1>4, <2>2
  <2> QED BY <2>3 DEF Listens
<1>5. CASE ~(exposed /\ ~HasTls(u))
  <2>1. toml = u
    BY <1>1, <1>5
  <2>2. /\ WellFormed(toml) /\ Says(toml, "[grpc]", "address tcp 1234")
        /\ UsesTls(toml) = exposed
        <=>
        /\ Listens
        /\ IF exposed THEN HasTls(text) => UsesTls(text) ELSE ~UsesTls(text)
    BY <1>2, <1>3, <1>5, <2>1
  <2> QED BY <2>2 DEF Listens
<1> QED BY <1>4, <1>5

\* The file keeps every line in its table, unless the listener came in front
\* of a top-level one.
LEMMA KeepsExactly ==
  ASSUME NEW text \in Seq(STRING), NEW exposed \in BOOLEAN,
         NEW toml, toml = buildkitdToml(text, exposed)
  PROVE  (\A i \in DOMAIN text : Says(toml, TableAt(text, i), text[i])) <=> Undisturbed(text)
<1>0. PICK u : u = Listening(text)
  OBVIOUS
<1>1. /\ u \in Seq(STRING)
      /\ toml = u \/ toml = u \o TlsTable
  BY <1>0, Generated
<1>2. /\ \A table, line : Says(u, table, line) => Says(toml, table, line)
      /\ \A k \in DOMAIN toml :
           TableAt(toml, k) = "top" => \E i \in DOMAIN u : TableAt(u, i) = "top"
  <2>1. CASE toml = u
    BY <2>1
  <2>2. CASE toml = u \o TlsTable
    <3>1. /\ \A i \in DOMAIN u : Says(toml, TableAt(u, i), u[i])
          /\ \A k \in DOMAIN toml :
               TableAt(toml, k) = "top" => \E i \in DOMAIN u : TableAt(u, i) = "top"
      BY <1>1, <2>2, BackKeeps
    <3>2. ASSUME NEW table, NEW line, Says(u, table, line) PROVE Says(toml, table, line)
      BY <3>1, <3>2 DEF Says
    <3> QED BY <3>1, <3>2
  <2> QED BY <1>1, <2>1, <2>2
<1>3. ASSUME Undisturbed(text), NEW i \in DOMAIN text
      PROVE  Says(u, TableAt(text, i), text[i])
  <2>1. CASE HasTcp(text)
    BY <1>0, <2>1 DEF Listening, Says
  <2>2. CASE ~HasTcp(text)
    <3>1. u = Listener \o text
      BY <1>0, <2>2 DEF Listening
    <3>2. /\ i \in 1 .. Len(text) /\ Len(text) \in Nat /\ DOMAIN u = 1 .. Len(u)
          /\ Len(u) = Len(text) + 2
      BY <3>1, InFront
    <3>3. u[i + 2] = text[i] /\ TableAt(u, i + 2) = TableAt(text, i)
      BY <1>3, <2>2, <3>1, <3>2, InFront DEF Undisturbed
    <3>4. i + 2 \in DOMAIN u
      BY <3>2
    <3> QED BY <3>3, <3>4 DEF Says
  <2> QED BY <2>1, <2>2
<1>4. ASSUME ~Undisturbed(text)
      PROVE  \E i \in DOMAIN text : ~Says(toml, TableAt(text, i), text[i])
  <2>1. ~HasTcp(text) /\ \E i \in DOMAIN text : TableAt(text, i) = "top"
    BY <1>4 DEF Undisturbed
  <2>2. u = Listener \o text
    BY <1>0, <2>1 DEF Listening
  <2>3. \A i \in DOMAIN u : TableAt(u, i) # "top"
    <3>1. DOMAIN u = 1 .. Len(u)
      BY <2>2, InFront
    <3>2. \A i \in 1 .. Len(u) : TableAt(u, i) # "top"
      BY <2>2, FrontSays
    <3> QED BY <3>1, <3>2
  <2>4. \A k \in DOMAIN toml : TableAt(toml, k) # "top"
    BY <1>2, <2>3
  <2> QED BY <2>1, <2>4 DEF Says
<1> QED BY <1>2, <1>3, <1>4

\* The default text listens, and has no TLS of its own.
LEMMA DefaultText ==
  /\ defaultBuildkitdToml \in Seq(STRING) /\ HasTcp(defaultBuildkitdToml)
  /\ WellFormed(defaultBuildkitdToml)
  /\ Says(defaultBuildkitdToml, "[grpc]", "address tcp 1234")
  /\ ~UsesTls(defaultBuildkitdToml) /\ ~HasTls(defaultBuildkitdToml)
<1>0. PICK d : d = defaultBuildkitdToml
  OBVIOUS
<1>1. /\ d \in Seq(STRING) /\ Len(d) = 3 /\ DOMAIN d = 1 .. 3
      /\ d[1] = "[grpc]" /\ d[2] = "address tcp 1234" /\ d[3] = "[worker.oci]"
  <2>1. "[grpc]" \in STRING /\ "address tcp 1234" \in STRING /\ "[worker.oci]" \in STRING
    BY LiteralsAssumption
  <2>2. d = <<"[grpc]", "address tcp 1234", "[worker.oci]">>
    BY <1>0 DEF defaultBuildkitdToml
  <2>3. d \in Seq(STRING)
    BY <2>1, <2>2, ShortTexts
  <2>4. Len(d) = 3
    BY <2>2
  <2>5. DOMAIN d = 1 .. 3
    BY <2>3, <2>4, LenProperties
  <2>6. d[1] = "[grpc]" /\ d[2] = "address tcp 1234" /\ d[3] = "[worker.oci]"
    BY <2>2
  <2> QED BY <2>3, <2>4, <2>5, <2>6
<1>2. \A i \in 1 .. 3 : i = 1 \/ i = 2 \/ i = 3
  OBVIOUS
<1>3. /\ 1 \in 1 .. Len(d) /\ 2 \in 1 .. Len(d) /\ 3 \in 1 .. Len(d)
      /\ 1 \in 1 .. 1 /\ 1 \in 1 .. 2 /\ 3 \in 1 .. 3
      /\ 1 \in 1 .. 3 /\ 2 \in 1 .. 3
  <2>1. Len(d) = 3
    BY <1>1
  <2> QED BY <2>1
<1>4. d[1] \in Headers /\ d[2] \notin Headers /\ d[3] \in Headers
  BY <1>1 DEF Headers
<1>5. /\ \A k \in (1 + 1) .. 1 : FALSE
      /\ \A k \in (1 + 1) .. 2 : k = 2
      /\ \A k \in (3 + 1) .. 3 : FALSE
  OBVIOUS
<1>6. TableAt(d, 1) = d[1]
  BY <1>1, <1>3, <1>4, <1>5, TableOfHeader
<1>7. TableAt(d, 2) = d[1]
  BY <1>1, <1>3, <1>4, <1>5, TableOfHeader
<1>8. TableAt(d, 3) = d[3]
  BY <1>1, <1>3, <1>4, <1>5, TableOfHeader
<1>9. HasTcp(d)
  BY <1>1, <1>3 DEF HasTcp, ToSet, TcpLines
<1>10. WellFormed(d)
  <2>1. ASSUME NEW i \in 1 .. 3, NEW j \in 1 .. 3, i # j PROVE Key(d[i]) # Key(d[j])
    BY <1>1, <1>2, <2>1 DEF Key
  <2> QED BY <1>1, <2>1 DEF WellFormed
<1>11. Says(d, "[grpc]", "address tcp 1234")
  BY <1>1, <1>3, <1>7 DEF Says
<1>12. \A i \in 1 .. 3 : d[i] # "[grpc.tls]" /\ d[i] # "mounted certificates"
  BY <1>1, <1>2
<1>13. ~UsesTls(d)
  BY <1>1, <1>12 DEF UsesTls, Says
<1>14. ~HasTls(d)
  BY <1>1, <1>2 DEF HasTls, ToSet, TlsLines
<1> QED BY <1>0, <1>1, <1>9, <1>10, <1>11, <1>13, <1>14

LEMMA DefaultServes ==
  ASSUME NEW exposed \in BOOLEAN, NEW toml, toml = buildkitdToml(None, exposed)
  PROVE  /\ WellFormed(toml) /\ Says(toml, "[grpc]", "address tcp 1234")
         /\ UsesTls(toml) = exposed
<1>1. defaultBuildkitdToml \in Seq(STRING) /\ defaultBuildkitdToml # None
  BY DefaultText, ManifestAssumption
<1>2. toml = buildkitdToml(defaultBuildkitdToml, exposed)
  BY <1>1 DEF buildkitdToml
<1> QED BY <1>1, <1>2, ServesExactly, DefaultText

-----------------------------------------------------------------------------
(* What a settled builder's daemon reads.                                  *)

LEMMA TomlRight == RolloutInv => TomlExact
<1> DEFINE text == Resolved.set["buildkitdToml"]
<1> SUFFICES ASSUME RolloutInv, Settled
             PROVE  /\ Serves(config, sts.pod, Exposed) <=> Compatible(text)
                    /\ text # None =>
                         ((\A i \in DOMAIN text : Says(config, TableAt(text, i), text[i]))
                            <=> Undisturbed(text))
  BY DEF TomlExact
<1>1. text \in Seq(STRING) \cup {None}
  <2>1. Resolved.set \in [Fields -> Seq(STRING) \cup {None}]
    BY WhenSettled DEF Shaped, TemplateObject
  <2>2. "buildkitdToml" \in Fields
    BY SettingsAssumption
  <2> QED BY <2>1, <2>2
<1>2. Exposed \in BOOLEAN
  BY DEF Exposed, exposureEnabled
<1>3. config = buildkitdToml(text, Exposed)
  BY WhenSettled DEF ConfigDone, Exposed
<1>4. MountsTls(sts.pod) = Exposed
  BY MountsFound DEF MountsExist
<1>5. UsesTls(config) \in BOOLEAN
  BY DEF UsesTls, Says
<1> HIDE DEF text
<1>6. Serves(config, sts.pod, Exposed) <=>
        /\ WellFormed(config) /\ Says(config, "[grpc]", "address tcp 1234")
        /\ UsesTls(config) = Exposed
  BY <1>2, <1>4, <1>5 DEF Serves, Starts
<1>7. CASE text = None
  <2>1. Serves(config, sts.pod, Exposed)
    BY <1>2, <1>3, <1>6, <1>7, DefaultServes
  <2> QED BY <1>7, <2>1 DEF Compatible
<1>8. CASE text # None
  <2>1. text \in Seq(STRING)
    BY <1>1, <1>8
  <2>2. Serves(config, sts.pod, Exposed) <=> Compatible(text)
    BY <1>2, <1>3, <1>6, <1>8, <2>1, ServesExactly DEF Compatible
  <2>3. (\A i \in DOMAIN text : Says(config, TableAt(text, i), text[i])) <=> Undisturbed(text)
    BY <1>2, <1>3, <2>1, KeepsExactly
  <2> QED BY <2>2, <2>3
<1> QED BY <1>7, <1>8

\* TomlExact: whatever the text of the template, however long, the file that
\* ensureBuildkitdConfigMap writes starts buildkitd with the listener, and
\* with TLS just when the builder is exposed, exactly for the compatible
\* texts, and keeps exactly the undisturbed ones.
THEOREM TomlIsExact == Spec => []TomlExact
BY TomlRight, RolloutInvariant, PTL

=============================================================================
