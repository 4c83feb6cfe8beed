---------------------------- MODULE Repl_proofs ----------------------------
(***************************************************************************)
(* Theorems about the interpreter, for every set of lines: what the lines  *)
(* of a session leave to the lines after them.                             *)
(***************************************************************************)
EXTENDS Repl, Codegen_proofs

(* What the parser makes of a line: walks that can stand alone. *)
WellFormed(p) == p \in Seq(Event) /\ WellLinked(p) /\ WellNested(p)

-----------------------------------------------------------------------------
(* Walks one after the other.                                              *)

(* A part of a walk that stands alone, k events further on. *)
Contains(r, p, k) ==
  /\ k \in Nat /\ k + Len(p) <= Len(r)
  /\ \A i \in DOMAIN p : r[k + i] = p[i]

LEMMA PartEnds ==
  ASSUME NEW p, WellFormed(p), NEW r \in Seq(Event), NEW k, Contains(r, p, k), NEW i \in DOMAIN p,
         p[i].op \in Openers
  PROVE  EndOf(r, k + i) = k + EndOf(p, i)
<1>1. /\ Len(p) \in Nat /\ DOMAIN p = 1 .. Len(p) /\ k \in Nat /\ i \in Nat
      /\ p[i] \in Event
  BY DEF WellFormed, Contains
<1>2. i + p[i].link \in DOMAIN p /\ p[i].link \in Int
  BY <1>1 DEF WellFormed, WellLinked, Event
<1>3. r[k + i] = p[i] /\ r[k + (i + p[i].link)] = p[i + p[i].link]
  BY <1>2 DEF Contains
<1>4. (k + i) + p[i].link = k + (i + p[i].link)
  BY <1>1, <1>2
<1>5. CASE p[i].op # "fn"
  BY <1>3, <1>4, <1>5 DEF EndOf
<1>6. CASE p[i].op = "fn"
  <2>1. p[i + p[i].link] \in Event
    BY <1>1, <1>2 DEF WellFormed
  <2>2. p[i + p[i].link].link \in Int
    BY <2>1 DEF Event
  <2>3. EndOf(p, i) = i + p[i].link + p[i + p[i].link].link + 1
    BY <1>6 DEF EndOf
  <2>4. EndOf(r, k + i) = (k + i) + p[i].link + p[i + p[i].link].link + 1
    BY <1>3, <1>4, <1>6 DEF EndOf
  <2> QED
    BY <1>1, <1>2, <2>2, <2>3, <2>4
<1> QED
  BY <1>5, <1>6

(* What links require of an event, it has where the part stands. *)
LinkedAt(p, i) ==
  /\ i + p[i].link \in DOMAIN p
  /\ p[i].op \in {"declare", "name", "arg"} => Len(p[i].path) = 1 /\ p[i].path[1] \in Name
  /\ p[i].op = "arg" => ~ p[i].mut
  /\ p[i].op = "declare" /\ p[i].link # 0 =>
       p[i + p[i].link].op = "fn" /\ i = EndOf(p, i + p[i].link) + 1
  /\ p[i].op \in {"use", "target", "callee"} =>
       /\ p[i].path # <<>> /\ p[i].path[Len(p[i].path)] \in Name
       /\ \A j \in 2 .. Len(p[i].path) : p[i].path[j] \in Name
  /\ p[i].op = "fn" => /\ p[i].link > 0 /\ p[i + p[i].link].op = "block"
                      /\ \A a \in i + 1 .. i + p[i].link - 1 : p[a].op = "arg"
  /\ p[i].op = "assign" /\ p[i].link # 0 => p[i].link < 0 /\ p[i + p[i].link].op = "target"

LEMMA LinksApart ==
  ASSUME NEW p
  PROVE  WellLinked(p) <=> \A i \in DOMAIN p : LinkedAt(p, i)
  BY DEF WellLinked, LinkedAt

LEMMA PartLinked ==
  ASSUME NEW p, WellFormed(p), NEW r \in Seq(Event), NEW k, Contains(r, p, k), NEW i \in DOMAIN p
  PROVE  LinkedAt(r, k + i)
<1> DEFINE j == k + i
           l == p[i].link
<1>1. /\ Len(p) \in Nat /\ DOMAIN p = 1 .. Len(p) /\ k \in Nat /\ i \in Nat
      /\ p[i] \in Event /\ Len(r) \in Nat /\ DOMAIN r = 1 .. Len(r) /\ k + Len(p) <= Len(r)
  BY DEF WellFormed, Contains
<1>2. i + l \in DOMAIN p /\ l \in Int /\ LinkedAt(p, i)
  BY <1>1, LinksApart DEF WellFormed, LinkedAt, Event
<1>3. r[j] = p[i] /\ r[k + (i + l)] = p[i + l]
  BY <1>2 DEF Contains
<1>4. j + l = k + (i + l) /\ j + l \in DOMAIN r
  BY <1>1, <1>2
<1>5. p[i].op = "declare" /\ l # 0 => r[j + l].op = "fn" /\ j = EndOf(r, j + l) + 1
  <2> SUFFICES ASSUME p[i].op = "declare", l # 0 PROVE r[j + l].op = "fn" /\ j = EndOf(r, j + l) + 1
    OBVIOUS
  <2>1. p[i + l].op = "fn" /\ i = EndOf(p, i + l) + 1
    BY <1>2 DEF LinkedAt
  <2>2. p[i + l].op \in Openers
    BY <2>1 DEF Openers
  <2>3. EndOf(r, k + (i + l)) = k + EndOf(p, i + l)
    BY <1>2, <2>2, PartEnds
  <2>4. EndOf(p, i + l) \in Nat
    BY <1>2, <2>2, Ends DEF WellFormed, Walkable
  <2>5. EndOf(r, j + l) = k + EndOf(p, i + l)
    BY <1>4, <2>3
  <2> QED
    BY <1>1, <1>3, <1>4, <2>1, <2>4, <2>5
<1>6. p[i].op = "fn" => \A a \in j + 1 .. j + l - 1 : r[a].op = "arg"
  <2> SUFFICES ASSUME p[i].op = "fn", NEW a \in j + 1 .. j + l - 1 PROVE r[a].op = "arg"
    OBVIOUS
  <2>1. a - k \in i + 1 .. i + l - 1 /\ a \in Int /\ a - k \in DOMAIN p
    <3> HIDE DEF l
    <3>1. a \in Int /\ k + i + 1 <= a /\ a <= k + i + l - 1
      BY <1>1, <1>2
    <3>2. i + l <= Len(p) /\ i >= 1
      BY <1>1, <1>2
    <3>3. a - k \in Int /\ i + 1 <= a - k /\ a - k <= i + l - 1 /\ 1 <= a - k /\ a - k <= Len(p)
      BY <1>1, <1>2, <3>1, <3>2
    <3> QED
      BY <1>1, <1>2, <3>1, <3>3
  <2>2. p[a - k].op = "arg"
    BY <1>2, <2>1 DEF LinkedAt
  <2>3. r[k + (a - k)] = p[a - k] /\ k + (a - k) = a
    BY <1>1, <2>1 DEF Contains
  <2> QED
    BY <2>2, <2>3
<1> HIDE DEF j, l
<1>7. LinkedAt(r, j)
  BY <1>2, <1>3, <1>4, <1>5, <1>6 DEF LinkedAt, l
<1> QED
  BY <1>7 DEF j

(* What nesting requires of the events of a part. *)
NestedAt(p, i) ==
  /\ p[i].op \in Openers =>
       /\ EndOf(p, i) \in DOMAIN p /\ i < EndOf(p, i)
       /\ <<p[i].op, p[EndOf(p, i)].op>> \in Brackets
       /\ \A j \in i + 1 .. EndOf(p, i) : p[j].op \in Openers => EndOf(p, j) < EndOf(p, i)
  /\ p[i].op \in Closers => \E o \in 1 .. i - 1 : p[o].op \in Openers /\ EndOf(p, o) = i

LEMMA NestingApart ==
  ASSUME NEW p
  PROVE  WellNested(p) <=> \A i \in DOMAIN p : NestedAt(p, i)
  BY DEF WellNested, NestedAt

LEMMA PartNested ==
  ASSUME NEW p, WellFormed(p), NEW r \in Seq(Event), NEW k, Contains(r, p, k), NEW i \in DOMAIN p
  PROVE  NestedAt(r, k + i)
<1>1. /\ Len(p) \in Nat /\ DOMAIN p = 1 .. Len(p) /\ k \in Nat /\ i \in Nat
      /\ Len(r) \in Nat /\ DOMAIN r = 1 .. Len(r) /\ k + Len(p) <= Len(r)
      /\ NestedAt(p, i) /\ r[k + i] = p[i]
  BY NestingApart DEF WellFormed, Contains
<1>2. ASSUME p[i].op \in Openers
      PROVE  /\ EndOf(r, k + i) \in DOMAIN r /\ k + i < EndOf(r, k + i)
             /\ <<r[k + i].op, r[EndOf(r, k + i)].op>> \in Brackets
             /\ \A j \in k + i + 1 .. EndOf(r, k + i) :
                  r[j].op \in Openers => EndOf(r, j) < EndOf(r, k + i)
  <2>1. /\ EndOf(p, i) \in DOMAIN p /\ i < EndOf(p, i) /\ <<p[i].op, p[EndOf(p, i)].op>> \in Brackets
        /\ \A j \in i + 1 .. EndOf(p, i) : p[j].op \in Openers => EndOf(p, j) < EndOf(p, i)
    BY <1>1, <1>2 DEF NestedAt
  <2>2. EndOf(r, k + i) = k + EndOf(p, i) /\ r[k + EndOf(p, i)] = p[EndOf(p, i)]
    BY <1>2, <2>1, PartEnds DEF Contains
  <2>3. EndOf(p, i) \in Nat /\ EndOf(p, i) <= Len(p)
    BY <1>1, <2>1
  <2>4. ASSUME NEW j \in k + i + 1 .. EndOf(r, k + i), r[j].op \in Openers
        PROVE  EndOf(r, j) < EndOf(r, k + i)
    <3>1. j \in Int /\ j - k \in i + 1 .. EndOf(p, i) /\ j - k \in DOMAIN p /\ k + (j - k) = j
      BY <1>1, <2>2, <2>3
    <3>2. p[j - k].op \in Openers
      BY <2>4, <3>1 DEF Contains
    <3>3. EndOf(p, j - k) < EndOf(p, i) /\ EndOf(p, j - k) \in Nat
      BY <2>1, <3>1, <3>2, Ends DEF WellFormed, Walkable
    <3>4. EndOf(r, k + (j - k)) = k + EndOf(p, j - k)
      BY <3>1, <3>2, PartEnds
    <3> QED
      BY <1>1, <2>2, <2>3, <3>1, <3>3, <3>4
  <2>5. EndOf(r, k + i) \in DOMAIN r /\ k + i < EndOf(r, k + i)
    BY <1>1, <2>1, <2>2, <2>3
  <2>6. <<r[k + i].op, r[EndOf(r, k + i)].op>> \in Brackets
    BY <1>1, <2>1, <2>2
  <2> QED
    BY <2>4, <2>5, <2>6
<1>3. ASSUME p[i].op \in Closers
      PROVE  \E o \in 1 .. (k + i) - 1 : r[o].op \in Openers /\ EndOf(r, o) = k + i
  <2>1. PICK o \in 1 .. i - 1 : p[o].op \in Openers /\ EndOf(p, o) = i
    BY <1>1, <1>3 DEF NestedAt
  <2>2. o \in DOMAIN p /\ k + o \in 1 .. (k + i) - 1
    BY <1>1
  <2>3. EndOf(r, k + o) = k + i /\ r[k + o] = p[o]
    BY <2>1, <2>2, PartEnds DEF Contains
  <2> QED
    BY <2>1, <2>2, <2>3
<1> QED
  BY <1>1, <1>2, <1>3 DEF NestedAt

(* Walks that can stand alone do so one after the other. *)
LEMMA Joined ==
  ASSUME NEW p, WellFormed(p), NEW q, WellFormed(q)
  PROVE  WellFormed(p \o q)
<1> DEFINE r == p \o q
<1>1. p \in Seq(Event) /\ q \in Seq(Event)
  BY DEF WellFormed
<1>2. /\ r \in Seq(Event) /\ Len(r) = Len(p) + Len(q) /\ Len(p) \in Nat /\ Len(q) \in Nat
      /\ DOMAIN r = 1 .. Len(p) + Len(q) /\ DOMAIN p = 1 .. Len(p) /\ DOMAIN q = 1 .. Len(q)
      /\ \A i \in DOMAIN p : r[0 + i] = p[i]
      /\ \A i \in DOMAIN q : r[Len(p) + i] = q[i]
  BY <1>1
<1> HIDE DEF r
<1>3. Contains(r, p, 0) /\ Contains(r, q, Len(p))
  BY <1>2 DEF Contains
<1>4. ASSUME NEW i \in DOMAIN r PROVE LinkedAt(r, i) /\ NestedAt(r, i)
  <2>1. i \in Nat
    BY <1>2
  <2>2. CASE i <= Len(p)
    <3>1. i \in DOMAIN p /\ 0 + i = i
      BY <1>2, <2>1, <2>2
    <3>2. LinkedAt(r, 0 + i) /\ NestedAt(r, 0 + i)
      BY <1>2, <1>3, <3>1, PartLinked, PartNested
    <3> QED
      BY <3>1, <3>2
  <2>3. CASE i > Len(p)
    <3>1. i - Len(p) \in DOMAIN q /\ Len(p) + (i - Len(p)) = i
      BY <1>2, <2>1, <2>3
    <3>2. LinkedAt(r, Len(p) + (i - Len(p))) /\ NestedAt(r, Len(p) + (i - Len(p)))
      BY <1>2, <1>3, <3>1, PartLinked, PartNested
    <3> QED
      BY <3>1, <3>2
  <2> QED
    BY <1>2, <2>1, <2>2, <2>3
<1>5. WellFormed(r)
  BY <1>2, <1>4, LinksApart, NestingApart DEF WellFormed
<1> QED
  BY <1>5 DEF r


-----------------------------------------------------------------------------
(* The function jitfunc.                                                   *)

(* A sequence with two elements before it and three behind it. *)
Wrap(a, b, s, c, d, e) == <<a>> \o <<b>> \o s \o <<c>> \o <<d>> \o <<e>>

Wraps(r, a, b, s, c, d, e) ==
  /\ r \in Seq(Event) /\ Len(r) = Len(s) + 5
  /\ r[1] = a /\ r[2] = b /\ r[Len(s) + 3] = c /\ r[Len(s) + 4] = d /\ r[Len(s) + 5] = e
  /\ \A i \in 1 .. Len(s) : r[2 + i] = s[i]

LEMMA Wrapped ==
  ASSUME NEW a \in Event, NEW b \in Event, NEW c \in Event, NEW d \in Event, NEW e \in Event,
         NEW s \in Seq(Event)
  PROVE  Wraps(Wrap(a, b, s, c, d, e), a, b, s, c, d, e)
<1> DEFINE t == <<a>> \o <<b>> \o s
           u == t \o <<c>> \o <<d>>
           r == Wrap(a, b, s, c, d, e)
<1>0. r = u \o <<e>>
  BY DEF Wrap
<1> HIDE DEF r
<1>1. /\ t \in Seq(Event) /\ Len(t) = Len(s) + 2 /\ t[1] = a /\ t[2] = b
      /\ \A i \in 1 .. Len(s) : t[2 + i] = s[i]
  OBVIOUS
<1> HIDE DEF t
<1>2. /\ u \in Seq(Event) /\ Len(u) = Len(t) + 2 /\ \A i \in 1 .. Len(t) : u[i] = t[i]
      /\ u[Len(t) + 1] = c /\ u[Len(t) + 2] = d
  BY <1>1
<1> HIDE DEF u
<1>3. /\ r \in Seq(Event) /\ Len(r) = Len(u) + 1 /\ \A i \in 1 .. Len(u) : r[i] = u[i]
      /\ r[Len(u) + 1] = e
  BY <1>0, <1>2
<1>4. Len(s) \in Nat
  OBVIOUS
<1>5. Len(t) = Len(s) + 2 /\ Len(u) = Len(s) + 4 /\ Len(r) = Len(s) + 5
  BY <1>1, <1>2, <1>3, <1>4
<1>6. \A i \in 1 .. Len(s) + 4 : r[i] = u[i]
  BY <1>3, <1>5
<1>7. \A i \in 1 .. Len(s) + 2 : r[i] = t[i]
  BY <1>2, <1>4, <1>5, <1>6
<1>8. r[1] = a /\ r[2] = b
  <2>1. 1 \in 1 .. Len(s) + 2 /\ 2 \in 1 .. Len(s) + 2
    BY <1>4
  <2> QED
    BY <1>1, <1>7, <2>1
<1>9. \A i \in 1 .. Len(s) : r[2 + i] = s[i]
  BY <1>1, <1>4, <1>7
<1>10. r[Len(s) + 3] = c /\ r[Len(s) + 4] = d /\ r[Len(s) + 5] = e
  <2>1. Len(s) + 3 \in 1 .. Len(s) + 4 /\ Len(s) + 4 \in 1 .. Len(s) + 4
    BY <1>4
  <2>2. u[Len(s) + 3] = c /\ u[Len(s) + 4] = d
    BY <1>2, <1>4, <1>5
  <2>3. r[Len(s) + 5] = e
    BY <1>3, <1>4, <1>5
  <2> QED
    BY <1>6, <2>1, <2>2, <2>3
<1> QED
  BY <1>3, <1>5, <1>8, <1>9, <1>10 DEF r, Wraps

JitEvent(op, path, link, loc) == [op |-> op, path |-> path, mut |-> FALSE, link |-> link, loc |-> loc]

LEMMA JitEvents ==
  ASSUME NEW body \in Seq(Event), NEW loc \in Location
  PROVE  LET r == JitFunction(body, loc)
             n == Len(body)
         IN  /\ r \in Seq(Event) /\ Len(r) = n + 5 /\ DOMAIN r = 1 .. n + 5 /\ n \in Nat
             /\ r[1] = JitEvent("fn", <<>>, 1, loc)
             /\ r[2] = JitEvent("block", <<>>, n + 1, loc)
             /\ \A i \in DOMAIN body : r[2 + i] = body[i]
             /\ r[n + 3] = JitEvent("end", <<>>, 0, loc)
             /\ r[n + 4] = JitEvent("endfn", <<>>, 0, loc)
             /\ r[n + 5] = JitEvent("declare", <<"jitfunc">>, - (n + 4), loc)
<1> DEFINE n == Len(body)
           a == JitEvent("fn", <<>>, 1, loc)
           b == JitEvent("block", <<>>, n + 1, loc)
           c == JitEvent("end", <<>>, 0, loc)
           d == JitEvent("endfn", <<>>, 0, loc)
           e == JitEvent("declare", <<"jitfunc">>, - (n + 4), loc)
           r == Wrap(a, b, body, c, d, e)
<1>1. n \in Nat /\ DOMAIN body = 1 .. n /\ body \in Seq(Event)
  OBVIOUS
<1>2. JitFunction(body, loc) = r
  BY DEF JitFunction, JitEvent, Wrap
<1>3. \A op \in Op : \A path \in Seq(Name \cup {""}) : \A link \in Int : JitEvent(op, path, link, loc) \in Event
  BY DEF JitEvent, Event
<1>4. <<"jitfunc">> \in Seq(Name \cup {""}) /\ <<>> \in Seq(Name \cup {""})
  BY LinesAssumption
<1>5. a \in Event /\ b \in Event /\ c \in Event /\ d \in Event
  <2>1. {"fn", "block", "end", "endfn"} \subseteq Op
    BY DEF Op
  <2>2. 1 \in Int /\ 0 \in Int /\ n + 1 \in Int
    BY <1>1
  <2> HIDE DEF n
  <2> QED
    BY <1>3, <1>4, <2>1, <2>2
<1>6. e \in Event
  <2>1. - (n + 4) \in Int /\ "declare" \in Op
    BY <1>1 DEF Op
  <2> QED
    BY <1>3, <1>4, <2>1
<1> HIDE DEF n, a, b, c, d, e
<1>7. /\ r \in Seq(Event) /\ Len(r) = n + 5
      /\ r[1] = a /\ r[2] = b /\ r[n + 3] = c /\ r[n + 4] = d /\ r[n + 5] = e
      /\ \A i \in DOMAIN body : r[2 + i] = body[i]
  <2>1. body \in Seq(Event) /\ a \in Event /\ b \in Event /\ c \in Event /\ d \in Event /\ e \in Event
    BY <1>1, <1>5, <1>6
  <2>2. Wraps(r, a, b, body, c, d, e)
    BY <2>1, Wrapped
  <2> HIDE DEF r
  <2> QED
    BY <1>1, <2>2 DEF n, Wraps
<1> QED
  BY <1>1, <1>2, <1>7 DEF n, a, b, c, d, e

LEMMA JitWellFormed ==
  ASSUME NEW body, WellFormed(body), NEW loc \in Location
  PROVE  WellFormed(JitFunction(body, loc))
<1> DEFINE r == JitFunction(body, loc)
           n == Len(body)
<1>1. body \in Seq(Event)
  BY DEF WellFormed
<1>2. /\ r \in Seq(Event) /\ Len(r) = n + 5 /\ DOMAIN r = 1 .. n + 5 /\ n \in Nat
      /\ r[1] = JitEvent("fn", <<>>, 1, loc)
      /\ r[2] = JitEvent("block", <<>>, n + 1, loc)
      /\ \A i \in DOMAIN body : r[2 + i] = body[i]
      /\ r[n + 3] = JitEvent("end", <<>>, 0, loc)
      /\ r[n + 4] = JitEvent("endfn", <<>>, 0, loc)
      /\ r[n + 5] = JitEvent("declare", <<"jitfunc">>, - (n + 4), loc)
  BY <1>1, JitEvents
<1> HIDE DEF r
<1>3. DOMAIN body = 1 .. n
  BY <1>1
<1> HIDE DEF n
<1>4. /\ r[1].op = "fn" /\ r[1].link = 1
      /\ r[2].op = "block" /\ r[2].link = n + 1
      /\ r[n + 3].op = "end" /\ r[n + 3].link = 0
      /\ r[n + 4].op = "endfn" /\ r[n + 4].link = 0
      /\ r[n + 5].op = "declare" /\ r[n + 5].link = - (n + 4) /\ r[n + 5].path = <<"jitfunc">>
  BY <1>2 DEF JitEvent
<1>5. Contains(r, body, 2)
  <2>1. 2 + n <= n + 5
    BY <1>2
  <2> QED
    BY <1>2, <2>1 DEF Contains, n
<1>6. EndOf(r, 1) = n + 4 /\ EndOf(r, 2) = n + 3
  <2>1. EndOf(r, 2) = 2 + (n + 1)
    BY <1>4 DEF EndOf
  <2>2. EndOf(r, 1) = 1 + 1 + r[1 + 1].link + 1
    BY <1>4 DEF EndOf
  <2> QED
    BY <1>2, <1>4, <2>1, <2>2
<1>7. ASSUME NEW i \in DOMAIN r
      PROVE  \/ i \in {1, 2, n + 3, n + 4, n + 5}
             \/ i - 2 \in DOMAIN body /\ 2 + (i - 2) = i
  BY <1>2, <1>3
<1>8. ASSUME NEW i \in DOMAIN body, r[2 + i].op \in Openers
      PROVE  EndOf(r, 2 + i) < n + 3 /\ EndOf(r, 2 + i) \in Nat
  <2>1. EndOf(r, 2 + i) = 2 + EndOf(body, i)
    BY <1>2, <1>5, <1>8, PartEnds
  <2>2. EndOf(body, i) \in DOMAIN body
    BY <1>2, <1>8, Ends DEF WellFormed, Walkable
  <2> QED
    BY <1>2, <1>3, <2>1, <2>2
<1>9. ASSUME NEW j \in DOMAIN r, j > 2, r[j].op \in Openers PROVE EndOf(r, j) < n + 3
  <2>1. CASE j \in {1, 2, n + 3, n + 4, n + 5}
    <3>1. j \in {n + 3, n + 4, n + 5}
      BY <1>9, <2>1
    <3>2. r[j].op \in {"end", "endfn", "declare"}
      BY <1>4, <3>1
    <3> QED
      BY <1>9, <3>2 DEF Openers
  <2>2. CASE j - 2 \in DOMAIN body /\ 2 + (j - 2) = j
    BY <1>8, <1>9, <2>2
  <2> QED
    BY <1>7, <2>1, <2>2
<1>10. LinkedAt(r, 1) /\ LinkedAt(r, 2) /\ LinkedAt(r, n + 3) /\ LinkedAt(r, n + 4)
  <2>1. /\ 1 + r[1].link \in DOMAIN r /\ 2 + r[2].link \in DOMAIN r
        /\ (n + 3) + r[n + 3].link \in DOMAIN r /\ (n + 4) + r[n + 4].link \in DOMAIN r
    BY <1>2, <1>4
  <2>2. r[1 + r[1].link].op = "block" /\ 1 + 1 .. 1 + r[1].link - 1 = {}
    BY <1>4
  <2> QED
    BY <1>4, <2>1, <2>2 DEF LinkedAt
<1>11. LinkedAt(r, n + 5)
  <2>1. (n + 5) + r[n + 5].link = 1 /\ n + 5 = EndOf(r, 1) + 1
    BY <1>2, <1>4, <1>6
  <2>2. 1 \in DOMAIN r
    BY <1>2
  <2>3. "jitfunc" \in Name
    BY LinesAssumption
  <2> QED
    BY <1>4, <2>1, <2>2, <2>3 DEF LinkedAt
<1>12. NestedAt(r, 1)
  <2>1. EndOf(r, 1) \in DOMAIN r /\ 1 < EndOf(r, 1) /\ <<r[1].op, r[EndOf(r, 1)].op>> \in Brackets
    BY <1>2, <1>4, <1>6 DEF Brackets
  <2>2. ASSUME NEW j \in 1 + 1 .. EndOf(r, 1), r[j].op \in Openers PROVE EndOf(r, j) < EndOf(r, 1)
    <3>1. j \in DOMAIN r /\ (j = 2 \/ j > 2)
      BY <1>2, <1>6
    <3>2. CASE j = 2
      BY <1>2, <1>6, <3>2
    <3>3. CASE j > 2
      <4>1. EndOf(r, j) < n + 3
        BY <1>9, <2>2, <3>1, <3>3
      <4>2. j - 2 \in DOMAIN body /\ 2 + (j - 2) = j
        <5>1. j # n + 3 /\ j # n + 4 /\ j # n + 5 /\ j # 1 /\ j # 2
          BY <1>4, <2>2, <3>3 DEF Openers
        <5> QED
          BY <1>7, <3>1, <5>1
      <4>3. EndOf(r, j) \in Nat
        BY <1>8, <2>2, <4>2
      <4> QED
        BY <1>2, <1>6, <4>1, <4>3
    <3> QED
      BY <3>1, <3>2, <3>3
  <2>3. r[1].op \notin Closers
    BY <1>4 DEF Closers
  <2> QED
    BY <2>1, <2>2, <2>3 DEF NestedAt
<1>13. NestedAt(r, 2)
  <2>1. EndOf(r, 2) \in DOMAIN r /\ 2 < EndOf(r, 2) /\ <<r[2].op, r[EndOf(r, 2)].op>> \in Brackets
    BY <1>2, <1>4, <1>6 DEF Brackets
  <2>2. ASSUME NEW j \in 2 + 1 .. EndOf(r, 2), r[j].op \in Openers PROVE EndOf(r, j) < EndOf(r, 2)
    <3>1. j \in DOMAIN r /\ j > 2
      BY <1>2, <1>6
    <3> QED
      BY <1>6, <1>9, <2>2, <3>1
  <2>3. r[2].op \notin Closers
    BY <1>4 DEF Closers
  <2> QED
    BY <2>1, <2>2, <2>3 DEF NestedAt
<1>14. NestedAt(r, n + 3) /\ NestedAt(r, n + 4) /\ NestedAt(r, n + 5)
  <2>1. 1 \in 1 .. (n + 4) - 1 /\ 2 \in 1 .. (n + 3) - 1
    BY <1>2
  <2>2. r[1].op \in Openers /\ r[2].op \in Openers
    BY <1>4 DEF Openers
  <2>3. /\ r[n + 3].op \notin Openers /\ r[n + 4].op \notin Openers
        /\ r[n + 5].op \notin Openers /\ r[n + 5].op \notin Closers
    BY <1>4 DEF Openers, Closers
  <2> QED
    BY <1>6, <2>1, <2>2, <2>3 DEF NestedAt
<1>15. ASSUME NEW i \in DOMAIN r PROVE LinkedAt(r, i) /\ NestedAt(r, i)
  <2>1. CASE i \in {1, 2, n + 3, n + 4, n + 5}
    BY <1>10, <1>11, <1>12, <1>13, <1>14, <2>1
  <2>2. CASE i - 2 \in DOMAIN body /\ 2 + (i - 2) = i
    <3>1. LinkedAt(r, 2 + (i - 2)) /\ NestedAt(r, 2 + (i - 2))
      BY <1>2, <1>5, <2>2, PartLinked, PartNested
    <3> QED
      BY <2>2, <3>1
  <2> QED
    BY <1>7, <2>1, <2>2
<1>16. WellFormed(r)
  BY <1>2, <1>15, LinksApart, NestingApart DEF WellFormed
<1> QED
  BY <1>16 DEF r


-----------------------------------------------------------------------------
(* The nodes of the line in one walk.                                      *)

(* The order of the locations has a first one among finitely many. *)
LEMMA StartIsLocation ==
  ASSUME NEW node \in Seq(Event), node # <<>>
  PROVE  StartLoc(node) \in Location
<1>1. DOMAIN node = 1 .. Len(node) /\ Len(node) \in Nat /\ Len(node) # 0
  OBVIOUS
<1>2. \A i \in DOMAIN node : node[i].loc \in Location
  <2>1. \A i \in DOMAIN node : node[i] \in Event
    OBVIOUS
  <2> QED
    BY <2>1 DEF Event
<1>3. \A i \in DOMAIN node : node[i].loc.line_num \in Nat /\ node[i].loc.byte \in Nat
  BY <1>2 DEF Location
<1> DEFINE lines == {node[i].loc.line_num : i \in DOMAIN node}
<1>4. lines \subseteq Nat /\ lines # {}
  <2>1. 1 \in DOMAIN node
    BY <1>1
  <2> QED
    BY <1>3, <2>1
<1>5. PICK m \in lines : \A k \in lines : m <= k
  BY <1>4, LeastNat
<1> DEFINE bytes == {node[i].loc.byte : i \in {j \in DOMAIN node : node[j].loc.line_num = m}}
<1>6. bytes \subseteq Nat /\ bytes # {}
  BY <1>3
<1>7. PICK b \in bytes : \A k \in bytes : b <= k
  BY <1>6, LeastNat
<1>8. PICK i \in DOMAIN node : node[i].loc.line_num = m /\ node[i].loc.byte = b
  BY <1>7
<1>9. ASSUME NEW j \in DOMAIN node PROVE ~ Before(node[j].loc, node[i].loc)
  <2>1. m <= node[j].loc.line_num
    BY <1>5
  <2>2. node[j].loc.line_num = m => b <= node[j].loc.byte
    BY <1>7
  <2>3. m \in Nat /\ b \in Nat
    BY <1>4, <1>6
  <2> QED
    BY <1>3, <1>8, <2>1, <2>2, <2>3 DEF Before
<1> DEFINE first == CHOOSE k \in DOMAIN node : \A j \in DOMAIN node : ~ Before(node[j].loc, node[k].loc)
<1>10. first \in DOMAIN node
  BY <1>9
<1> QED
  BY <1>2, <1>10 DEF StartLoc

(* One step of Flatten. *)
Flattened(nodes, functions, g) ==
  [n \in 0 .. Len(nodes) |->
     IF n = 0 THEN <<>>
     ELSE IF IsFunction(nodes[n]) = functions THEN g[n - 1] \o nodes[n] ELSE g[n - 1]]

LEMMA FlattenIsChosen ==
  ASSUME NEW nodes, NEW functions
  PROVE  Flatten(nodes, functions)
           = (CHOOSE g : g = Flattened(nodes, functions, g))[Len(nodes)]
  BY DEF Flatten, Flattened


(* The function that Flatten chooses exists. *)
LEMMA FlattenExists ==
  ASSUME NEW nodes, Len(nodes) \in Nat, NEW functions
  PROVE  \E g : g = Flattened(nodes, functions, g)
<1> DEFINE N == Len(nodes)
           With(n, v) == IF IsFunction(nodes[n]) = functions THEN v \o nodes[n] ELSE v
           Upto(n, g) == g = [k \in 0 .. n |-> IF k = 0 THEN <<>> ELSE With(k, g[k - 1])]
           T == {n \in 0 .. N : ~ \E g : Upto(n, g)}
<1> HIDE DEF With
<1>1. T = {}
  <2> SUFFICES ASSUME T # {} PROVE FALSE
    OBVIOUS
  <2>1. T \subseteq Nat
    OBVIOUS
  <2>2. PICK m \in T : \A k \in T : m <= k
    BY <2>1, LeastNat
  <2>3. m \in 0 .. N /\ m \in Nat /\ ~ \E g : Upto(m, g)
    OBVIOUS
  <2>4. CASE m = 0
    <3> DEFINE g == [k \in 0 .. m |-> <<>>]
    <3>1. Upto(m, g)
      BY <2>4
    <3> QED
      BY <2>3, <3>1
  <2>5. CASE m # 0
    <3>1. m - 1 \in 0 .. N /\ ~ (m <= m - 1) /\ m - 1 \in Nat
      BY <2>3, <2>5
    <3>2. m - 1 \notin T
      BY <2>2, <3>1
    <3>3. PICK f : Upto(m - 1, f)
      BY <3>1, <3>2
    <3> DEFINE g == [k \in 0 .. m |-> IF k = m THEN With(m, f[m - 1]) ELSE f[k]]
    <3>4. \A k \in 0 .. m - 1 : g[k] = f[k]
      BY <2>3, <3>1
    <3>5. \A k \in 0 .. m - 1 : f[k] = IF k = 0 THEN <<>> ELSE With(k, f[k - 1])
      BY <3>3
    <3>6. \A k \in 0 .. m : g[k] = IF k = 0 THEN <<>> ELSE With(k, g[k - 1])
      <4> SUFFICES ASSUME NEW k \in 0 .. m PROVE g[k] = IF k = 0 THEN <<>> ELSE With(k, g[k - 1])
        OBVIOUS
      <4>1. CASE k = m
        <5>1. g[m - 1] = f[m - 1] /\ g[m] = With(m, f[m - 1])
          BY <2>3, <3>1, <3>4
        <5> HIDE DEF g
        <5> QED
          BY <2>5, <4>1, <5>1
      <4>2. CASE k = 0
        <5>1. 0 \in 0 .. m - 1
          BY <3>1
        <5>2. g[0] = f[0] /\ f[0] = <<>>
          BY <3>4, <3>5, <5>1
        <5> HIDE DEF g
        <5> QED
          BY <4>2, <5>2
      <4>3. CASE k # m /\ k # 0
        <5>1. k \in 0 .. m - 1 /\ k - 1 \in 0 .. m - 1
          BY <2>3, <4>3
        <5>2. g[k] = f[k] /\ g[k - 1] = f[k - 1] /\ f[k] = With(k, f[k - 1])
          BY <3>4, <3>5, <4>3, <5>1
        <5> HIDE DEF g
        <5> QED
          BY <4>3, <5>2
      <4> QED
        BY <4>1, <4>2, <4>3
    <3>7. g = [k \in 0 .. m |-> g[k]]
      OBVIOUS
    <3> HIDE DEF g
    <3>8. g = [k \in 0 .. m |-> IF k = 0 THEN <<>> ELSE With(k, g[k - 1])]
      BY <3>6, <3>7
    <3> QED
      BY <2>3, <3>8
  <2> QED
    BY <2>4, <2>5
<1>2. \E g : Upto(N, g)
  <2>1. N \in 0 .. N
    OBVIOUS
  <2> QED
    BY <1>1, <2>1
<1> QED
  BY <1>2 DEF Flattened, With

LEMMA FlattenWellFormed ==
  ASSUME NEW nodes, Len(nodes) \in Nat, \A n \in 1 .. Len(nodes) : WellFormed(nodes[n]),
         NEW functions
  PROVE  WellFormed(Flatten(nodes, functions))
<1> DEFINE flat == CHOOSE g : g = Flattened(nodes, functions, g)
           N == Len(nodes)
<1>1. flat = Flattened(nodes, functions, flat)
  BY FlattenExists
<1> HIDE DEF flat
<1>2. ASSUME NEW n \in 0 .. N
      PROVE  flat[n] = IF n = 0 THEN <<>>
                       ELSE IF IsFunction(nodes[n]) = functions THEN flat[n - 1] \o nodes[n] ELSE flat[n - 1]
  BY <1>1 DEF Flattened
<1> DEFINE T == {n \in 0 .. N : ~ WellFormed(flat[n])}
<1>3. WellFormed(<<>>)
  BY DEF WellFormed, WellLinked, WellNested
<1>4. T = {}
  <2> SUFFICES ASSUME T # {} PROVE FALSE
    OBVIOUS
  <2>1. T \subseteq Nat
    OBVIOUS
  <2>2. PICK m \in T : \A k \in T : m <= k
    BY <2>1, LeastNat
  <2>3. m \in 0 .. N /\ m \in Nat /\ ~ WellFormed(flat[m])
    OBVIOUS
  <2>4. m # 0
    BY <1>2, <1>3, <2>3
  <2>5. m - 1 \in 0 .. N /\ ~ (m <= m - 1) /\ m \in 1 .. N
    BY <2>3, <2>4
  <2>6. WellFormed(flat[m - 1]) /\ WellFormed(nodes[m])
    BY <2>2, <2>5
  <2>7. WellFormed(flat[m - 1] \o nodes[m])
    BY <2>6, Joined
  <2>8. flat[m] = flat[m - 1] \o nodes[m] \/ flat[m] = flat[m - 1]
    BY <1>2, <2>3, <2>4
  <2> QED
    BY <2>3, <2>6, <2>7, <2>8
<1>5. WellFormed(flat[N])
  <2>1. N \in 0 .. N
    OBVIOUS
  <2> QED
    BY <1>4, <2>1
<1> QED
  BY <1>5, FlattenIsChosen DEF flat

(* The nodes on the stack. *)
LEMMA TransformedWellFormed ==
  ASSUME NEW nodes \in Seq(Seq(Event)), \A n \in DOMAIN nodes : nodes[n] # <<>> /\ WellFormed(nodes[n])
  PROVE  WellFormed(Transformed(nodes))
<1> DEFINE exprs == {i \in DOMAIN nodes : ~ IsFunction(nodes[i])}
           first == CHOOSE i \in exprs : \A j \in exprs : i <= j
<1>1. Len(nodes) \in Nat /\ DOMAIN nodes = 1 .. Len(nodes)
  OBVIOUS
<1>2. \A n \in 1 .. Len(nodes) : WellFormed(nodes[n])
  BY <1>1
<1>3. WellFormed(Flatten(nodes, TRUE)) /\ WellFormed(Flatten(nodes, FALSE))
  BY <1>1, <1>2, FlattenWellFormed
<1>4. CASE exprs = {}
  BY <1>3, <1>4 DEF Transformed
<1>5. CASE exprs # {}
  <2>1. exprs \subseteq Nat
    BY <1>1
  <2>2. \E i \in exprs : \A j \in exprs : i <= j
    BY <1>5, <2>1, LeastNat
  <2>3. first \in exprs
    BY <2>2
  <2>4. nodes[first] \in Seq(Event) /\ nodes[first] # <<>>
    BY <2>3
  <2>5. StartLoc(nodes[first]) \in Location
    BY <2>4, StartIsLocation
  <2> DEFINE jit == JitFunction(Flatten(nodes, FALSE), StartLoc(nodes[first]))
  <2>6. WellFormed(jit)
    BY <1>3, <2>5, JitWellFormed
  <2>7. Transformed(nodes) = Flatten(nodes, TRUE) \o jit
    BY <1>5 DEF Transformed
  <2> HIDE DEF jit
  <2>8. WellFormed(Flatten(nodes, TRUE) \o jit)
    BY <1>3, <2>6, Joined
  <2> QED
    BY <2>7, <2>8
<1> QED
  BY <1>4, <1>5


-----------------------------------------------------------------------------
(* The inductive invariant.                                                *)

(* Only while a line is compiled do the passes run; what is compiled has a *)
(* number and follows no counted error; and the stack holds walks.         *)
ReplInv ==
  /\ GInv
  /\ inputs \in 0 .. MaxInputs /\ result \in 0 .. inputs
  /\ stage \in {"prompt", "parsed", "passes", "reset", "quit", "aborted"}
  /\ compiling \in BOOLEAN /\ misparsed \in BOOLEAN
  /\ permissions \in [do_compile : BOOLEAN, interpret : BOOLEAN]
  /\ stack \in Seq(Seq(Event))
  /\ \A n \in DOMAIN stack : stack[n] # <<>> /\ WellFormed(stack[n])
  /\ stage # "passes" => pass = "done"
  /\ stage \in {"parsed", "passes"} => inputs \in 1 .. MaxInputs
  /\ stage \in {"prompt", "parsed"} => diagnosed = {}

LEMMA ReplFacts ==
  ASSUME ReplInv
  PROVE  /\ GInv /\ inputs \in Nat /\ ast \in Seq(Event) /\ WellLinked(ast) /\ WellNested(ast)
         /\ arena \in Seq(Table) /\ GlobalSymIndex \in DOMAIN arena
         /\ module \in [Name -> Fn] /\ Absent \in Fn
         /\ \A n \in Name : module[n].input \in 0 .. inputs
<1>1. Null \in Value
  BY DEF Null, Value
<1> QED
  BY <1>1 DEF ReplInv, GInv, Analysed, GenTypeOK, InputsPast, Fn, Absent, Walkable

(* Outside of the generator no function is open. *)
LEMMA NoneOpen ==
  ASSUME ReplInv, pass = "done"
  PROVE  saved = <<>> /\ \A n \in Name : module[n].state # "open"
  BY DEF ReplInv, GInv, Walking, FunctionsOpen

LEMMA OutsideGen ==
  ASSUME pass' \in {"decl", "done"}, Analysed', GenTypeOK', saved' = <<>>,
         \A n \in Name : module'[n].state # "open", CallsMade', InputsPast'
  PROVE  GInv'
  BY DEF GInv, Walking, FunctionsOpen, CallsPending, ValuesBacked

(* What is left of GInv when no module changes. *)
LEMMA ModuleKept ==
  ASSUME ReplInv, pass = "done", UNCHANGED <<saved, module>>, inputs' \in Nat, inputs' >= inputs
  PROVE  /\ saved' = <<>> /\ \A n \in Name : module'[n].state # "open"
         /\ InputsPast'
         /\ pass' # "crashed" => CallsMade'
<1>1. InputsPast'
  <2>1. \A n \in Name : module[n].input \in 0 .. inputs /\ inputs \in Nat
    BY ReplFacts
  <2> QED
    BY <2>1 DEF InputsPast
<1>2. CallsMade
  BY DEF ReplInv, GInv
<1> QED
  BY <1>1, <1>2, NoneOpen DEF CallsMade

-----------------------------------------------------------------------------
(* The actions of the loop.                                                *)

LEMMA ReadKeeps ==
  ASSUME ReplInv, stage = "prompt", NEW line \in Lines, ReadLine(line)
  PROVE  ReplInv'
<1>1. /\ pass = "done" /\ diagnosed = {} /\ inputs \in 0 .. MaxInputs /\ inputs < MaxInputs
      /\ MaxInputs \in Nat
  BY InputsAssumption DEF ReplInv, ReadLine
<1>2. /\ inputs' = inputs + 1 /\ result' = 0
      /\ UNCHANGED <<ast, pass, pc, arena, current, context, frames, locals, def_table, diagnosed>>
      /\ UNCHANGED genvars
  BY DEF ReadLine
<1>3. inputs' \in 1 .. MaxInputs /\ inputs' \in 0 .. MaxInputs /\ result' \in 0 .. inputs' /\ inputs' >= inputs
  BY <1>1, <1>2
<1>4. Analysed'
  BY <1>1, <1>2, <1>3 DEF ReplInv, GInv, Analysed, ParentsPrecede, KeywordsIntact
<1>5. GenTypeOK'
  BY <1>2 DEF ReplInv, GInv, GenTypeOK, genvars
<1>6. GInv'
  <2>1. UNCHANGED <<saved, module>>
    BY <1>2 DEF genvars
  <2> QED
    BY <1>1, <1>2, <1>3, <1>4, <1>5, <2>1, ModuleKept, OutsideGen
<1>7. /\ stack' \in Seq(Seq(Event))
      /\ \A n \in DOMAIN stack' : stack'[n] # <<>> /\ WellFormed(stack'[n])
  <2>1. line.nodes \in Seq(Seq(Event))
    BY LinesAssumption
  <2>2. \A n \in DOMAIN line.nodes : line.nodes[n] # <<>> /\ WellFormed(line.nodes[n])
    BY <2>1, LinesAssumption DEF WellFormed
  <2>3. /\ stack \in Seq(Seq(Event))
        /\ \A n \in DOMAIN stack : stack[n] # <<>> /\ WellFormed(stack[n])
    BY DEF ReplInv
  <2> DEFINE nodes == line.nodes
  <2> HIDE DEF nodes
  <2>4. stack' = stack \o nodes
    BY DEF ReadLine, nodes
  <2>5. nodes \in Seq(Seq(Event)) /\ \A n \in DOMAIN nodes : nodes[n] # <<>> /\ WellFormed(nodes[n])
    BY <2>1, <2>2 DEF nodes
  <2>6. stack' \in Seq(Seq(Event))
    BY <2>3, <2>4, <2>5
  <2>7. ASSUME NEW n \in DOMAIN stack'
        PROVE  \/ n \in DOMAIN stack /\ stack'[n] = stack[n]
               \/ \E m \in DOMAIN nodes : stack'[n] = nodes[m]
    <3>1. /\ Len(stack) \in Nat /\ Len(nodes) \in Nat /\ n \in 1 .. Len(stack) + Len(nodes)
          /\ DOMAIN stack = 1 .. Len(stack) /\ DOMAIN nodes = 1 .. Len(nodes)
      BY <2>3, <2>4, <2>5
    <3>2. stack'[n] = IF n <= Len(stack) THEN stack[n] ELSE nodes[n - Len(stack)]
      BY <2>3, <2>4, <2>5, <3>1
    <3>3. n <= Len(stack) \/ n - Len(stack) \in DOMAIN nodes
      BY <3>1
    <3> QED
      BY <3>1, <3>2, <3>3
  <2> QED
    BY <2>3, <2>5, <2>6, <2>7
<1>8. /\ stage' \in {"prompt", "parsed"} /\ misparsed' \in BOOLEAN /\ UNCHANGED compiling
  BY DEF ReadLine
<1>9. permissions' \in [do_compile : BOOLEAN, interpret : BOOLEAN]
  <2>1. permissions \in [do_compile : BOOLEAN, interpret : BOOLEAN] /\ compiling \in BOOLEAN
    BY DEF ReplInv
  <2>2. CASE line.command = "text"
    BY <2>1, <2>2 DEF ReadLine
  <2>3. CASE line.command = "load"
    BY <2>1, <2>3 DEF ReadLine
  <2>4. CASE line.command = "compile"
    BY <2>1, <2>4 DEF ReadLine
  <2> QED
    BY <2>2, <2>3, <2>4 DEF ReadLine
<1> QED
  BY <1>1, <1>2, <1>3, <1>6, <1>7, <1>8, <1>9 DEF ReplInv


(* The actions that leave the passes alone. *)
LEMMA LoopKeeps ==
  ASSUME ReplInv, UnchangedPasses, UNCHANGED <<permissions, stack, misparsed, result>>,
         compiling' \in BOOLEAN,
         stage' \in {"prompt", "parsed", "passes", "reset", "quit", "aborted"},
         stage' # "passes" => pass = "done",
         stage' \in {"parsed", "passes"} => stage' = stage,
         stage' = "prompt" => stage \in {"prompt", "parsed"}
  PROVE  ReplInv'
<1>1. GInv'
  BY GenStutter DEF ReplInv, UnchangedPasses, allvars
<1>2. UNCHANGED <<inputs, pass, diagnosed>>
  BY DEF UnchangedPasses, vars
<1> QED
  BY <1>1, <1>2 DEF ReplInv

LEMMA PromptKeeps ==
  ASSUME ReplInv, Prompt
  PROVE  ReplInv'
<1>1. stage = "prompt"
  BY DEF Prompt
<1>2. PICK line \in Lines : Quit(line) \/ Flag(line) \/ Abort(line) \/ ReadLine(line)
  BY DEF Prompt
<1>3. pass = "done" /\ compiling \in BOOLEAN
  BY <1>1 DEF ReplInv
<1>4. CASE Quit(line)
  BY <1>3, <1>4, LoopKeeps DEF Quit
<1>5. CASE Flag(line)
  <2>1. compiling' \in BOOLEAN /\ UnchangedPasses /\ UNCHANGED <<stage, permissions, stack, misparsed, result>>
    BY <1>3, <1>5 DEF Flag
  <2> QED
    BY <1>1, <1>3, <2>1, LoopKeeps
<1>6. CASE Abort(line)
  BY <1>3, <1>6, LoopKeeps DEF Abort
<1>7. CASE ReadLine(line)
  BY <1>1, <1>7, ReadKeeps
<1> QED
  BY <1>2, <1>4, <1>5, <1>6, <1>7

LEMMA TurnsKeep ==
  ASSUME ReplInv, ShowOnly \/ Refuse \/ InterpretNothing
  PROVE  ReplInv'
<1>1. compiling \in BOOLEAN
  BY DEF ReplInv
<1>2. CASE ShowOnly
  <2>1. pass = "done" /\ stage = "parsed"
    BY <1>2 DEF ShowOnly, ReplInv
  <2> QED
    BY <1>1, <1>2, <2>1, LoopKeeps DEF ShowOnly
<1>3. CASE Refuse
  <2>1. pass = "done"
    BY <1>3 DEF Refuse, ReplInv
  <2> QED
    BY <1>1, <1>3, <2>1, LoopKeeps DEF Refuse
<1>4. CASE InterpretNothing
  BY <1>1, <1>4, LoopKeeps DEF InterpretNothing
<1> QED
  BY <1>2, <1>3, <1>4

(* The tables of the earlier lines serve the new tree, of which nothing is *)
(* annotated yet.                                                          *)
LEMMA TransformKeeps ==
  ASSUME ReplInv, Transform
  PROVE  ReplInv'
<1>1. /\ stage = "parsed" /\ pass = "done" /\ diagnosed = {} /\ inputs \in 1 .. MaxInputs
      /\ stage' = "passes" /\ pass' = "decl" /\ pc' = 1
      /\ current' = GlobalSymIndex /\ context' = "GLOBAL" /\ frames' = <<>>
      /\ locals' = [i \in DOMAIN ast' |-> None] /\ def_table' = [i \in DOMAIN ast' |-> None]
      /\ generated' = FALSE
      /\ UNCHANGED <<inputs, arena, diagnosed, codegen, operands, saved, insert, module, storage>>
      /\ UNCHANGED <<compiling, permissions, stack, misparsed, result>>
  BY DEF Transform, ReplInv
<1>2. WellFormed(ast')
  <2>1. ast' = Transformed(stack)
    BY DEF Transform
  <2>2. stack \in Seq(Seq(Event)) /\ \A n \in DOMAIN stack : stack[n] # <<>> /\ WellFormed(stack[n])
    BY DEF ReplInv
  <2> QED
    BY <2>1, <2>2, TransformedWellFormed
<1>3. /\ ast' \in Seq(Event) /\ WellLinked(ast)' /\ Walkable(ast)' /\ 1 \in 1 .. Len(ast') + 1
  BY <1>2 DEF WellFormed, Walkable, WellLinked, WellNested, EndOf
<1>4. /\ arena \in Seq(Table) /\ GlobalSymIndex \in DOMAIN arena /\ ParentsPrecede /\ KeywordsIntact
  BY DEF ReplInv, GInv, Analysed
<1>5. /\ arena' \in Seq(Table) /\ GlobalSymIndex \in DOMAIN arena' /\ ParentsPrecede' /\ KeywordsIntact'
  BY <1>1, <1>4 DEF ParentsPrecede, KeywordsIntact
<1>6. /\ locals' \in [DOMAIN ast' -> {None} \cup DOMAIN arena']
      /\ def_table' \in [DOMAIN ast' -> {None} \cup DOMAIN arena']
  BY <1>1
<1>7. IInv'
  <2>1. TypeOK'
    <3>1. frames' \in Seq([node : Nat, current : DOMAIN arena', context : ScopingContext])
      BY <1>1
    <3>2. diagnosed' \subseteq [event : DOMAIN ast', what : Diagnosis]
      BY <1>1
    <3>3. context' \in ScopingContext
      BY <1>1 DEF ScopingContext
    <3> QED
      BY <1>1, <1>3, <1>5, <1>6, <3>1, <3>2, <3>3 DEF TypeOK
  <2>2. ScopesAnnotated'
    BY <1>1 DEF ScopesAnnotated
  <2> QED
    BY <1>5, <2>1, <2>2 DEF IInv
<1>8. Analysed'
  BY <1>1, <1>3, <1>5, <1>6, <1>7 DEF Analysed
<1>9. GenTypeOK'
  <2>1. diagnosed' \subseteq [event : DOMAIN ast', what : Diagnosis \cup Refusal]
    BY <1>1
  <2>2. GenTypeOK
    BY DEF ReplInv, GInv
  <2> QED
    BY <1>1, <1>3, <1>5, <2>1, <2>2 DEF GenTypeOK
<1>10. GInv'
  <2>1. inputs' \in Nat /\ inputs' >= inputs
    BY <1>1
  <2> QED
    BY <1>1, <1>8, <1>9, <2>1, ModuleKept, OutsideGen
<1> QED
  BY <1>1, <1>10 DEF ReplInv


(* The passes work on one input. *)
LEMMA PassesStay ==
  ASSUME DeclPass \/ RefPass \/ GenPass
  PROVE  inputs' = inputs
<1>1. CASE DeclPass \/ RefPass
  BY <1>1 DEF DeclPass, RefPass, DeclFunction, DeclEndFunction, DeclArgument, DeclBlock,
     DeclEndBlock, DeclAssignName, DeclInAssign, DeclEndInAssign, DeclTypeAssign, DeclEndTypeAssign,
     DeclOther, DeclDone, RefBlock, RefEndBlock, RefFunction, RefEndFunction, RefVariable, RefAssign,
     RefAssignNoVariable, RefInAssign, RefEndInAssign, RefTypeAssign, RefEndTypeAssign, RefOther,
     RefDone, Continue
<1>2. CASE GenPass
  <2>1. ASSUME GenStart \/ GenLiteral \/ GenNode \/ GenEndNode \/ GenEnter \/ GenLeave \/ GenOther
               \/ GenDone
        PROVE  inputs' = inputs
    BY <2>1 DEF GenStart, GenLiteral, GenNode, GenEndNode, GenEnter, GenLeave, GenOther, GenDone,
       Continue
  <2>2. ASSUME GenFunctionAgain \/ GenFunction \/ GenFunctionUnnamed \/ GenEndFunction \/ GenErased
        PROVE  inputs' = inputs
    BY <2>2 DEF GenFunctionAgain, GenFunction, GenFunctionUnnamed, GenEndFunction, GenErased, Crash,
       Continue
  <2>3. ASSUME GenVariable \/ GenNameFunction \/ GenAssignName \/ GenArgument
        PROVE  inputs' = inputs
    BY <2>3 DEF GenVariable, GenNameFunction, GenAssignName, GenArgument, Crash, Continue
  <2>4. ASSUME GenAssign \/ GenBinOp \/ GenUnOp \/ GenCall \/ GenEndCall
        PROVE  inputs' = inputs
    BY <2>4 DEF GenAssign, GenBinOp, GenUnOp, GenCall, GenEndCall, Crash, Continue
  <2>5. ASSUME GenIf \/ GenThen \/ GenEndBranch \/ GenEndIf
        PROVE  inputs' = inputs
    BY <2>5 DEF GenIf, GenThen, GenEndBranch, GenEndIf, Crash, Continue
  <2> QED
    BY <1>2, <2>1, <2>2, <2>3, <2>4, <2>5 DEF GenPass
<1> QED
  BY <1>1, <1>2

LEMMA PassesKeep ==
  ASSUME ReplInv, Passes
  PROVE  ReplInv'
<1>1. stage = "passes" /\ UNCHANGED replvars /\ inputs' = inputs
  BY PassesStay DEF Passes
<1>2. GInv'
  BY GenPassKeeps, AnalysisKeeps DEF ReplInv, Passes
<1> QED
  BY <1>1, <1>2 DEF ReplInv, replvars

(* What jitfunc leaves behind when nothing calls it. *)
LEMMA WithoutJitFunction ==
  ASSUME ReplInv, pass = "done", Callers("jitfunc") = {}, UNCHANGED inputs, pass' # "crashed",
         module' = [module EXCEPT !["jitfunc"] = Absent]
  PROVE  /\ module' \in [Name -> Fn]
         /\ \A n \in Name : module'[n].state # "open"
         /\ CallsMade' /\ InputsPast'
<1>1. /\ module \in [Name -> Fn] /\ Absent \in Fn /\ "jitfunc" \in Name /\ inputs \in Nat
      /\ \A n \in Name : module[n].state # "open" /\ module[n].input \in 0 .. inputs
  BY ReplFacts, NoneOpen, LinesAssumption
<1>2. /\ module' \in [Name -> Fn] /\ module'["jitfunc"] = Absent
      /\ \A n \in Name \ {"jitfunc"} : module'[n] = module[n]
  BY <1>1
<1>3. Absent.state = "absent" /\ Absent.uses = {} /\ Absent.input = 0
  BY DEF Absent
<1>4. \A n \in Name : module'[n].state # "open" /\ module'[n].input \in 0 .. inputs'
  BY <1>1, <1>2, <1>3
<1>5. ASSUME NEW n \in Name, NEW u \in module'[n].uses, u.kind = "call"
      PROVE  module'[u.of].state # "absent"
  <2>1. n # "jitfunc" /\ u \in module[n].uses
    BY <1>2, <1>3, <1>5
  <2>2. module[u.of].state # "absent"
    BY <1>5, <2>1 DEF ReplInv, GInv, CallsMade
  <2>3. u.of # "jitfunc"
    BY <1>5, <2>1 DEF Callers
  <2>4. u.of \in Name
    BY <1>1, <2>1 DEF Fn, Use
  <2> QED
    BY <1>2, <2>2, <2>3, <2>4
<1> QED
  BY <1>2, <1>4, <1>5 DEF CallsMade, InputsPast

LEMMA InterpretKeeps ==
  ASSUME ReplInv, Interpret
  PROVE  ReplInv'
<1>1. /\ stage = "passes" /\ pass = "done" /\ HasJitFunction
      /\ result' = module["jitfunc"].input
      /\ UNCHANGED <<compiling, permissions, stack, misparsed>>
  BY DEF Interpret
<1>2. result' \in 0 .. inputs
  BY <1>1, ReplFacts, LinesAssumption
<1>3. CASE Callers("jitfunc") # {}
  <2>1. Crash /\ UNCHANGED stage
    BY <1>3 DEF Interpret
  <2>2. GInv'
    BY <1>1, <2>1, CrashKeeps DEF ReplInv
  <2>3. inputs' = inputs
    BY <2>1 DEF Crash
  <2> QED
    BY <1>1, <1>2, <2>1, <2>2, <2>3 DEF ReplInv
<1>4. CASE Callers("jitfunc") = {}
  <2>1. /\ stage' = "reset" /\ module' = [module EXCEPT !["jitfunc"] = Absent]
        /\ UNCHANGED <<inputs, ast, pass, pc, arena, current, context, frames, locals, def_table, diagnosed>>
        /\ UNCHANGED <<generated, codegen, operands, saved, insert, storage>>
    BY <1>4 DEF Interpret, vars
  <2>2. /\ module' \in [Name -> Fn] /\ \A n \in Name : module'[n].state # "open"
        /\ CallsMade' /\ InputsPast'
    BY <1>1, <1>4, <2>1, WithoutJitFunction
  <2>3. Analysed'
    BY <1>1, <2>1 DEF ReplInv, GInv, Analysed, ParentsPrecede, KeywordsIntact
  <2>4. GenTypeOK'
    <3>1. GenTypeOK
      BY DEF ReplInv, GInv
    <3> QED
      BY <2>1, <2>2, <3>1 DEF GenTypeOK, Fn
  <2>5. saved' = <<>>
    BY <1>1, <2>1, NoneOpen
  <2>6. GInv'
    BY <1>1, <2>1, <2>2, <2>3, <2>4, <2>5, OutsideGen
  <2> QED
    BY <1>1, <1>2, <2>1, <2>6 DEF ReplInv
<1> QED
  BY <1>3, <1>4

LEMMA ResetKeeps ==
  ASSUME ReplInv, Reset
  PROVE  ReplInv'
<1>1. /\ stage = "reset" /\ pass = "done" /\ stage' = "prompt"
      /\ diagnosed' = {} /\ misparsed' = FALSE /\ stack' = <<>>
      /\ ast' = <<>> /\ pc' = 1 /\ locals' = <<>> /\ def_table' = <<>>
      /\ UNCHANGED <<inputs, pass, arena, current, context, frames>>
      /\ UNCHANGED <<generated, codegen, operands, saved, insert, module, storage>>
      /\ UNCHANGED <<compiling, permissions, result>>
  BY DEF Reset, ReplInv, genvars
<1>2. ast' \in Seq(Event) /\ WellLinked(ast)' /\ Walkable(ast)'
  BY <1>1 DEF WellLinked, WellNested, Walkable
<1>3. /\ locals' \in [DOMAIN ast' -> {None} \cup DOMAIN arena']
      /\ def_table' \in [DOMAIN ast' -> {None} \cup DOMAIN arena']
  BY <1>1
<1>4. Analysed'
  BY <1>1, <1>2, <1>3 DEF ReplInv, GInv, Analysed, ParentsPrecede, KeywordsIntact
<1>5. GenTypeOK'
  <2>1. pc' \in 1 .. Len(ast') + 1 /\ diagnosed' \subseteq [event : DOMAIN ast', what : Diagnosis \cup Refusal]
    BY <1>1
  <2>2. GenTypeOK
    BY DEF ReplInv, GInv
  <2> QED
    BY <1>1, <2>1, <2>2 DEF GenTypeOK
<1>6. GInv'
  <2>1. inputs' \in Nat /\ inputs' >= inputs
    BY <1>1, ReplFacts
  <2> QED
    BY <1>1, <1>4, <1>5, <2>1, ModuleKept, OutsideGen
<1>7. stack' \in Seq(Seq(Event)) /\ \A n \in DOMAIN stack' : stack'[n] # <<>> /\ WellFormed(stack'[n])
  BY <1>1
<1>8. inputs' \in 0 .. MaxInputs /\ result' \in 0 .. inputs' /\ compiling' \in BOOLEAN
      /\ permissions' \in [do_compile : BOOLEAN, interpret : BOOLEAN]
  BY <1>1 DEF ReplInv
<1> QED
  BY <1>1, <1>6, <1>7, <1>8 DEF ReplInv


LEMMA ReplStutter ==
  ASSUME ReplInv, UNCHANGED everything
  PROVE  ReplInv'
<1>1. GInv'
  BY GenStutter DEF ReplInv, everything
<1> QED
  BY <1>1 DEF ReplInv, everything, replvars, allvars, vars

LEMMA ReplInitEstablishes == ReplInit => ReplInv
<1> SUFFICES ASSUME ReplInit PROVE ReplInv
  OBVIOUS
<1>1. /\ inputs = 0 /\ ast = <<>> /\ pass = "done" /\ pc = 1
      /\ arena = <<NewTable(GlobalSymIndex, "GLOBAL")>> /\ current = GlobalSymIndex
      /\ locals = <<>> /\ def_table = <<>> /\ diagnosed = {} /\ generated = FALSE
      /\ codegen = Null /\ operands = <<>> /\ saved = <<>> /\ insert = NoFunction
      /\ module = [n \in Name |-> Absent] /\ storage = <<>>
      /\ stage = "prompt" /\ compiling = TRUE
      /\ permissions = [do_compile |-> TRUE, interpret |-> TRUE]
      /\ stack = <<>> /\ misparsed = FALSE /\ result = 0
  BY DEF ReplInit
<1>2. /\ arena \in Seq(Table) /\ DOMAIN arena = {1} /\ GlobalSymIndex \in DOMAIN arena
      /\ ParentsPrecede /\ KeywordsIntact
  <2>1. /\ NewTable(1, "GLOBAL") \in Table
        /\ NewTable(1, "GLOBAL").self_index = 1
        /\ NewTable(1, "GLOBAL").parent = None
        /\ NewTable(1, "GLOBAL").symbols["self"] = IndexTo(1)
        /\ \A n \in Name \ {"self"} : NewTable(1, "GLOBAL").symbols[n] = Unbound
    BY NewTableIsTable DEF ScopingContext
  <2> DEFINE global == NewTable(1, "GLOBAL")
  <2>2. arena = <<global>>
    BY <1>1 DEF GlobalSymIndex
  <2> HIDE DEF global
  <2>3. arena \in Seq(Table) /\ Len(arena) = 1 /\ DOMAIN arena = {1} /\ arena[1] = global
    BY <2>1, <2>2 DEF global
  <2> QED
    BY <2>1, <2>3 DEF ParentsPrecede, KeywordsIntact, GlobalSymIndex, Unbound, global
<1>3. ast \in Seq(Event) /\ WellLinked(ast) /\ Walkable(ast)
  BY <1>1 DEF WellLinked, WellNested, Walkable
<1>4. /\ locals \in [DOMAIN ast -> {None} \cup DOMAIN arena]
      /\ def_table \in [DOMAIN ast -> {None} \cup DOMAIN arena]
  BY <1>1
<1>5. Analysed
  <2>1. \A i \in DOMAIN ast : ast[i].op \in Scopes => locals[i] # None
    BY <1>1
  <2> QED
    BY <1>1, <1>2, <1>3, <1>4, <2>1 DEF Analysed
<1>6. Absent \in Fn /\ Null \in Value /\ Absent.state = "absent" /\ Absent.uses = {} /\ Absent.input = 0
  <2>1. Null \in Value
    BY DEF Null, Value
  <2> QED
    BY <2>1 DEF Fn, Absent
<1>7. GenTypeOK
  <2>1. pc \in 1 .. Len(ast) + 1 /\ diagnosed \subseteq [event : DOMAIN ast, what : Diagnosis \cup Refusal]
    BY <1>1
  <2>2. operands \in Seq(Value)
    BY <1>1
  <2>3. saved \in Seq(SavedFrame)
    BY <1>1
  <2>4. module \in [Name -> Fn]
    BY <1>1, <1>6
  <2>5. \A k \in DOMAIN storage : storage[k] \in [kind : {"alloca", "argument"}, of : Name]
    BY <1>1
  <2>6. /\ pass \in {"decl", "ref", "gen", "done", "crashed"} /\ current \in DOMAIN arena
        /\ generated \in BOOLEAN /\ codegen \in Value /\ insert \in Name \cup {NoFunction}
    BY <1>1, <1>2, <1>6
  <2> QED
    BY <2>1, <2>2, <2>3, <2>4, <2>5, <2>6 DEF GenTypeOK, SavedFrame, Fn
<1>8. GInv
  <2>1. \A n \in Name : module[n] = Absent
    BY <1>1
  <2> QED
    BY <1>1, <1>5, <1>6, <1>7, <2>1
       DEF GInv, Walking, FunctionsOpen, CallsPending, CallsMade, ValuesBacked, InputsPast
<1>9. inputs \in 0 .. MaxInputs /\ result \in 0 .. inputs
  BY <1>1, InputsAssumption
<1>10. stack \in Seq(Seq(Event)) /\ \A n \in DOMAIN stack : stack[n] # <<>> /\ WellFormed(stack[n])
  BY <1>1
<1> QED
  BY <1>1, <1>8, <1>9, <1>10 DEF ReplInv

(* ReplInv holds for every set of lines: a tree made of what parsing has   *)
(* left on the stack, of several lines where none was reset, is one the    *)
(* passes can walk, and jitfunc leaves no call behind when it goes         *)
(* (addInterpreterAstTransformations and interpret, ReplDriver.cpp:21).    *)
THEOREM ReplInvariant == ReplSpec => []ReplInv
<1>1. ReplInit => ReplInv
  BY ReplInitEstablishes
<1>2. ReplInv /\ [ReplNext]_everything => ReplInv'
  <2> SUFFICES ASSUME ReplInv, [ReplNext]_everything PROVE ReplInv'
    OBVIOUS
  <2>1. CASE Prompt
    BY <2>1, PromptKeeps
  <2>2. CASE ShowOnly \/ Refuse \/ InterpretNothing
    BY <2>2, TurnsKeep
  <2>3. CASE Transform
    BY <2>3, TransformKeeps
  <2>4. CASE Passes
    BY <2>4, PassesKeep
  <2>5. CASE Interpret
    BY <2>5, InterpretKeeps
  <2>6. CASE Reset
    BY <2>6, ResetKeeps
  <2>7. CASE ReplEnded
    BY <2>7, ReplStutter DEF ReplEnded
  <2>8. CASE UNCHANGED everything
    BY <2>8, ReplStutter
  <2> QED
    BY <2>1, <2>2, <2>3, <2>4, <2>5, <2>6, <2>7, <2>8 DEF ReplNext, InLine
<1> QED
  BY <1>1, <1>2, PTL DEF ReplSpec

(* ReplTypeOK holds in every session, through failures and crashes.        *)
THEOREM ReplTyped == ReplSpec => []ReplTypeOK
<1>1. ReplInv => ReplTypeOK
  <2> SUFFICES ASSUME ReplInv PROVE ReplTypeOK
    OBVIOUS
  <2>1. ast \in Seq(Event) /\ WellLinked(ast) /\ GenTypeOK
    BY ReplFacts DEF ReplInv, GInv
  <2> QED
    BY <2>1 DEF ReplInv, ReplTypeOK
<1> QED
  BY <1>1, ReplInvariant, PTL

(* ModuleWhole holds in every session: neither a failed line nor jitfunc   *)
(* taken out (eraseFromParent, ReplDriver.cpp:123) leaves the module with  *)
(* an open function or a call of nothing.                                  *)
THEOREM SessionModuleIsWhole == ReplSpec => []ModuleWhole
<1>1. ReplInv => ModuleWhole
  BY WholeWhenDone DEF ReplInv
<1> QED
  BY <1>1, ReplInvariant, PTL


-----------------------------------------------------------------------------
(* What a step may never do.                                               *)

Spared == \A n \in Name : module[n].state = "complete" => module'[n] = module[n]

(* Writing to the function of the builder spares the complete ones. *)
LEMMA BuilderSpares ==
  ASSUME GInv, pass = "gen", NEW f, module' = [module EXCEPT ![insert] = f]
  PROVE  Spared
<1>1. module \in [Name -> Fn] /\ NoFunction \notin Name
  BY NameAssumption DEF GInv, GenTypeOK, Fn, NoFunction
<1>2. ASSUME NEW n \in Name, module[n].state = "complete" PROVE n # insert
  BY <1>1, <1>2, InsertOpen
<1> QED
  BY <1>1, <1>2 DEF Spared

LEMMA EmitSpares ==
  ASSUME GInv, pass = "gen", NEW kind, NEW of, Emit(kind, of)
  PROVE  Spared
<1>1. CASE insert = NoFunction
  BY <1>1 DEF Emit, Spared
<1>2. CASE insert # NoFunction
  <2> DEFINE f == [module[insert] EXCEPT !.uses =
                     @ \cup {[kind |-> kind, of |-> of, event |-> pc, input |-> inputs]}]
  <2>1. module' = [module EXCEPT ![insert] = f]
    BY <1>2 DEF Emit
  <2> HIDE DEF f
  <2> QED
    BY <2>1, BuilderSpares
<1> QED
  BY <1>1, <1>2

LEMMA GenSpares ==
  ASSUME GInv, GenPass
  PROVE  Spared
<1>1. ASSUME UNCHANGED module PROVE Spared
  BY <1>1 DEF Spared
<1>2. CASE GenStart \/ GenLiteral \/ GenNode \/ GenEndNode \/ GenEnter \/ GenLeave \/ GenOther
           \/ GenFunctionAgain \/ GenFunctionUnnamed \/ GenNameFunction \/ GenAssignName
           \/ GenArgument \/ GenUnOp \/ GenBinOp \/ GenCall \/ GenIf \/ GenThen \/ GenEndBranch
           \/ GenEndIf \/ GenDone
  <2>1. UNCHANGED module
    <3>1. CASE GenStart \/ GenLiteral \/ GenNode \/ GenEndNode \/ GenEnter \/ GenLeave \/ GenOther
               \/ GenFunctionAgain \/ GenFunctionUnnamed \/ GenNameFunction \/ GenDone
      BY <3>1 DEF GenStart, GenLiteral, GenNode, GenEndNode, GenEnter, GenLeave, GenOther,
         GenFunctionAgain, GenFunctionUnnamed, GenNameFunction, GenDone, Crash, genvars
    <3>2. CASE GenAssignName
      BY <3>2 DEF GenAssignName, Crash, genvars
    <3>3. CASE GenArgument \/ GenUnOp \/ GenBinOp \/ GenCall
      BY <3>3 DEF GenArgument, GenUnOp, GenBinOp, GenCall, Crash, genvars
    <3>4. CASE GenIf \/ GenThen \/ GenEndBranch \/ GenEndIf
      BY <3>4 DEF GenIf, GenThen, GenEndBranch, GenEndIf, Crash, genvars
    <3> QED
      BY <1>2, <3>1, <3>2, <3>3, <3>4
  <2> QED
    BY <1>1, <2>1
<1>3. CASE GenFunction
  <2>1. PICK d \in Naming(pc) :
          /\ module[ast[d].path[1]].state = "absent"
          /\ module' = [module EXCEPT ![ast[d].path[1]] =
                [Absent EXCEPT !.state = "open", !.arity = ast[pc].link - 1,
                               !.event = d, !.input = inputs]]
    BY <1>3 DEF GenFunction
  <2>2. module \in [Name -> Fn]
    BY DEF GInv, GenTypeOK, Fn
  <2> DEFINE name == ast[d].path[1]
             f == [Absent EXCEPT !.state = "open", !.arity = ast[pc].link - 1,
                                 !.event = d, !.input = inputs]
  <2>3. module[name].state = "absent" /\ module' = [module EXCEPT ![name] = f]
    BY <2>1
  <2> HIDE DEF name, f
  <2> QED
    BY <2>2, <2>3 DEF Spared
<1>4. CASE GenEndFunction
  <2> DEFINE f == [module[insert] EXCEPT !.state = "complete", !.value = codegen]
  <2>1. pass = "gen" /\ module' = [module EXCEPT ![insert].state = "complete", ![insert].value = codegen]
    BY <1>4 DEF GenEndFunction, GenAt, At
  <2>2. module \in [Name -> Fn]
    BY DEF GInv, GenTypeOK, Fn
  <2>3. module' = [module EXCEPT ![insert] = f]
    BY <2>1, <2>2
  <2> HIDE DEF f
  <2> QED
    BY <2>1, <2>3, BuilderSpares
<1>5. CASE GenErased
  <2>1. pass = "gen"
    BY <1>5 DEF GenErased, GenAt, At
  <2>2. CASE Callers(insert) # {}
    BY <1>1, <1>5, <2>2 DEF GenErased, Crash, genvars
  <2>3. CASE Callers(insert) = {}
    <3>1. module' = [module EXCEPT ![insert] = Absent]
      BY <1>5, <2>3 DEF GenErased
    <3> QED
      BY <2>1, <3>1, BuilderSpares
  <2> QED
    BY <2>2, <2>3
<1>6. CASE GenVariable
  <2>1. pass = "gen"
    BY <1>6 DEF GenVariable, GenAt, At
  <2> DEFINE s == StorageAt(pc)
  <2>2. CASE s.kind = "argument"
    <3>1. Emit("argument", s.of)
      BY <1>6, <2>2 DEF GenVariable
    <3> HIDE DEF s
    <3> QED
      BY <2>1, <3>1, EmitSpares
  <2>3. CASE s.kind = "alloca"
    <3>1. Emit("load", s.of)
      BY <1>6, <2>3 DEF GenVariable
    <3> HIDE DEF s
    <3> QED
      BY <2>1, <3>1, EmitSpares
  <2>4. CASE s.kind = "none"
    BY <1>1, <1>6, <2>4 DEF GenVariable
  <2>5. s.kind \in {"none", "argument", "alloca"}
    <3>1. s = NoStorage \/ \E k \in DOMAIN storage : s = storage[k]
      BY DEF StorageAt, StorageOf
    <3> QED
      BY <3>1 DEF NoStorage, GInv, GenTypeOK
  <2> QED
    BY <2>2, <2>3, <2>4, <2>5
<1>7. CASE GenAssign
  <2>1. pass = "gen"
    BY <1>7 DEF GenAssign, GenAt, At
  <2>2. UNCHANGED module \/ \E of : Emit("store", of)
    BY <1>7 DEF GenAssign, Crash, genvars
  <2> QED
    BY <1>1, <2>1, <2>2, EmitSpares
<1>8. CASE GenEndCall
  <2>1. pass = "gen"
    BY <1>8 DEF GenEndCall, GenAt, At
  <2>2. UNCHANGED module \/ \E of : Emit("call", of)
    BY <1>8 DEF GenEndCall, Crash, genvars
  <2> QED
    BY <1>1, <2>1, <2>2, EmitSpares
<1> QED
  BY <1>2, <1>3, <1>4, <1>5, <1>6, <1>7, <1>8 DEF GenPass

(* DefinitionsSurvive holds: whatever a line does, fails at or redefines,  *)
(* the functions of earlier lines stay as they are (visitFunction returns  *)
(* at LlvmIrGenerator.cpp:99, what is erased is the open function and      *)
(* jitfunc), and so for every sequence of lines.                           *)
THEOREM DefinitionsAreKept == ReplSpec => DefinitionsSurvive
<1>1. ReplInv /\ [ReplNext]_everything => [OthersKept]_module
  <2> SUFFICES ASSUME ReplInv, [ReplNext]_everything, module' # module PROVE OthersKept
    OBVIOUS
  <2>1. ASSUME UNCHANGED genvars PROVE FALSE
    BY <2>1 DEF genvars
  <2>2. ~ Prompt
    BY <2>1 DEF Prompt, Quit, Flag, Abort, ReadLine, UnchangedPasses
  <2>3. ~ ShowOnly /\ ~ Refuse /\ ~ Transform /\ ~ InterpretNothing /\ ~ Reset /\ ~ ReplEnded
        /\ ~ UNCHANGED everything
    BY <2>1 DEF ShowOnly, Refuse, Transform, InterpretNothing, Reset, ReplEnded, UnchangedPasses,
       everything, allvars, genvars
  <2>4. CASE Passes
    <3>1. GenPass
      BY <2>1, <2>4 DEF Passes
    <3> QED
      BY <3>1, GenSpares DEF ReplInv, Spared, OthersKept
  <2>5. CASE Interpret
    <3>1. module' = [module EXCEPT !["jitfunc"] = Absent]
      BY <2>1, <2>5 DEF Interpret, Crash
    <3>2. module \in [Name -> Fn]
      BY ReplFacts
    <3> QED
      BY <3>1, <3>2 DEF OthersKept
  <2> QED
    BY <2>2, <2>3, <2>4, <2>5 DEF ReplNext, InLine
<1> QED
  BY <1>1, ReplInvariant, PTL DEF ReplSpec, DefinitionsSurvive

(* LineLeavesNothing holds: the prompt is reached without reset only by    *)
(* showing a line or by an exception in it (reset, ReplDriver.cpp:127).    *)
THEOREM NothingIsCarried == ReplSpec => LineLeavesNothing
<1>1. [ReplNext]_everything => [NothingCarried]_everything
  <2> SUFFICES ASSUME ReplNext, stage # "prompt", stage' = "prompt", permissions.do_compile
               PROVE  ~ Carried'
    BY DEF NothingCarried
  <2>1. ~ Prompt
    BY DEF Prompt
  <2>2. ~ ShowOnly /\ ~ Refuse /\ ~ Transform /\ ~ InterpretNothing /\ ~ Interpret
    BY DEF ShowOnly, Refuse, Transform, InterpretNothing, Interpret
  <2>3. ~ Passes /\ ~ ReplEnded
    BY DEF Passes, replvars, ReplEnded, everything
  <2>4. Reset
    BY <2>1, <2>2, <2>3 DEF ReplNext, InLine
  <2> QED
    BY <2>4 DEF Reset, Carried, ReplFailed, Failed
<1> QED
  BY <1>1, PTL DEF ReplSpec, LineLeavesNothing


(* ReferencesHold holds in every session: a tree that a line has left is   *)
(* gone with its def_tables, and no line takes a declaration away.         *)
THEOREM SessionReferencesHold == ReplSpec => []ReferencesHold
<1>1. ReplInit => References
  BY DEF ReplInit, References, ReferencesHold
<1>2. ReplInv /\ References /\ [ReplNext]_everything => References'
  <2> SUFFICES ASSUME ReplInv, References, [ReplNext]_everything PROVE References'
    OBVIOUS
  <2>1. CASE Passes
    BY <2>1, ReferencesThrough DEF Passes, ReplInv
  <2>2. CASE Transform
    BY <2>2, NoReferences DEF Transform
  <2>3. CASE Reset
    BY <2>3, NoReferences DEF Reset
  <2>4. CASE Prompt \/ ShowOnly \/ Refuse \/ InterpretNothing \/ Interpret \/ ReplEnded
             \/ UNCHANGED everything
    BY <2>4, ReferencesStay DEF Prompt, Quit, Flag, Abort, ReadLine, ShowOnly, Refuse,
       InterpretNothing, Interpret, Crash, ReplEnded, UnchangedPasses, everything, allvars, vars
  <2> QED
    BY <2>1, <2>2, <2>3, <2>4 DEF ReplNext, InLine
<1>3. References => ReferencesHold
  BY DEF References
<1> QED
  BY <1>1, <1>2, <1>3, ReplInvariant, PTL DEF ReplSpec


(* DeclarationsStay holds in every session: the declarations of earlier    *)
(* lines stay where they are in the arena that the lines share             *)
(* (AnalysisState, ReplDriver.cpp:130), whatever fails in between.         *)
THEOREM SessionDeclarationsAreKept == ReplSpec => DeclarationsStay
<1>1. ReplInv /\ [ReplNext]_everything => [Kept]_arena
  <2> SUFFICES ASSUME ReplInv, [ReplNext]_everything, arena' # arena PROVE Kept
    OBVIOUS
  <2>1. ~ Prompt /\ ~ ShowOnly /\ ~ Refuse /\ ~ Transform /\ ~ InterpretNothing /\ ~ Interpret
        /\ ~ Reset /\ ~ ReplEnded /\ ~ UNCHANGED everything
    BY DEF Prompt, Quit, Flag, Abort, ReadLine, ShowOnly, Refuse, Transform, InterpretNothing,
       Interpret, Crash, Reset, ReplEnded, UnchangedPasses, everything, allvars, vars
  <2>2. Passes
    BY <2>1 DEF ReplNext, InLine
  <2>3. DeclPass \/ RefPass
    BY <2>2, GenPassLeaves DEF Passes
  <2>4. pass \in {"decl", "ref"}
    BY <2>3 DEF DeclPass, RefPass, DeclFunction, DeclEndFunction, DeclArgument, DeclBlock,
       DeclEndBlock, DeclAssignName, DeclInAssign, DeclEndInAssign, DeclTypeAssign,
       DeclEndTypeAssign, DeclOther, DeclDone, RefBlock, RefEndBlock, RefFunction, RefEndFunction,
       RefVariable, RefAssign, RefAssignNoVariable, RefInAssign, RefEndInAssign, RefTypeAssign,
       RefEndTypeAssign, RefOther, RefDone, At
  <2>5. IInv
    BY <2>4 DEF ReplInv, GInv, Analysed
  <2> QED
    BY <2>3, <2>5, StepKeeps DEF Next
<1> QED
  BY <1>1, ReplInvariant, PTL DEF ReplSpec, DeclarationsStay
=============================================================================
