-------------------------- MODULE CollectorProofs ---------------------------
(***************************************************************************)
(* That the flow tables lose nothing and the reports are true, for any     *)
(* number of interfaces and keys, tables of any size and rounds of any     *)
(* length: what Collector's runs show on two interfaces and two keys.      *)
(***************************************************************************)
EXTENDS Collector, WellFoundedInduction, TLAPS

(* A table n, its lists l and the bytes w that came by.  Each list leads   *)
(* to the slots of its direction, once to each. *)
Led(n, l) ==
    \A dir \in Directions :
       /\ IsInjective(l[dir])
       /\ Range(l[dir]) = {s \in DOMAIN n : n[s].flow_direction = dir}

(* No two slots are of one flow. *)
Single(n) ==
    \A s, t \in DOMAIN n :
       n[s].flow_direction = n[t].flow_direction /\ n[s].key = n[t].key => s = t

(* A slot has all the bytes of its flow, modulo the word that counts them. *)
Whole(n, w) ==
    \A s \in DOMAIN n :
       /\ n[s].total_send = w[n[s].flow_direction][n[s].key] % Word
       /\ w[n[s].flow_direction][n[s].key] > 0

(* A flow that has bytes has a slot, unless the table is full. *)
Kept(n, w) ==
    \A dir \in Directions, key \in Keys :
       w[dir][key] > 0 =>
          \/ \E s \in DOMAIN n : n[s].flow_direction = dir /\ n[s].key = key
          \/ Len(n) + 1 = MaxFlow

Table(n, l, w) ==
    /\ n \in Seq(Flows) /\ Len(n) < MaxFlow
    /\ l \in [Directions -> Seq(Slots)]
    /\ w \in [Directions -> [Keys -> Nat]]
    /\ Led(n, l) /\ Single(n) /\ Whole(n, w) /\ Kept(n, w)

TablesInv ==
    /\ node \in [Interfaces -> Seq(Flows)]
    /\ list \in [Interfaces -> [Directions -> Seq(Slots)]]
    /\ wire \in [Interfaces -> [Directions -> [Keys -> Nat]]]
    /\ \A i \in Interfaces : Table(node[i], list[i], wire[i])

(* The counts a report divides: where there is a flow, it was sampled.     *)
CountsInv ==
    /\ total_packets \in [Interfaces -> Nat]
    /\ sampled_packets \in [Interfaces -> Nat]
    /\ full_rate \in [Interfaces -> BOOLEAN]
    /\ \A i \in Interfaces :
          /\ sampled_packets[i] <= total_packets[i]
          /\ node[i] # <<>> => sampled_packets[i] > 0

RoundInv ==
    /\ Round!TypeOK
    /\ todo \in 0 .. 2 * Size
    /\ mode = "capture" => todo = 0

(* What is not reported yet is not in the inbox. *)
ReportTypes ==
    /\ report \in [Interfaces -> Seq(Entries)]
    /\ inbox = [i \in Interfaces |-> inbox[i]]
    /\ \A i \in Interfaces :
          /\ inbox[i] \in {NoReport, Message(report[i])}
          /\ todo <= i => report[i] = NoReport /\ inbox[i] = NoReport

TrueReports == RateNeverZero /\ ReportsAreTrue /\ InputIsAReceiver

CollectorInv ==
    TablesInv /\ CountsInv /\ RoundInv /\ ReportTypes /\ TrueReports

-----------------------------------------------------------------------------
(* The first of a set of positions, which SelectInSeq looks for, exists.   *)
LEMMA Smallest ==
  ASSUME NEW S \in SUBSET Nat, S # {}
  PROVE  Min(S) \in S
<1> DEFINE R == {ss \in Nat \X Nat : ss[1] < ss[2]}
<1>1. IsWellFoundedOn(R, Nat)
  BY NatLessThanWellFounded, Zenon DEF OpToRel
<1> HIDE DEF R
<1>2. PICK x \in S : \A y \in S : ~(<<y, x>> \in R)
  BY <1>1, WFMin
<1>3. \A y \in S : x <= y
  <2> SUFFICES ASSUME NEW y \in S PROVE x <= y
    OBVIOUS
  <2>1. <<y, x>> \notin R
    BY <1>2
  <2> QED BY <2>1 DEF R
<1> QED BY <1>3 DEF Min

(* A remainder is known by its quotient. *)
LEMMA Remainder ==
  ASSUME NEW c \in Nat \ {0}, NEW x \in Int, NEW k \in Int, NEW r \in 0 .. c - 1,
         x = c * k + r
  PROVE  x % c = r
<1> DEFINE l == x \div c
           s == x % c
<1>1. l \in Int /\ s \in 0 .. c - 1 /\ x = c * l + s
  BY Z3
<1> HIDE DEF l, s
<1>2. c * k + r = c * l + s
  BY <1>1
<1>3. k - l \in Int /\ c * (k - l) = s - r
  BY <1>1, <1>2
<1>4. CASE k - l >= 1
  <2>1. c * (k - l) >= c
    BY <1>1, <1>4
  <2> QED BY <1>1, <1>3, <2>1
<1>5. CASE k - l <= -1
  <2>1. c * (k - l) <= -c
    BY <1>1, <1>5
  <2> QED BY <1>1, <1>3, <2>1
<1>6. CASE k - l = 0
  <2>1. k = l
    BY <1>1, <1>6
  <2>2. s = r
    BY <1>1, <1>2, <2>1
  <2> QED BY <2>2 DEF s
<1> QED BY <1>1, <1>4, <1>5, <1>6

(* A word that counts up holds the sum modulo the word.                    *)
LEMMA WordAdds ==
  ASSUME NEW c \in Nat \ {0}, NEW a \in Nat, NEW b \in Nat
  PROVE  /\ a % c \in 0 .. c - 1
         /\ ((a % c) + b) % c = (a + b) % c
         /\ a < c => a % c = a
<1> DEFINE r == a % c
           k == a \div c
           s == (r + b) % c
           l == (r + b) \div c
<1>1. k \in Int /\ r \in 0 .. c - 1 /\ a = c * k + r
  OBVIOUS
<1> HIDE DEF r, k
<1>2. l \in Int /\ s \in 0 .. c - 1 /\ r + b = c * l + s
  BY <1>1
<1> HIDE DEF s, l
<1>3. a + b = c * (k + l) + s
  <2>1. c * (k + l) = c * k + c * l
    BY <1>1, <1>2
  <2>2. c * k \in Int /\ c * l \in Int
    BY <1>1, <1>2
  <2> QED BY <1>1, <1>2, <2>1, <2>2
<1>4. (a + b) % c = s
  <2>1. a + b \in Int /\ k + l \in Int
    BY <1>1, <1>2
  <2> QED BY <1>2, <1>3, <2>1, Remainder
<1>5. ASSUME a < c PROVE a % c = a
  <2>1. a \in 0 .. c - 1 /\ a = c * 0 + a /\ 0 \in Int
    BY <1>5
  <2> QED BY <2>1, Remainder
<1> QED BY <1>1, <1>4, <1>5 DEF r, s

(* Two lists, one after the other. *)
LEMMA Joined ==
  ASSUME NEW s \in Seq(Slots), NEW t \in Seq(Slots)
  PROVE  /\ s \o t \in Seq(Slots)
         /\ Range(s \o t) = Range(s) \cup Range(t)
         /\ IsInjective(s) /\ IsInjective(t) /\ Range(s) \cap Range(t) = {}
              => IsInjective(s \o t)
<1>1. /\ s \o t \in Seq(Slots) /\ Len(s \o t) = Len(s) + Len(t)
      /\ DOMAIN (s \o t) = 1 .. Len(s) + Len(t)
      /\ DOMAIN s = 1 .. Len(s) /\ DOMAIN t = 1 .. Len(t)
      /\ Len(s) \in Nat /\ Len(t) \in Nat
  OBVIOUS
<1>2. \A k \in 1 .. Len(s) + Len(t) :
         (s \o t)[k] = IF k <= Len(s) THEN s[k] ELSE t[k - Len(s)]
  OBVIOUS
<1> DEFINE st == s \o t
<1> HIDE DEF st
<1>3. Range(st) = Range(s) \cup Range(t)
  <2>1. ASSUME NEW x \in Range(st) PROVE x \in Range(s) \cup Range(t)
    <3>1. PICK k \in 1 .. Len(s) + Len(t) : x = st[k]
      BY <1>1 DEF Range, st
    <3>2. k <= Len(s) \/ k - Len(s) \in 1 .. Len(t)
      BY <1>1
    <3> QED BY <1>1, <1>2, <3>1, <3>2 DEF Range, st
  <2>2. ASSUME NEW x \in Range(s) PROVE x \in Range(st)
    <3>1. PICK k \in 1 .. Len(s) : x = s[k]
      BY <1>1 DEF Range
    <3>2. k \in 1 .. Len(s) + Len(t) /\ st[k] = x
      BY <1>1, <1>2, <3>1 DEF st
    <3> QED BY <1>1, <3>2 DEF Range, st
  <2>3. ASSUME NEW x \in Range(t) PROVE x \in Range(st)
    <3>1. PICK k \in 1 .. Len(t) : x = t[k]
      BY <1>1 DEF Range
    <3>2. k + Len(s) \in 1 .. Len(s) + Len(t) /\ st[k + Len(s)] = x
      BY <1>1, <1>2, <3>1 DEF st
    <3> QED BY <1>1, <3>2 DEF Range, st
  <2> QED BY <2>1, <2>2, <2>3
<1>4. ASSUME IsInjective(s), IsInjective(t), Range(s) \cap Range(t) = {}
      PROVE  IsInjective(st)
  <2> SUFFICES ASSUME NEW a \in 1 .. Len(s) + Len(t),
                      NEW b \in 1 .. Len(s) + Len(t), st[a] = st[b]
               PROVE  a = b
    BY <1>1 DEF IsInjective, st
  <2>1. CASE a <= Len(s) /\ b <= Len(s)
    BY <1>1, <1>2, <1>4, <2>1 DEF IsInjective, st
  <2>2. CASE a > Len(s) /\ b > Len(s)
    <3>1. t[a - Len(s)] = t[b - Len(s)] /\ a - Len(s) \in 1 .. Len(t)
          /\ b - Len(s) \in 1 .. Len(t)
      BY <1>1, <1>2, <2>2 DEF st
    <3>2. a - Len(s) = b - Len(s)
      BY <1>1, <1>4, <3>1 DEF IsInjective
    <3> QED BY <1>1, <3>2
  <2>3. ASSUME NEW k \in 1 .. Len(s), NEW l \in 1 .. Len(t) PROVE s[k] # t[l]
    BY <1>1, <1>4 DEF Range
  <2>4. CASE a <= Len(s) /\ b > Len(s)
    BY <1>1, <1>2, <2>3, <2>4 DEF st
  <2>5. CASE a > Len(s) /\ b <= Len(s)
    BY <1>1, <1>2, <2>3, <2>5 DEF st
  <2> QED BY <1>1, <2>1, <2>2, <2>4, <2>5
<1> QED BY <1>1, <1>3, <1>4 DEF st

(* One more element. *)
LEMMA Appended ==
  ASSUME NEW S, NEW s \in Seq(S), NEW x \in S, x \notin Range(s),
         IsInjective(s)
  PROVE  /\ IsInjective(Append(s, x))
         /\ Range(Append(s, x)) = Range(s) \cup {x}
<1> DEFINE sx == Append(s, x)
<1>1. /\ DOMAIN s = 1 .. Len(s) /\ Len(s) \in Nat
      /\ DOMAIN sx = 1 .. Len(s) + 1 /\ sx[Len(s) + 1] = x
      /\ \A k \in 1 .. Len(s) : sx[k] = s[k]
  OBVIOUS
<1> HIDE DEF sx
<1>2. 1 .. Len(s) + 1 = (1 .. Len(s)) \cup {Len(s) + 1}
  BY <1>1
<1>3. Range(sx) = Range(s) \cup {x}
  BY <1>1, <1>2 DEF Range
<1>4. \A k \in 1 .. Len(s) : s[k] # x
  BY <1>1 DEF Range
<1>5. IsInjective(sx)
  BY <1>1, <1>2, <1>4 DEF IsInjective
<1> QED BY <1>3, <1>5 DEF sx

-----------------------------------------------------------------------------
(* The search.  What LookUp and ipv4_search answer in a table that is as   *)
(* it should be: a slot of the flow, if there is one.                      *)
LEMMA Found ==
  ASSUME NEW i, NEW dir, NEW flow
  PROVE  LET at == {n \in 1 .. Len(list[i][dir]) :
                       node[i][list[i][dir][n]].key = flow.key}
         IN  LookUp(i, dir, flow) = IF at # {} THEN Min(at) ELSE 0
BY Zenon DEF LookUp, SelectInSeq, ipv4_policy_compare

(* LookUp finds a position of the list iff some slot is of this flow.      *)
LEMMA LookUpFinds ==
  ASSUME NEW i, Table(node[i], list[i], wire[i]),
         NEW dir \in Directions, NEW flow
  PROVE  LET p == LookUp(i, dir, flow)
             OfFlow(s) == node[i][s].flow_direction = dir
                          /\ node[i][s].key = flow.key
         IN  /\ p # 0 => /\ list[i][dir][p] \in DOMAIN node[i]
                         /\ OfFlow(list[i][dir][p])
             /\ p = 0 => \A s \in DOMAIN node[i] : ~OfFlow(s)
<1> DEFINE at == {n \in 1 .. Len(list[i][dir]) :
                    node[i][list[i][dir][n]].key = flow.key}
           p == LookUp(i, dir, flow)
<1>1. p = IF at # {} THEN Min(at) ELSE 0
  BY Found
<1>2. list[i][dir] \in Seq(Slots)
      /\ Range(list[i][dir]) =
           {s \in DOMAIN node[i] : node[i][s].flow_direction = dir}
  BY DEF Table, Led
<1>3. DOMAIN list[i][dir] = 1 .. Len(list[i][dir])
  BY <1>2
<1> HIDE DEF p
<1>4. at \in SUBSET Nat /\ 0 \notin at
  OBVIOUS
<1>5. CASE at # {}
  <2>1. p \in at /\ p # 0
    BY <1>1, <1>4, <1>5, Smallest
  <2>2. list[i][dir][p] \in Range(list[i][dir])
    BY <1>3, <2>1 DEF Range
  <2> QED BY <1>2, <2>1, <2>2 DEF p
<1>6. CASE at = {}
  <2>1. p = 0
    BY <1>1, <1>6
  <2>2. ASSUME NEW s \in DOMAIN node[i], node[i][s].flow_direction = dir,
               node[i][s].key = flow.key
        PROVE  FALSE
    <3>1. s \in Range(list[i][dir])
      BY <1>2, <2>2
    <3>2. PICK k \in 1 .. Len(list[i][dir]) : list[i][dir][k] = s
      BY <1>3, <3>1 DEF Range
    <3> QED BY <1>6, <2>2, <3>2
  <2> QED BY <2>1, <2>2 DEF p
<1> QED BY <1>5, <1>6

(* So ipv4_search returns the slot of the flow, or 0 if it has none.       *)
LEMMA SearchFinds ==
  ASSUME NEW i, Table(node[i], list[i], wire[i]),
         NEW flow, flow.flow_direction \in Directions
  PROVE  LET slot == ipv4_search(i, flow)
             OfFlow(s) == node[i][s].flow_direction = flow.flow_direction
                          /\ node[i][s].key = flow.key
         IN  /\ slot # 0 => slot \in DOMAIN node[i] /\ OfFlow(slot)
             /\ slot = 0 => \A s \in DOMAIN node[i] : ~OfFlow(s)
<1> DEFINE dir == flow.flow_direction
           p == LookUp(i, dir, flow)
<1>1. ipv4_search(i, flow) = IF p = 0 THEN 0 ELSE list[i][dir][p]
  BY DEF ipv4_search
<1>2. /\ p # 0 => /\ list[i][dir][p] \in DOMAIN node[i]
                  /\ node[i][list[i][dir][p]].flow_direction = dir
                  /\ node[i][list[i][dir][p]].key = flow.key
      /\ p = 0 => \A s \in DOMAIN node[i] :
                     ~(node[i][s].flow_direction = dir
                       /\ node[i][s].key = flow.key)
  BY LookUpFinds
<1>3. 0 \notin DOMAIN node[i]
  BY DEF Table
<1> QED BY <1>1, <1>2, <1>3

-----------------------------------------------------------------------------
(* The elements of a table. *)
LEMMA TableTypes ==
  ASSUME NEW n, NEW l, NEW w, Table(n, l, w)
  PROVE  /\ DOMAIN n = 1 .. Len(n) /\ Len(n) \in Nat
         /\ \A s \in DOMAIN n :
               /\ n[s] \in Flows
               /\ n[s].flow_direction \in Directions /\ n[s].key \in Keys
<1>1. n \in Seq(Flows)
  BY DEF Table
<1>2. DOMAIN n = 1 .. Len(n) /\ Len(n) \in Nat
  BY <1>1
<1>3. \A s \in DOMAIN n : n[s] \in Flows
  BY <1>1, <1>2
<1>4. \A flow \in Flows : flow.flow_direction \in Directions
                          /\ flow.key \in Keys
  BY DEF Flows
<1> QED BY <1>2, <1>3, <1>4

(* What the operations make of a table.  Cleared: *)
LEMMA TableEmpty == Table(<<>>, NoFlows, NoBytes)
<1>1. DOMAIN <<>> = {} /\ Len(<<>>) = 0 /\ <<>> \in Seq(Flows)
      /\ <<>> \in Seq(Slots)
  OBVIOUS
<1>2. \A dir \in Directions : NoFlows[dir] = <<>>
  BY DEF NoFlows
<1>3. \A dir \in Directions, key \in Keys : NoBytes[dir][key] = 0
  BY DEF NoBytes
<1>4. IsInjective(<<>>) /\ Range(<<>>) = {}
  BY <1>1 DEF IsInjective, Range
<1>5. NoFlows \in [Directions -> Seq(Slots)]
  BY <1>1 DEF NoFlows
<1>6. NoBytes \in [Directions -> [Keys -> Nat]]
  BY DEF NoBytes
<1>7. Led(<<>>, NoFlows)
  BY <1>1, <1>2, <1>4 DEF Led
<1>8. Single(<<>>) /\ Whole(<<>>, NoBytes)
  BY <1>1 DEF Single, Whole
<1>9. Kept(<<>>, NoBytes)
  BY <1>3 DEF Kept
<1>10. 0 < MaxFlow
  BY TableAssumption
<1> QED BY <1>1, <1>5, <1>6, <1>7, <1>8, <1>9, <1>10 DEF Table

(* A change of the interfaces that a flow came in and went out by is none  *)
(* to the table.                                                           *)
LEMMA TableSame ==
  ASSUME NEW n, NEW l, NEW w, Table(n, l, w),
         NEW m \in Seq(Flows), Len(m) = Len(n),
         \A s \in DOMAIN n : /\ m[s].key = n[s].key
                             /\ m[s].flow_direction = n[s].flow_direction
                             /\ m[s].total_send = n[s].total_send
  PROVE  Table(m, l, w)
<1>1. DOMAIN m = DOMAIN n
  BY DEF Table
<1>2. \A dir : {s \in DOMAIN m : m[s].flow_direction = dir}
               = {s \in DOMAIN n : n[s].flow_direction = dir}
  BY <1>1
<1>3. Led(m, l)
  BY <1>2 DEF Table, Led
<1>4. Single(m)
  BY <1>1 DEF Table, Single
<1>5. Whole(m, w)
  BY <1>1 DEF Table, Whole
<1>6. Kept(m, w)
  <2> SUFFICES ASSUME NEW dir \in Directions, NEW key \in Keys,
                      w[dir][key] > 0
               PROVE  \/ \E s \in DOMAIN m : m[s].flow_direction = dir
                                             /\ m[s].key = key
                      \/ Len(m) + 1 = MaxFlow
    BY DEF Kept
  <2>1. \/ \E s \in DOMAIN n : n[s].flow_direction = dir /\ n[s].key = key
        \/ Len(n) + 1 = MaxFlow
    BY DEF Table, Kept
  <2> QED BY <1>1, <2>1
<1> QED BY <1>3, <1>4, <1>5, <1>6 DEF Table

(* More bytes for the flow of a slot: ipv4_update. *)
LEMMA TableUpdate ==
  ASSUME NEW n, NEW l, NEW w, Table(n, l, w),
         NEW slot \in DOMAIN n, NEW len \in Nat \ {0},
         NEW dir \in Directions, NEW key \in Keys,
         n[slot].flow_direction = dir, n[slot].key = key
  PROVE  Table([n EXCEPT ![slot].total_send = (@ + len) % Word], l,
               [w EXCEPT ![dir][key] = @ + len])
<1> DEFINE m == [n EXCEPT ![slot].total_send = (@ + len) % Word]
           v == [w EXCEPT ![dir][key] = @ + len]
           sum == (n[slot].total_send + len) % Word
           flow == [n[slot] EXCEPT !.total_send = (@ + len) % Word]
<1>1. n \in Seq(Flows) /\ DOMAIN n = 1 .. Len(n) /\ Len(n) \in Nat
      /\ w \in [Directions -> [Keys -> Nat]]
  BY DEF Table
<1>2. /\ n[slot] \in Flows
      /\ w[dir][key] \in Nat /\ w[dir][key] > 0
      /\ n[slot].total_send = w[dir][key] % Word
  BY <1>1, TableTypes DEF Table, Whole
<1>2a. sum = (w[dir][key] + len) % Word /\ sum \in 0 .. Word - 1
  <2> DEFINE a == w[dir][key]
  <2>1. a \in Nat /\ a + len \in Nat
    BY <1>2
  <2> HIDE DEF a
  <2>2. ((a % Word) + len) % Word = (a + len) % Word
        /\ (a + len) % Word \in 0 .. Word - 1
    BY <2>1, WordAdds, WordAssumption
  <2> QED BY <1>2, <2>2 DEF a
<1> HIDE DEF sum
<1>2b. flow = [n[slot] EXCEPT !.total_send = sum]
  BY DEF sum
<1>3. /\ flow \in Flows
      /\ flow.key = key /\ flow.flow_direction = dir
      /\ flow.total_send = sum
  <2> HIDE DEF flow
  <2> QED BY <1>2, <1>2a, <1>2b DEF Flows
<1>4. m = [n EXCEPT ![slot] = flow]
  OBVIOUS
<1>5. /\ v \in [Directions -> [Keys -> Nat]]
      /\ v[dir][key] = w[dir][key] + len
      /\ \A d \in Directions, k \in Keys :
            d # dir \/ k # key => v[d][k] = w[d][k]
  BY <1>1
<1> HIDE DEF flow, v, m
<1>6. /\ m \in Seq(Flows) /\ Len(m) = Len(n) /\ DOMAIN m = DOMAIN n
      /\ m[slot] = flow
      /\ \A s \in DOMAIN n : s # slot => m[s] = n[s]
  BY <1>1, <1>3, <1>4
<1>7. \A s \in DOMAIN n : m[s].key = n[s].key
                          /\ m[s].flow_direction = n[s].flow_direction
  BY <1>3, <1>6
<1>8. Led(m, l)
  <2>1. \A d : {s \in DOMAIN m : m[s].flow_direction = d}
               = {s \in DOMAIN n : n[s].flow_direction = d}
    BY <1>6, <1>7
  <2> QED BY <2>1 DEF Table, Led
<1>9. Single(m)
  BY <1>6, <1>7 DEF Table, Single
<1>10. Whole(m, v)
  <2> SUFFICES ASSUME NEW s \in DOMAIN n
               PROVE  LET b == v[m[s].flow_direction][m[s].key]
                      IN  m[s].total_send = b % Word /\ b > 0
    BY <1>6 DEF Whole
  <2>1. n[s].total_send = w[n[s].flow_direction][n[s].key] % Word
        /\ w[n[s].flow_direction][n[s].key] > 0
    BY DEF Table, Whole
  <2>2. CASE s = slot
    <3>1. m[s].flow_direction = dir /\ m[s].key = key /\ m[s].total_send = sum
      BY <1>3, <1>6, <2>2
    <3>2. v[dir][key] = w[dir][key] + len /\ v[dir][key] > 0
      BY <1>2, <1>5
    <3> QED BY <1>2a, <3>1, <3>2
  <2>3. CASE s # slot
    <3>1. n[s].flow_direction \in Directions /\ n[s].key \in Keys
      BY TableTypes
    <3>2. n[s].flow_direction # dir \/ n[s].key # key
      BY <2>3 DEF Table, Single
    <3>3. v[n[s].flow_direction][n[s].key] = w[n[s].flow_direction][n[s].key]
      BY <1>5, <3>1, <3>2
    <3> QED BY <1>6, <2>1, <2>3, <3>3
  <2> QED BY <2>2, <2>3
<1>11. Kept(m, v)
  <2> SUFFICES ASSUME NEW d \in Directions, NEW k \in Keys, v[d][k] > 0
               PROVE  \/ \E s \in DOMAIN m :
                            m[s].flow_direction = d /\ m[s].key = k
                      \/ Len(m) + 1 = MaxFlow
    BY DEF Kept
  <2>1. CASE d = dir /\ k = key
    BY <1>3, <1>6, <2>1
  <2>2. CASE d # dir \/ k # key
    <3>1. w[d][k] > 0
      BY <1>5, <2>2
    <3>2. \/ \E s \in DOMAIN n : n[s].flow_direction = d /\ n[s].key = k
          \/ Len(n) + 1 = MaxFlow
      BY <3>1 DEF Table, Kept
    <3> QED BY <1>6, <1>7, <3>2
  <2> QED BY <2>1, <2>2
<1>12. Table(m, l, v)
  BY <1>5, <1>6, <1>8, <1>9, <1>10, <1>11 DEF Table
<1> QED BY <1>12 DEF m, v

(* More bytes on the wire, for a flow that has no slot. *)
LEMMA WireGrows ==
  ASSUME NEW w \in [Directions -> [Keys -> Nat]], NEW flow \in Flows
  PROVE  LET dir == flow.flow_direction
             key == flow.key
             v   == [w EXCEPT ![dir][key] = @ + flow.total_send]
         IN  /\ dir \in Directions /\ key \in Keys
             /\ v \in [Directions -> [Keys -> Nat]]
             /\ v[dir][key] = w[dir][key] + flow.total_send
             /\ \A d \in Directions, k \in Keys :
                   d # dir \/ k # key => v[d][k] = w[d][k]
<1>1. flow.flow_direction \in Directions /\ flow.key \in Keys
      /\ flow.total_send \in Nat
  BY WordAssumption DEF Flows
<1> QED BY <1>1

(* A new flow that finds the table full is left out: ipv4_add. *)
LEMMA TableFull ==
  ASSUME NEW n, NEW l, NEW w, Table(n, l, w),
         NEW flow \in Flows, Len(n) + 1 = MaxFlow,
         \A s \in DOMAIN n : ~(/\ n[s].flow_direction = flow.flow_direction
                               /\ n[s].key = flow.key)
  PROVE  Table(n, l, [w EXCEPT ![flow.flow_direction][flow.key] =
                                 @ + flow.total_send])
<1> DEFINE dir == flow.flow_direction
           key == flow.key
           v   == [w EXCEPT ![dir][key] = @ + flow.total_send]
<1>1. /\ v \in [Directions -> [Keys -> Nat]]
      /\ \A d \in Directions, k \in Keys :
            d # dir \/ k # key => v[d][k] = w[d][k]
  BY WireGrows DEF Table
<1> HIDE DEF v
<1>2. Kept(n, v)
  BY DEF Kept
<1>3. Whole(n, v)
  <2> SUFFICES ASSUME NEW s \in DOMAIN n
               PROVE  LET b == v[n[s].flow_direction][n[s].key]
                      IN  n[s].total_send = b % Word /\ b > 0
    BY DEF Whole
  <2>1. n[s].total_send = w[n[s].flow_direction][n[s].key] % Word
        /\ w[n[s].flow_direction][n[s].key] > 0
    BY DEF Table, Whole
  <2>2. n[s].flow_direction \in Directions /\ n[s].key \in Keys
    BY TableTypes
  <2> QED BY <1>1, <2>1, <2>2
<1>4. Table(n, l, v)
  BY <1>1, <1>2, <1>3 DEF Table
<1> QED BY <1>4 DEF v

(* A new flow that finds a slot is put there, and in the list of its       *)
(* direction: ipv4_add.                                                    *)
LEMMA TableAdd ==
  ASSUME NEW n, NEW l, NEW w, Table(n, l, w),
         NEW flow \in Flows, flow.total_send > 0, Len(n) + 1 # MaxFlow,
         \A s \in DOMAIN n : ~(/\ n[s].flow_direction = flow.flow_direction
                               /\ n[s].key = flow.key)
  PROVE  Table(Append(n, flow),
               [l EXCEPT ![flow.flow_direction] = Append(@, Len(n) + 1)],
               [w EXCEPT ![flow.flow_direction][flow.key] =
                           @ + flow.total_send])
<1> DEFINE dir == flow.flow_direction
           key == flow.key
           top == Len(n) + 1
           m   == Append(n, flow)
           ll  == [l EXCEPT ![dir] = Append(@, top)]
           v   == [w EXCEPT ![dir][key] = @ + flow.total_send]
<1>1. /\ dir \in Directions /\ key \in Keys
      /\ w \in [Directions -> [Keys -> Nat]]
      /\ v \in [Directions -> [Keys -> Nat]]
      /\ v[dir][key] = w[dir][key] + flow.total_send
      /\ \A d \in Directions, k \in Keys :
            d # dir \/ k # key => v[d][k] = w[d][k]
  BY WireGrows DEF Table
<1>2. /\ n \in Seq(Flows) /\ DOMAIN n = 1 .. Len(n) /\ Len(n) \in Nat
      /\ Len(n) < MaxFlow
      /\ l \in [Directions -> Seq(Slots)]
  BY DEF Table
<1>3. top \in Slots /\ top \notin DOMAIN n
  BY <1>2, TableAssumption DEF Slots
<1>4. /\ m \in Seq(Flows) /\ Len(m) = top /\ DOMAIN m = DOMAIN n \cup {top}
      /\ m[top] = flow
      /\ \A s \in DOMAIN n : m[s] = n[s]
  BY <1>2
<1>5. ll \in [Directions -> Seq(Slots)]
      /\ ll[dir] = Append(l[dir], top)
      /\ \A d \in Directions : d # dir => ll[d] = l[d]
  BY <1>1, <1>2, <1>3
<1>6. w[dir][key] = 0
  <2>1. w[dir][key] \in Nat
    BY <1>1
  <2>2. dir \in Directions /\ key \in Keys
    BY <1>1
  <2>3. Kept(n, w)
    BY DEF Table
  <2> HIDE DEF v, m, ll
  <2>4. ~(w[dir][key] > 0)
    BY <2>2, <2>3 DEF Kept
  <2> QED BY <2>1, <2>4
<1>7. flow.total_send \in Nat /\ flow.total_send % Word = flow.total_send
  <2> DEFINE a == flow.total_send
  <2>1. a \in Nat /\ a < Word
    BY WordAssumption DEF Flows
  <2> HIDE DEF a
  <2>2. a % Word = a
    BY <2>1, WordAdds, WordAssumption
  <2> QED BY <2>1, <2>2 DEF a
<1> HIDE DEF m, ll, v
<1>8. Led(m, ll)
  <2> SUFFICES ASSUME NEW d \in Directions
               PROVE  /\ IsInjective(ll[d])
                      /\ Range(ll[d]) =
                            {s \in DOMAIN m : m[s].flow_direction = d}
    BY DEF Led
  <2>1. /\ IsInjective(l[d]) /\ l[d] \in Seq(Slots)
        /\ Range(l[d]) = {s \in DOMAIN n : n[s].flow_direction = d}
    BY <1>2 DEF Table, Led
  <2>2. CASE d = dir
    <3>1. top \notin Range(l[d])
      BY <1>3, <2>1
    <3>2. IsInjective(Append(l[d], top))
          /\ Range(Append(l[d], top)) = Range(l[d]) \cup {top}
      BY <1>3, <2>1, <3>1, Appended
    <3>3. {s \in DOMAIN m : m[s].flow_direction = d}
            = {s \in DOMAIN n : n[s].flow_direction = d} \cup {top}
      BY <1>4, <2>2
    <3> QED BY <1>5, <2>1, <2>2, <3>2, <3>3
  <2>3. CASE d # dir
    <3>1. {s \in DOMAIN m : m[s].flow_direction = d}
            = {s \in DOMAIN n : n[s].flow_direction = d}
      BY <1>4, <2>3
    <3> QED BY <1>5, <2>1, <2>3, <3>1
  <2> QED BY <2>2, <2>3
<1>9. Single(m)
  <2> SUFFICES ASSUME NEW s \in DOMAIN m, NEW t \in DOMAIN m,
                      m[s].flow_direction = m[t].flow_direction,
                      m[s].key = m[t].key
               PROVE  s = t
    BY DEF Single
  <2>1. CASE s \in DOMAIN n /\ t \in DOMAIN n
    BY <1>4, <2>1 DEF Table, Single
  <2>2. CASE s = top \/ t = top
    BY <1>4, <2>2
  <2> QED BY <1>4, <2>1, <2>2
<1>10. Whole(m, v)
  <2> SUFFICES ASSUME NEW s \in DOMAIN m
               PROVE  LET b == v[m[s].flow_direction][m[s].key]
                      IN  m[s].total_send = b % Word /\ b > 0
    BY DEF Whole
  <2>1. CASE s = top
    BY <1>1, <1>4, <1>6, <1>7, <2>1
  <2>2. CASE s \in DOMAIN n
    <3>1. n[s].total_send = w[n[s].flow_direction][n[s].key] % Word
          /\ w[n[s].flow_direction][n[s].key] > 0
      BY <2>2 DEF Table, Whole
    <3>2. n[s].flow_direction \in Directions /\ n[s].key \in Keys
      BY <2>2, TableTypes
    <3>3. n[s].flow_direction # dir \/ n[s].key # key
      BY <2>2
    <3>4. v[n[s].flow_direction][n[s].key] = w[n[s].flow_direction][n[s].key]
      BY <1>1, <3>2, <3>3
    <3>5. m[s] = n[s]
      BY <1>4, <2>2
    <3> QED BY <3>1, <3>4, <3>5
  <2> QED BY <1>4, <2>1, <2>2
<1>11. Kept(m, v)
  <2> SUFFICES ASSUME NEW d \in Directions, NEW k \in Keys, v[d][k] > 0
               PROVE  \E s \in DOMAIN m :
                         m[s].flow_direction = d /\ m[s].key = k
    BY DEF Kept
  <2>1. CASE d = dir /\ k = key
    BY <1>4, <2>1
  <2>2. CASE d # dir \/ k # key
    <3>1. w[d][k] > 0
      BY <1>1, <2>2
    <3>2. \E s \in DOMAIN n : n[s].flow_direction = d /\ n[s].key = k
      BY <3>1 DEF Table, Kept
    <3> QED BY <1>4, <3>2
  <2> QED BY <2>1, <2>2
<1>12. Len(m) < MaxFlow
  BY <1>2, <1>4, TableAssumption
<1>13. Table(m, ll, v)
  BY <1>1, <1>4, <1>5, <1>8, <1>9, <1>10, <1>11, <1>12 DEF Table
<1> QED BY <1>13 DEF m, ll, v

-----------------------------------------------------------------------------
(* The steps.  A step that changes one table only, to another one that is  *)
(* as it should be. *)
LEMMA OneTable ==
  ASSUME TablesInv, NEW i \in Interfaces, NEW n, NEW l, NEW w, Table(n, l, w),
         node' = [node EXCEPT ![i] = n], list' = [list EXCEPT ![i] = l],
         wire' = [wire EXCEPT ![i] = w]
  PROVE  TablesInv'
<1>1. /\ n \in Seq(Flows)
      /\ l \in [Directions -> Seq(Slots)]
      /\ w \in [Directions -> [Keys -> Nat]]
  BY DEF Table
<1>2. /\ node' \in [Interfaces -> Seq(Flows)]
      /\ list' \in [Interfaces -> [Directions -> Seq(Slots)]]
      /\ wire' \in [Interfaces -> [Directions -> [Keys -> Nat]]]
  BY <1>1 DEF TablesInv
<1>3. /\ node'[i] = n /\ list'[i] = l /\ wire'[i] = w
      /\ \A j \in Interfaces \ {i} :
            node'[j] = node[j] /\ list'[j] = list[j] /\ wire'[j] = wire[j]
  BY DEF TablesInv
<1>4. \A j \in Interfaces : Table(node'[j], list'[j], wire'[j])
  BY <1>3 DEF TablesInv
<1> QED BY <1>2, <1>4 DEF TablesInv

(* The flow of a frame. *)
LEMMA FrameFlow ==
  ASSUME NEW i \in Interfaces, NEW frame \in Frames
  PROVE  /\ ipv4_operate(i, frame) \in Flows
         /\ ipv4_operate(i, frame).flow_direction \in Directions
         /\ ipv4_operate(i, frame).total_send \in Nat \ {0}
<1>1. /\ frame.key \in Keys /\ frame.len \in Nat \ {0}
      /\ frame.len \in 0 .. Word - 1
  <2>1. frame.key \in Keys /\ frame.len \in Lengths
    BY DEF Frames
  <2>2. frame.len \in 1 .. Word - 1
    BY <2>1, LengthsAssumption
  <2> QED BY <2>1, <2>2, WordAssumption
<1>2. flow_direction(i, frame) \in Directions
  BY DEF flow_direction, Directions
<1>3. ifindex(i) \in Int /\ 0 \in Int
  BY SizeAssumption DEF Interfaces, ifindex
<1> QED BY <1>1, <1>2, <1>3 DEF ipv4_operate, Flows

(* analysis_module leaves the table as it should be. *)
LEMMA AnalyseTables ==
  ASSUME TablesInv, NEW i \in Interfaces, NEW frame \in Frames,
         Analyse(i, frame)
  PROVE  TablesInv'
<1>1. CASE frame.ip_v # 4
  BY <1>1 DEF Analyse, TablesInv
<1>2. CASE frame.ip_v = 4
  <2> DEFINE flow == ipv4_operate(i, frame)
             dir  == flow.flow_direction
             slot == ipv4_search(i, flow)
             len  == flow.total_send
             v    == [wire[i] EXCEPT ![dir][flow.key] = @ + len]
  <2>1. flow \in Flows /\ dir \in Directions /\ len \in Nat \ {0}
        /\ flow.key \in Keys
    BY FrameFlow DEF Flows
  <2>2. Table(node[i], list[i], wire[i])
    BY DEF TablesInv
  <2>3. /\ slot # 0 => /\ slot \in DOMAIN node[i]
                       /\ node[i][slot].flow_direction = dir
                       /\ node[i][slot].key = flow.key
        /\ slot = 0 => \A s \in DOMAIN node[i] :
                          ~(node[i][s].flow_direction = dir
                            /\ node[i][s].key = flow.key)
    BY <2>1, <2>2, SearchFinds
  <2>4. /\ IF slot = 0 THEN ipv4_add(i, flow) ELSE ipv4_update(i, slot, flow)
        /\ wire' = [wire EXCEPT ![i][dir][flow.key] = @ + len]
    BY <1>2 DEF Analyse
  <2>5. wire' = [wire EXCEPT ![i] = v]
    BY <2>4
  <2> HIDE DEF flow, slot, v
  <2>6. CASE slot # 0
    <3> DEFINE n == [node[i] EXCEPT ![slot].total_send = (@ + len) % Word]
    <3>1. node' = [node EXCEPT ![i] = n] /\ list' = list
      BY <2>4, <2>6 DEF ipv4_update
    <3>2. list' = [list EXCEPT ![i] = list[i]]
      BY <3>1 DEF TablesInv
    <3>3. Table(n, list[i], v)
      BY <2>1, <2>2, <2>3, <2>6, TableUpdate DEF v
    <3> HIDE DEF n
    <3> QED BY <2>5, <3>1, <3>2, <3>3, OneTable
  <2>7. CASE slot = 0 /\ Len(node[i]) + 1 = MaxFlow
    <3>1. node' = node /\ list' = list
      BY <2>4, <2>7 DEF ipv4_add
    <3>2. node' = [node EXCEPT ![i] = node[i]]
          /\ list' = [list EXCEPT ![i] = list[i]]
      BY <3>1 DEF TablesInv
    <3>3. Table(node[i], list[i], v)
      BY <2>1, <2>2, <2>3, <2>7, TableFull DEF v
    <3> QED BY <2>5, <3>2, <3>3, OneTable
  <2>8. CASE slot = 0 /\ Len(node[i]) + 1 # MaxFlow
    <3> DEFINE n == Append(node[i], flow)
               l == [list[i] EXCEPT ![dir] = Append(@, Len(node[i]) + 1)]
    <3>1. node' = [node EXCEPT ![i] = n] /\ list' = [list EXCEPT ![i] = l]
      BY <2>4, <2>8 DEF ipv4_add
    <3>2. len > 0
      BY <2>1
    <3>3. Table(n, l, v)
      BY <2>1, <2>2, <2>3, <2>8, <3>2, TableAdd DEF v
    <3> HIDE DEF n, l
    <3> QED BY <2>5, <3>1, <3>3, OneTable
  <2> QED BY <2>6, <2>7, <2>8
<1> QED BY <1>1, <1>2

(* A packet that is counted: there is no flow that was not sampled. *)
LEMMA PacketCounts ==
  ASSUME TablesInv, CountsInv, NEW i \in Interfaces, NEW frame \in Frames,
         Packet(i, frame)
  PROVE  CountsInv'
<1> USE DEF CountsInv
<1>1. total_packets' = [total_packets EXCEPT ![i] = @ + 1]
      /\ full_rate' = full_rate
  BY DEF Packet
<1>2. CASE Analyse(i, frame)
  <2>1. sampled_packets' = [sampled_packets EXCEPT ![i] = @ + 1]
    BY <1>2 DEF Analyse
  <2>2. \A j \in Interfaces \ {i} : node'[j] = node[j]
    BY <1>2 DEF Analyse, ipv4_add, ipv4_update, TablesInv
  <2> QED BY <1>1, <2>1, <2>2
<1>3. CASE UNCHANGED <<node, list, sampled_packets, wire>>
  BY <1>1, <1>3
<1> QED BY <1>2, <1>3 DEF Packet

(* Until the consumer has begun, nothing is reported. *)
LEMMA NothingYet ==
  ASSUME CollectorInv, mode = "capture"
  PROVE  \A i \in Interfaces : report[i] = NoReport /\ ~Reported(i)
BY SizeAssumption
   DEF CollectorInv, RoundInv, ReportTypes, Reported, Interfaces

(* Packet *)
LEMMA PacketKeeps ==
  ASSUME CollectorInv, NEW i \in Interfaces, NEW frame \in Frames,
         Packet(i, frame)
  PROVE  CollectorInv'
<1>1. mode = "capture" /\ UNCHANGED <<mode, arrived, todo, report, inbox>>
  BY DEF Packet
<1>2. TablesInv'
  <2>1. CASE Analyse(i, frame)
    BY <2>1, AnalyseTables DEF CollectorInv
  <2>2. CASE UNCHANGED <<node, list, sampled_packets, wire>>
    BY <2>2 DEF CollectorInv, TablesInv
  <2> QED BY <2>1, <2>2 DEF Packet
<1>3. CountsInv'
  BY PacketCounts DEF CollectorInv
<1>4. RoundInv' /\ ReportTypes'
  BY <1>1 DEF CollectorInv, RoundInv, Round!TypeOK, ReportTypes
<1>5. TrueReports'
  <2>1. \A j \in Interfaces : report'[j] = NoReport /\ ~Reported(j)'
    BY <1>1, NothingYet DEF Reported
  <2>2. Range(NoReport) = {}
    BY DEF Range, NoReport
  <2> QED BY <2>1, <2>2 DEF TrueReports, RateNeverZero, ReportsAreTrue,
                            InputIsAReceiver
<1> QED BY <1>2, <1>3, <1>4, <1>5 DEF CollectorInv

(* Arrive, BeginReport *)
LEMMA RoundKeeps ==
  ASSUME CollectorInv, mode = "capture", Round!TypeOK',
         UNCHANGED <<todo, tables, report, inbox>>
  PROVE  CollectorInv'
<1> USE DEF tables, counters
<1>1. TablesInv' /\ CountsInv' /\ ReportTypes'
  BY DEF CollectorInv, TablesInv, CountsInv, ReportTypes
<1>2. todo = 0 /\ RoundInv'
  BY DEF CollectorInv, RoundInv
<1>3. TrueReports'
  <2>1. \A j \in Interfaces : report'[j] = NoReport /\ ~Reported(j)'
    <3>1. \A j \in Interfaces : ~(j < 0)
      BY SizeAssumption DEF Interfaces
    <3> QED BY <1>2, <3>1, NothingYet DEF Reported
  <2>2. Range(NoReport) = {}
    BY DEF Range, NoReport
  <2> QED BY <2>1, <2>2 DEF TrueReports, RateNeverZero, ReportsAreTrue,
                            InputIsAReceiver
<1> QED BY <1>1, <1>2, <1>3 DEF CollectorInv

(* Reset *)
LEMMA ResetKeeps ==
  ASSUME CollectorInv, NEW i \in Interfaces, Reset(i)
  PROVE  CollectorInv'
<1>1. TablesInv'
  BY TableEmpty, OneTable DEF Reset, CollectorInv
<1>2. CountsInv'
  <2>1. full_rate' \in [Interfaces -> BOOLEAN]
    <3>1. PICK full \in BOOLEAN : full_rate' = [full_rate EXCEPT ![i] = full]
      BY DEF Reset
    <3> QED BY <3>1 DEF CollectorInv, CountsInv
  <2>2. /\ total_packets' = [total_packets EXCEPT ![i] = 0]
        /\ sampled_packets' = [sampled_packets EXCEPT ![i] = 0]
        /\ node' = [node EXCEPT ![i] = <<>>]
    BY DEF Reset
  <2> QED BY <2>1, <2>2 DEF CollectorInv, CountsInv, TablesInv
<1>3. /\ todo = Size + i /\ todo' = todo + 1 /\ mode = "report"
      /\ UNCHANGED <<mode, arrived, report, inbox>>
      /\ Size \in Nat \ {0} /\ i \in 0 .. Size - 1
  BY SizeAssumption DEF Reset, Interfaces
<1>4. RoundInv' /\ ReportTypes'
  BY <1>3 DEF CollectorInv, RoundInv, Round!TypeOK, ReportTypes, Interfaces
<1>5. \A j \in Interfaces : ~Reported(j)'
  BY <1>3 DEF Reported
<1>6. TrueReports'
  BY <1>3, <1>5 DEF CollectorInv, TrueReports, RateNeverZero, ReportsAreTrue,
                    InputIsAReceiver
<1> QED BY <1>1, <1>2, <1>4, <1>6 DEF CollectorInv

(* EndReport *)
LEMMA EndReportKeeps ==
  ASSUME CollectorInv, EndReport
  PROVE  CollectorInv'
<1>1. /\ mode' = "capture" /\ arrived' = {} /\ todo' = 0
      /\ report' = [i \in Interfaces |-> NoReport]
      /\ inbox' = [i \in Interfaces |-> NoReport]
      /\ UNCHANGED tables
  BY DEF EndReport, Round!EndReport
<1>2. TablesInv' /\ CountsInv'
  BY <1>1 DEF CollectorInv, TablesInv, CountsInv, tables, counters
<1>3. RoundInv'
  BY <1>1, SizeAssumption DEF RoundInv, Round!TypeOK
<1>4. ReportTypes'
  BY <1>1 DEF ReportTypes, NoReport
<1>5. TrueReports'
  <2>1. \A j \in Interfaces : report'[j] = NoReport /\ ~Reported(j)'
    BY <1>1 DEF Reported
  <2>2. Range(NoReport) = {}
    BY DEF Range, NoReport
  <2> QED BY <2>1, <2>2 DEF TrueReports, RateNeverZero, ReportsAreTrue,
                            InputIsAReceiver
<1> QED BY <1>2, <1>3, <1>4, <1>5 DEF CollectorInv
-----------------------------------------------------------------------------
(* Statistics.  The two lists, one after the other, lead to every slot.    *)
LEMMA ListsLead ==
  ASSUME NEW n, NEW l, NEW w, Table(n, l, w)
  PROVE  /\ l["out"] \o l["in"] \in Seq(Slots)
         /\ IsInjective(l["out"] \o l["in"])
         /\ Range(l["out"] \o l["in"]) = DOMAIN n
<1>1. "out" \in Directions /\ "in" \in Directions
      /\ \A d \in Directions : d = "out" \/ d = "in"
  BY DEF Directions
<1>2. l["out"] \in Seq(Slots) /\ l["in"] \in Seq(Slots)
  BY <1>1 DEF Table
<1>3. \A d \in Directions : /\ IsInjective(l[d])
                            /\ Range(l[d]) = {s \in DOMAIN n :
                                                n[s].flow_direction = d}
  BY DEF Table, Led
<1>4. Range(l["out"]) \cap Range(l["in"]) = {}
  BY <1>1, <1>3
<1>5. \A s \in DOMAIN n : n[s].flow_direction \in Directions
  BY TableTypes
<1>6. Range(l["out"]) \cup Range(l["in"]) = DOMAIN n
  BY <1>1, <1>3, <1>5
<1>7. IsInjective(l["out"]) /\ IsInjective(l["in"])
  BY <1>1, <1>3
<1>8. PICK a \in Seq(Slots), b \in Seq(Slots) : a = l["out"] /\ b = l["in"]
  BY <1>2
<1>9. /\ IsInjective(a) /\ IsInjective(b)
      /\ Range(a) \cap Range(b) = {} /\ Range(a) \cup Range(b) = DOMAIN n
  BY <1>4, <1>6, <1>7, <1>8
<1>10. /\ a \o b \in Seq(Slots) /\ IsInjective(a \o b)
       /\ Range(a \o b) = DOMAIN n
  BY <1>9, Joined
<1> QED BY <1>8, <1>10

(* The interface that cal_flow_in_out_interface finds has a slot for the   *)
(* flow, and it finds one if there is any. *)
LEMMA InputFound ==
  ASSUME TablesInv, NEW flow
  PROVE  LET HasSlot(j) == \E s \in DOMAIN node[j] :
                              /\ node[j][s].flow_direction = "in"
                              /\ node[j][s].key = flow.key
         IN  \/ FirstInput(flow) \in Interfaces /\ HasSlot(FirstInput(flow))
             \/ FirstInput(flow) = Size /\ \A j \in Interfaces : ~HasSlot(j)
<1> DEFINE receivers == {j \in Interfaces : LookUp(j, "in", flow) # 0}
           HasSlot(j) == \E s \in DOMAIN node[j] :
                            /\ node[j][s].flow_direction = "in"
                            /\ node[j][s].key = flow.key
<1>1. \A j \in Interfaces : LookUp(j, "in", flow) # 0 <=> HasSlot(j)
  <2> SUFFICES ASSUME NEW j \in Interfaces
               PROVE  LookUp(j, "in", flow) # 0 <=> HasSlot(j)
    OBVIOUS
  <2>1. Table(node[j], list[j], wire[j]) /\ "in" \in Directions
    BY DEF TablesInv, Directions
  <2> DEFINE p == LookUp(j, "in", flow)
  <2>2. /\ p # 0 => /\ list[j]["in"][p] \in DOMAIN node[j]
                    /\ node[j][list[j]["in"][p]].flow_direction = "in"
                    /\ node[j][list[j]["in"][p]].key = flow.key
        /\ p = 0 => \A s \in DOMAIN node[j] :
                       ~(node[j][s].flow_direction = "in"
                         /\ node[j][s].key = flow.key)
    BY <2>1, LookUpFinds
  <2> HIDE DEF p
  <2>3. p # 0 <=> HasSlot(j)
    BY <2>2
  <2> QED BY <2>3 DEF p
<1>2. FirstInput(flow) = IF receivers = {} THEN Size ELSE Min(receivers)
  BY DEF FirstInput
<1>3. \A j : j \in receivers <=> j \in Interfaces /\ HasSlot(j)
  BY <1>1
<1>4. receivers \in SUBSET Nat
  BY SizeAssumption DEF Interfaces
<1> HIDE DEF HasSlot, receivers
<1>5. CASE receivers = {}
  BY <1>2, <1>3, <1>5 DEF HasSlot
<1>6. CASE receivers # {}
  <2>1. FirstInput(flow) \in receivers
    BY <1>2, <1>4, <1>6, Smallest
  <2> QED BY <1>3, <2>1 DEF HasSlot
<1> QED BY <1>5, <1>6

(* one_interface_traverse_sys_link changes the interfaces of a flow alone. *)
LEMMA TraversedFlows ==
  ASSUME TablesInv, NEW i \in Interfaces, NEW memory \in BeforeArray
  PROVE  LET m == Traversed(i, memory)
             n == node[i]
         IN  /\ m \in Seq(Flows) /\ Len(m) = Len(n) /\ DOMAIN m = DOMAIN n
             /\ \A s \in DOMAIN n :
                   /\ m[s].key = n[s].key
                   /\ m[s].flow_direction = n[s].flow_direction
                   /\ m[s].total_send = n[s].total_send
                   /\ n[s].flow_direction = "out" =>
                         m[s].if_in = if_in_of(n[s], memory)
<1> DEFINE m == Traversed(i, memory)
           n == node[i]
<1>1. Table(n, list[i], wire[i])
  BY DEF TablesInv
<1>2. /\ DOMAIN n = 1 .. Len(n) /\ Len(n) \in Nat
      /\ \A s \in DOMAIN n : n[s] \in Flows
  BY <1>1, TableTypes
<1>3. Range(list[i]["out"]) = {s \in DOMAIN n : n[s].flow_direction = "out"}
  BY <1>1 DEF Table, Led, Directions
<1>4. \A flow : if_in_of(flow, memory) \in Int
  <2> SUFFICES ASSUME NEW flow PROVE if_in_of(flow, memory) \in Int
    OBVIOUS
  <2>1. FirstInput(flow) \in Interfaces \/ FirstInput(flow) = Size
    BY InputFound
  <2>2. memory \in Int
    BY BeforeArrayAssumption
  <2> QED BY <2>1, <2>2, SizeAssumption DEF if_in_of, ifindex, Interfaces
<1>5. ifindex(i) \in Int
  BY SizeAssumption DEF ifindex, Interfaces
<1>6. ASSUME NEW flow \in Flows
      PROVE  LET g == [flow EXCEPT !.if_in  = if_in_of(flow, memory),
                                   !.if_out = ifindex(i)]
             IN  /\ g \in Flows /\ g.key = flow.key
                 /\ g.flow_direction = flow.flow_direction
                 /\ g.total_send = flow.total_send
                 /\ g.if_in = if_in_of(flow, memory)
  <2>1. if_in_of(flow, memory) \in Int
    BY <1>4
  <2> QED BY <1>5, <2>1 DEF Flows
<1>7. DOMAIN m = DOMAIN n
  BY DEF Traversed
<1>8. ASSUME NEW s \in DOMAIN n
      PROVE  /\ m[s] \in Flows
             /\ m[s].key = n[s].key
             /\ m[s].flow_direction = n[s].flow_direction
             /\ m[s].total_send = n[s].total_send
             /\ n[s].flow_direction = "out" =>
                   m[s].if_in = if_in_of(n[s], memory)
  <2>1. n[s] \in Flows
    BY <1>2
  <2>2. CASE s \in Range(list[i]["out"])
    <3>1. m[s] = [n[s] EXCEPT !.if_in  = if_in_of(n[s], memory),
                              !.if_out = ifindex(i)]
      BY <2>2 DEF Traversed
    <3> HIDE DEF m, n
    <3> QED BY <1>6, <2>1, <3>1
  <2>3. CASE s \notin Range(list[i]["out"])
    <3>1. m[s] = n[s] /\ n[s].flow_direction # "out"
      BY <1>3, <2>3 DEF Traversed
    <3> QED BY <2>1, <3>1
  <2> QED BY <2>2, <2>3
<1>9. m \in Seq(Flows) /\ Len(m) = Len(n)
  <2>1. m = [s \in 1 .. Len(n) |-> m[s]]
    BY <1>2 DEF Traversed
  <2>2. \A s \in 1 .. Len(n) : m[s] \in Flows
    BY <1>2, <1>8
  <2> HIDE DEF m
  <2> QED BY <1>2, <2>1, <2>2
<1> QED BY <1>7, <1>8, <1>9

(* op_interface_struct packs each slot of the table. *)
LEMMA PackedFlows ==
  ASSUME TablesInv, CountsInv, NEW i \in Interfaces,
         NEW m \in Seq(Flows), DOMAIN m = DOMAIN node[i]
  PROVE  LET r == op_interface_struct(i, m)
         IN  /\ r \in Seq(Entries)
             /\ \A entry \in Range(r) :
                   /\ \E s \in DOMAIN node[i] : entry.flow = m[s]
                   /\ entry.sampled = sampled_packets[i]
                   /\ entry.total = total_packets[i]
             /\ i \in Active => \A s \in DOMAIN node[i] :
                                  \E entry \in Range(r) : entry.flow = m[s]
<1> DEFINE slots == list[i]["out"] \o list[i]["in"]
           Entry(f) == [flow |-> f, sampled |-> sampled_packets[i],
                        total |-> total_packets[i]]
           r == op_interface_struct(i, m)
<1>1. slots \in Seq(Slots) /\ Range(slots) = DOMAIN m
  <2>1. Table(node[i], list[i], wire[i])
    BY DEF TablesInv
  <2> QED BY <2>1, ListsLead
<1>2. DOMAIN slots = 1 .. Len(slots) /\ Len(slots) \in Nat
  <2> HIDE DEF slots
  <2> QED BY <1>1
<1>3. CASE i \notin Active
  <2>1. r = <<>>
    BY <1>3 DEF op_interface_struct, NoReport
  <2>2. Range(<<>>) = {} /\ <<>> \in Seq(Entries)
    BY DEF Range
  <2> QED BY <1>3, <2>1, <2>2
<1>4. CASE i \in Active
  <2>1. r = [k \in DOMAIN slots |-> Entry(m[slots[k]])]
    BY <1>4 DEF op_interface_struct
  <2>2. \A k \in DOMAIN slots : slots[k] \in DOMAIN m
    BY <1>1 DEF Range
  <2>3. \A s \in DOMAIN m : m[s] \in Flows
    OBVIOUS
  <2>4. \A f \in Flows : Entry(f) \in Entries
    BY DEF Entries, CountsInv
  <2>5. \A f : /\ Entry(f).flow = f
               /\ Entry(f).sampled = sampled_packets[i]
               /\ Entry(f).total = total_packets[i]
    OBVIOUS
  <2> HIDE DEF Entry, slots, r
  <2>6. r = [k \in 1 .. Len(slots) |-> Entry(m[slots[k]])]
    BY <1>2, <2>1
  <2>7. r \in Seq(Entries)
    BY <1>2, <2>2, <2>3, <2>4, <2>6
  <2>8. DOMAIN r = DOMAIN slots
        /\ \A k \in DOMAIN slots : r[k] = Entry(m[slots[k]])
    BY <2>1
  <2>9. \A entry \in Range(r) : \E s \in DOMAIN m : entry = Entry(m[s])
    BY <2>2, <2>8 DEF Range
  <2>10. \A s \in DOMAIN m : Entry(m[s]) \in Range(r)
    BY <1>1, <2>8 DEF Range
  <2>11. \A entry \in Range(r) :
            /\ \E s \in DOMAIN node[i] : entry.flow = m[s]
            /\ entry.sampled = sampled_packets[i]
            /\ entry.total = total_packets[i]
    BY <2>5, <2>9
  <2>12. \A s \in DOMAIN node[i] : \E entry \in Range(r) : entry.flow = m[s]
    BY <2>5, <2>10
  <2> QED BY <2>7, <2>11, <2>12 DEF r
<1> QED BY <1>3, <1>4
(* What Statistics leaves of the counts, the tables and the round. *)
LEMMA StatisticsTables ==
  ASSUME TablesInv, CountsInv, NEW i \in Interfaces,
         NEW memory \in BeforeArray,
         node' = [node EXCEPT ![i] = Traversed(i, memory)],
         UNCHANGED <<list, counters, wire>>
  PROVE  TablesInv' /\ CountsInv'
<1> DEFINE m == Traversed(i, memory)
<1>1. Table(node[i], list[i], wire[i])
  BY DEF TablesInv
<1>2. /\ m \in Seq(Flows) /\ Len(m) = Len(node[i])
      /\ DOMAIN m = DOMAIN node[i]
      /\ \A s \in DOMAIN node[i] :
            /\ m[s].key = node[i][s].key
            /\ m[s].flow_direction = node[i][s].flow_direction
            /\ m[s].total_send = node[i][s].total_send
  BY TraversedFlows
<1> HIDE DEF m
<1>3. Table(m, list[i], wire[i])
  BY <1>1, <1>2, TableSame
<1>4. node' = [node EXCEPT ![i] = m] /\ list' = [list EXCEPT ![i] = list[i]]
      /\ wire' = [wire EXCEPT ![i] = wire[i]]
  BY DEF TablesInv, m
<1>5. TablesInv'
  <2> DEFINE l == list[i]
             w == wire[i]
  <2>1. Table(m, l, w) /\ node' = [node EXCEPT ![i] = m]
        /\ list' = [list EXCEPT ![i] = l] /\ wire' = [wire EXCEPT ![i] = w]
    BY <1>3, <1>4
  <2> HIDE DEF l, w
  <2> QED BY <2>1, OneTable
<1>6. \A j \in Interfaces : node'[j] # <<>> => node[j] # <<>>
  <2>1. node[i] = <<>> => m = <<>>
    BY <1>2
  <2>2. node'[i] = m /\ \A j \in Interfaces \ {i} : node'[j] = node[j]
    BY <1>4 DEF TablesInv
  <2> QED BY <2>1, <2>2
<1>7. CountsInv'
  BY <1>6 DEF CountsInv, counters
<1> QED BY <1>5, <1>7

(* The report that Statistics packs is true. *)
LEMMA TrueReport ==
  ASSUME CollectorInv, NEW i \in Interfaces, NEW memory \in BeforeArray,
         NEW r, r = op_interface_struct(i, Traversed(i, memory))
  PROVE  /\ r \in Seq(Entries)
         /\ \A entry \in Range(r) :
               /\ entry.sampled \in 1 .. entry.total
               /\ entry.flow.total_send =
                     wire[i][entry.flow.flow_direction][entry.flow.key] % Word
         /\ i \in Active /\ ~IsFull(i) =>
               \A dir \in Directions, key \in Keys :
                  wire[i][dir][key] > 0 =>
                     \E entry \in Range(r) :
                        /\ entry.flow.flow_direction = dir
                        /\ entry.flow.key = key
         /\ \A entry \in Range(r) :
               LET receivers == {j \in Interfaces : Received(j, entry.flow.key)}
               IN  /\ entry.flow.flow_direction = "out"
                   /\ \E j \in receivers : ~IsFull(j)
                   => entry.flow.if_in \in {ifindex(j) : j \in receivers}
<1> DEFINE m == Traversed(i, memory)
<1>1. TablesInv /\ CountsInv
  BY DEF CollectorInv
<1>2. Table(node[i], list[i], wire[i])
  BY <1>1 DEF TablesInv
<1>3. /\ m \in Seq(Flows) /\ DOMAIN m = DOMAIN node[i]
      /\ \A s \in DOMAIN node[i] :
            /\ m[s].key = node[i][s].key
            /\ m[s].flow_direction = node[i][s].flow_direction
            /\ m[s].total_send = node[i][s].total_send
            /\ node[i][s].flow_direction = "out" =>
                  m[s].if_in = if_in_of(node[i][s], memory)
  BY <1>1, TraversedFlows
<1>4. r = op_interface_struct(i, m)
  OBVIOUS
<1> HIDE DEF m
<1>5. /\ r \in Seq(Entries)
      /\ \A entry \in Range(r) :
            /\ \E s \in DOMAIN node[i] : entry.flow = m[s]
            /\ entry.sampled = sampled_packets[i]
            /\ entry.total = total_packets[i]
      /\ i \in Active => \A s \in DOMAIN node[i] :
                           \E entry \in Range(r) : entry.flow = m[s]
  BY <1>1, <1>3, <1>4, PackedFlows
<1>6. ASSUME NEW entry \in Range(r)
      PROVE  entry.sampled \in 1 .. entry.total
  <2>1. node[i] # <<>>
    BY <1>5
  <2>2. sampled_packets[i] \in Nat /\ total_packets[i] \in Nat
        /\ sampled_packets[i] > 0 /\ sampled_packets[i] <= total_packets[i]
    BY <1>1, <2>1 DEF CountsInv
  <2> QED BY <1>5, <2>2
<1>7. ASSUME NEW entry \in Range(r)
      PROVE  entry.flow.total_send =
                wire[i][entry.flow.flow_direction][entry.flow.key] % Word
  <2>1. PICK s \in DOMAIN node[i] : entry.flow = m[s]
    BY <1>5
  <2>2. node[i][s].total_send =
           wire[i][node[i][s].flow_direction][node[i][s].key] % Word
    BY <1>2 DEF Table, Whole
  <2> QED BY <1>3, <2>1, <2>2
<1>8. ASSUME i \in Active, ~IsFull(i), NEW dir \in Directions,
             NEW key \in Keys, wire[i][dir][key] > 0
      PROVE  \E entry \in Range(r) : /\ entry.flow.flow_direction = dir
                                     /\ entry.flow.key = key
  <2>1. PICK s \in DOMAIN node[i] : node[i][s].flow_direction = dir
                                   /\ node[i][s].key = key
    BY <1>2, <1>8 DEF Table, Kept, IsFull
  <2>2. PICK entry \in Range(r) : entry.flow = m[s]
    BY <1>5, <1>8
  <2> QED BY <1>3, <2>1, <2>2
<1>9. ASSUME NEW entry \in Range(r), entry.flow.flow_direction = "out",
             NEW j \in Interfaces, Received(j, entry.flow.key), ~IsFull(j)
      PROVE  \E f \in Interfaces : /\ Received(f, entry.flow.key)
                                   /\ entry.flow.if_in = ifindex(f)
  <2>1. PICK s \in DOMAIN node[i] : entry.flow = m[s]
    BY <1>5
  <2> DEFINE flow == node[i][s]
  <2>2. flow.key = entry.flow.key /\ flow.key \in Keys
        /\ entry.flow.if_in = if_in_of(flow, memory)
    BY <1>2, <1>3, <1>9, <2>1, TableTypes
  <2> HIDE DEF flow
  <2> DEFINE f == FirstInput(flow)
  <2>3. \E t \in DOMAIN node[j] : /\ node[j][t].flow_direction = "in"
                                  /\ node[j][t].key = flow.key
    <3>1. Kept(node[j], wire[j]) /\ "in" \in Directions
      BY <1>1 DEF TablesInv, Table, Directions
    <3>2. wire[j]["in"][flow.key] > 0 /\ Len(node[j]) + 1 # MaxFlow
      BY <1>9, <2>2 DEF Received, IsFull
    <3> QED BY <2>2, <3>1, <3>2 DEF Kept
  <2>4. f \in Interfaces /\ \E t \in DOMAIN node[f] :
                               /\ node[f][t].flow_direction = "in"
                               /\ node[f][t].key = flow.key
    BY <1>1, <2>3, InputFound
  <2> HIDE DEF f
  <2>5. wire[f]["in"][flow.key] > 0
    <3>1. PICK t \in DOMAIN node[f] : /\ node[f][t].flow_direction = "in"
                                     /\ node[f][t].key = flow.key
      BY <2>4
    <3>2. Whole(node[f], wire[f])
      BY <1>1, <2>4 DEF TablesInv, Table
    <3> QED BY <3>1, <3>2 DEF Whole
  <2>6. if_in_of(flow, memory) = ifindex(f)
    <3>1. f # Size
      BY <2>4, SizeAssumption DEF Interfaces
    <3> QED BY <3>1 DEF if_in_of, f
  <2> QED BY <2>2, <2>4, <2>5, <2>6 DEF Received
<1> QED BY <1>5, <1>6, <1>7, <1>8, <1>9

(* Statistics *)
LEMMA StatisticsKeeps ==
  ASSUME CollectorInv, NEW i \in Interfaces, Statistics(i)
  PROVE  CollectorInv'
<1>1. PICK memory \in BeforeArray :
         node' = [node EXCEPT ![i] = Traversed(i, memory)]
  BY DEF Statistics
<1> DEFINE r == op_interface_struct(i, Traversed(i, memory))
<1>2. /\ mode = "report" /\ todo = i /\ todo' = todo + 1
      /\ UNCHANGED <<mode, arrived, list, counters, wire>>
      /\ inbox' \in {inbox, [inbox EXCEPT ![i] = Message(report'[i])]}
  BY DEF Statistics
<1>3. TablesInv /\ CountsInv /\ RoundInv /\ ReportTypes /\ TrueReports
      /\ Size \in Nat \ {0} /\ i \in 0 .. Size - 1
  BY SizeAssumption DEF CollectorInv, Interfaces
<1>4. TablesInv' /\ CountsInv'
  BY <1>1, <1>2, <1>3, StatisticsTables
<1>5. node'[i] = Traversed(i, memory)
      /\ \A j \in Interfaces : Len(node'[j]) = Len(node[j])
  <2>1. Len(Traversed(i, memory)) = Len(node[i])
    BY <1>3, TraversedFlows
  <2> QED BY <1>1, <1>3, <2>1 DEF TablesInv
<1>6. report' = [report EXCEPT ![i] = r]
  <2>1. report' = [report EXCEPT ![i] = op_interface_struct(i, node'[i])]
    BY DEF Statistics
  <2> QED BY <1>5, <2>1
<1>7. report'[i] = r /\ \A j \in Interfaces \ {i} : report'[j] = report[j]
  BY <1>3, <1>6 DEF ReportTypes
<1>8. \A j \in Interfaces : IsFull(j)' <=> IsFull(j)
  BY <1>5 DEF IsFull
<1>9. \A j \in Interfaces \ {i} : Reported(j)' => Reported(j)
  BY <1>2, <1>3 DEF Reported, Interfaces
<1>10. /\ r \in Seq(Entries)
       /\ \A entry \in Range(r) :
             /\ entry.sampled \in 1 .. entry.total
             /\ entry.flow.total_send =
                   wire[i][entry.flow.flow_direction][entry.flow.key] % Word
       /\ i \in Active /\ ~IsFull(i) =>
             \A dir \in Directions, key \in Keys :
                wire[i][dir][key] > 0 =>
                   \E entry \in Range(r) :
                      /\ entry.flow.flow_direction = dir
                      /\ entry.flow.key = key
       /\ \A entry \in Range(r) :
             LET receivers == {j \in Interfaces : Received(j, entry.flow.key)}
             IN  /\ entry.flow.flow_direction = "out"
                 /\ \E j \in receivers : ~IsFull(j)
                 => entry.flow.if_in \in {ifindex(j) : j \in receivers}
  BY TrueReport
<1> HIDE DEF r
<1>11. RoundInv'
  BY <1>2, <1>3 DEF RoundInv, Round!TypeOK
<1>12. ReportTypes'
  <2>1. report' \in [Interfaces -> Seq(Entries)]
    BY <1>3, <1>6, <1>10 DEF ReportTypes
  <2>2. inbox' = [j \in Interfaces |-> inbox'[j]]
        /\ inbox'[i] \in {inbox[i], Message(report'[i])}
        /\ \A j \in Interfaces \ {i} : inbox'[j] = inbox[j]
    BY <1>2, <1>3 DEF ReportTypes
  <2>3. inbox[i] = NoReport
    BY <1>2, <1>3 DEF ReportTypes
  <2>4. ASSUME NEW j \in Interfaces
        PROVE  /\ inbox'[j] \in {NoReport, Message(report'[j])}
               /\ todo' <= j => report'[j] = NoReport /\ inbox'[j] = NoReport
    BY <1>2, <1>3, <1>7, <2>2, <2>3 DEF ReportTypes, Interfaces
  <2> QED BY <2>1, <2>2, <2>4 DEF ReportTypes
<1>13. RateNeverZero'
  BY <1>3, <1>7, <1>10 DEF TrueReports, RateNeverZero
<1>14. ReportsAreTrue'
  <2> SUFFICES ASSUME NEW j \in Interfaces, Reported(j)'
               PROVE  /\ \A entry \in Range(report'[j]) :
                            LET flow == entry.flow
                            IN  flow.total_send =
                                  wire[j][flow.flow_direction][flow.key] % Word
                      /\ ~IsFull(j) =>
                            \A dir \in Directions, key \in Keys :
                              wire[j][dir][key] > 0 =>
                                \E entry \in Range(report'[j]) :
                                  /\ entry.flow.flow_direction = dir
                                  /\ entry.flow.key = key
    BY <1>2, <1>8 DEF ReportsAreTrue
  <2>1. CASE j = i
    <3>1. i \in Active
      BY <2>1 DEF Reported
    <3> QED BY <1>7, <1>10, <2>1, <3>1
  <2>2. CASE j # i
    BY <1>3, <1>7, <1>9, <2>2 DEF TrueReports, ReportsAreTrue
  <2> QED BY <2>1, <2>2
<1>15. InputIsAReceiver'
  <2>1. \A j, key : Received(j, key)' <=> Received(j, key)
    BY <1>2 DEF Received
  <2> SUFFICES ASSUME NEW j \in Interfaces, Reported(j)',
                      NEW entry \in Range(report'[j]),
                      entry.flow.flow_direction = "out",
                      NEW k \in Interfaces, Received(k, entry.flow.key),
                      ~IsFull(k)
               PROVE  \E f \in Interfaces : /\ Received(f, entry.flow.key)
                                            /\ entry.flow.if_in = ifindex(f)
    BY <1>8, <2>1 DEF InputIsAReceiver
  <2>2. CASE j = i
    BY <1>7, <1>10, <2>2
  <2>3. CASE j # i
    BY <1>3, <1>7, <1>9, <2>3 DEF TrueReports, InputIsAReceiver
  <2> QED BY <2>2, <2>3
<1> QED BY <1>4, <1>11, <1>12, <1>13, <1>14, <1>15 DEF CollectorInv, TrueReports
-----------------------------------------------------------------------------
(* The theorems.  The inductive invariant holds always. *)
LEMMA CollectorInit == Init => CollectorInv
<1> SUFFICES ASSUME Init PROVE CollectorInv
  OBVIOUS
<1>1. TablesInv
  <2>1. Table(<<>>, NoFlows, NoBytes)
    BY TableEmpty
  <2>2. /\ <<>> \in Seq(Flows)
        /\ NoFlows \in [Directions -> Seq(Slots)]
        /\ NoBytes \in [Directions -> [Keys -> Nat]]
    BY <2>1 DEF Table
  <2>3. /\ node = [i \in Interfaces |-> <<>>]
        /\ list = [i \in Interfaces |-> NoFlows]
        /\ wire = [i \in Interfaces |-> NoBytes]
    BY DEF Init
  <2> QED BY <2>1, <2>2, <2>3 DEF TablesInv
<1>2. CountsInv
  BY DEF Init, CountsInv
<1>3. RoundInv
  BY SizeAssumption DEF Init, Round!Init, RoundInv, Round!TypeOK
<1>4. ReportTypes
  BY DEF Init, ReportTypes, NoReport
<1>5. TrueReports
  <2>1. \A j \in Interfaces : report[j] = NoReport /\ ~Reported(j)
    BY DEF Init, Round!Init, Reported
  <2>2. Range(NoReport) = {}
    BY DEF Range, NoReport
  <2> QED BY <2>1, <2>2 DEF TrueReports, RateNeverZero, ReportsAreTrue,
                            InputIsAReceiver
<1> QED BY <1>1, <1>2, <1>3, <1>4, <1>5 DEF CollectorInv

(* Every step keeps it: one lemma for each action. *)
LEMMA CollectorStep == CollectorInv /\ [Next]_vars => CollectorInv'
<1> SUFFICES ASSUME CollectorInv, [Next]_vars PROVE CollectorInv'
  OBVIOUS
<1>1. ASSUME NEW i \in Interfaces, NEW frame \in Frames, Packet(i, frame)
      PROVE  CollectorInv'
  BY <1>1, PacketKeeps
<1>2. ASSUME NEW i \in Interfaces, Arrive(i) PROVE CollectorInv'
  <2>1. mode = "capture" /\ UNCHANGED <<todo, tables, report, inbox>>
        /\ mode' = mode /\ arrived' = arrived \cup {i}
    BY <1>2 DEF Arrive, Round!Arrive
  <2>2. Round!TypeOK'
    BY <2>1 DEF CollectorInv, RoundInv, Round!TypeOK
  <2> QED BY <2>1, <2>2, RoundKeeps
<1>3. ASSUME NEW i \in Interfaces, Statistics(i) PROVE CollectorInv'
  BY <1>3, StatisticsKeeps
<1>4. ASSUME NEW i \in Interfaces, Reset(i) PROVE CollectorInv'
  BY <1>4, ResetKeeps
<1>5. ASSUME BeginReport PROVE CollectorInv'
  <2>1. mode = "capture" /\ UNCHANGED <<todo, tables, report, inbox>>
        /\ mode' = "report" /\ arrived' = arrived
    BY <1>5 DEF BeginReport, Round!BeginReport
  <2>2. Round!TypeOK'
    BY <2>1 DEF CollectorInv, RoundInv, Round!TypeOK
  <2> QED BY <2>1, <2>2, RoundKeeps
<1>6. ASSUME EndReport PROVE CollectorInv'
  BY <1>6, EndReportKeeps
<1>7. ASSUME UNCHANGED vars PROVE CollectorInv'
  BY <1>7 DEF vars, tables, counters, CollectorInv, TablesInv, CountsInv,
              RoundInv, Round!TypeOK, ReportTypes, TrueReports, RateNeverZero,
              ReportsAreTrue, InputIsAReceiver, Reported, Received, IsFull
<1> QED BY <1>1, <1>2, <1>3, <1>4, <1>5, <1>6, <1>7 DEF Next

(* So it holds in every state. *)
LEMMA CollectorAlways == Spec => []CollectorInv
BY CollectorInit, CollectorStep, PTL DEF Spec

(* Every variable keeps its type, the slots that are given away are fewer  *)
(* than the table has, and what the agent gets of an interface is its      *)
(* report or nothing.                                                      *)
THEOREM TypeCorrect == Spec => []TypeOK
<1>1. CollectorInv => TypeOK
  <2> SUFFICES ASSUME CollectorInv PROVE TypeOK
    OBVIOUS
  <2>1. \A i \in Interfaces : Len(node[i]) < MaxFlow
    BY DEF CollectorInv, TablesInv, Table
  <2> QED BY <2>1 DEF CollectorInv, TablesInv, CountsInv, RoundInv,
                      ReportTypes, TypeOK
<1> QED BY <1>1, CollectorAlways, PTL

(* The two lists of an interface lead to every slot of its table that is   *)
(* in use, to each from one place, and nowhere else: ipv4_add, the search  *)
(* and the reset loop of main keep list and table together.                *)
THEOREM ListsCover == Spec => []ListsCoverTable
<1>1. CollectorInv => ListsCoverTable
  <2> SUFFICES ASSUME CollectorInv, NEW i \in Interfaces
               PROVE  /\ IsInjective(list[i]["out"] \o list[i]["in"])
                      /\ Range(list[i]["out"] \o list[i]["in"])
                            = DOMAIN node[i]
    BY DEF ListsCoverTable
  <2>1. Table(node[i], list[i], wire[i])
    BY DEF CollectorInv, TablesInv
  <2> QED BY <2>1, ListsLead
<1> QED BY <1>1, CollectorAlways, PTL

(* A flow is recorded once and with all its sampled bytes, or left out for *)
(* want of a slot: ipv4_search never misses a flow that has one.           *)
THEOREM FlowsAreWhole == Spec => []FlowsWhole
<1>1. CollectorInv => FlowsWhole
  <2> SUFFICES ASSUME CollectorInv, NEW i \in Interfaces,
                      NEW dir \in Directions, NEW key \in Keys
               PROVE  \/ \E slot \in Recorded(i, dir, key) :
                            /\ Recorded(i, dir, key) = {slot}
                            /\ node[i][slot].total_send =
                                  wire[i][dir][key] % Word
                            /\ wire[i][dir][key] > 0
                      \/ /\ Recorded(i, dir, key) = {}
                         /\ wire[i][dir][key] = 0 \/ IsFull(i)
    BY DEF FlowsWhole
  <2>1. Table(node[i], list[i], wire[i]) /\ wire[i][dir][key] \in Nat
    BY DEF CollectorInv, TablesInv
  <2>2. Recorded(i, dir, key) = {s \in DOMAIN node[i] :
                                   /\ node[i][s].flow_direction = dir
                                   /\ node[i][s].key = key}
    BY <2>1 DEF Table, Led, Recorded
  <2>3. CASE Recorded(i, dir, key) = {}
    <3>1. wire[i][dir][key] > 0 => IsFull(i)
      BY <2>1, <2>2, <2>3 DEF Table, Kept, IsFull
    <3> QED BY <2>1, <2>3, <3>1
  <2>4. CASE Recorded(i, dir, key) # {}
    <3>1. PICK slot : slot \in Recorded(i, dir, key)
      BY <2>4
    <3>2. \A s \in Recorded(i, dir, key) : s = slot
      BY <2>1, <2>2, <3>1 DEF Table, Single
    <3>3. node[i][slot].total_send = wire[i][dir][key] % Word
          /\ wire[i][dir][key] > 0
      BY <2>1, <2>2, <3>1 DEF Table, Whole
    <3> QED BY <3>1, <3>2, <3>3
  <2> QED BY <2>3, <2>4
<1> QED BY <1>1, CollectorAlways, PTL

(* packet_xml_flow_info never divides by a rate of zero, nor scales down.  *)
THEOREM RateNonzero == Spec => []RateNeverZero
<1>1. CollectorInv => RateNeverZero
  BY DEF CollectorInv, TrueReports
<1> QED BY <1>1, CollectorAlways, PTL

(* What is packed for an interface is of this round and complete, unless   *)
(* the table was full.                                                     *)
THEOREM ReportsTrue == Spec => []ReportsAreTrue
<1>1. CollectorInv => ReportsAreTrue
  BY DEF CollectorInv, TrueReports
<1> QED BY <1>1, CollectorAlways, PTL

(* cal_flow_in_out_interface names an interface that received the flow in  *)
(* this round, whenever one had room for it.                               *)
THEOREM InputReceived == Spec => []InputIsAReceiver
<1>1. CollectorInv => InputIsAReceiver
  BY DEF CollectorInv, TrueReports
<1> QED BY <1>1, CollectorAlways, PTL
=============================================================================
