-------------------------- MODULE DiscoveryProofs ---------------------------
(***************************************************************************)
(* That the count of threads fits the slots, however many links there are  *)
(* and however they change while the dump is read, and that the program    *)
(* does serve every card when the cards come first.                        *)
(***************************************************************************)
EXTENDS Discovery, FiniteSetTheorems, TLAPS

(* The active slots whose link is still to come in the dump: each of them  *)
(* is owed to a notification, and the dump will count it once more.        *)
Undumped == {s \in ActiveSlots : s + 2 >= cursor}

CountInv ==
    /\ Cardinality(ActiveSlots) <= g_interface_size
    /\ g_interface_size + Cardinality(Undumped)
         <= Cardinality(ActiveSlots) + events

(* Without notifications the slots say what the links dumped so far are. *)
DumpInv ==
    events = 0 =>
        \A s \in Slots :
            if_array[s].active <=>
                s + 2 < cursor /\ s + 2 < MAX_INTERFACE_SIZE
                /\ links[s + 2] = "up"

DoneInv == pc = "done" => cursor = MaxIndex + 1

DiscoveryInv == TypeOK /\ CountInv /\ DumpInv /\ DoneInv

(* if_array has finitely many slots, so sets of them can be counted. *)
LEMMA SlotsFinite ==
  ASSUME NEW S \in SUBSET Slots
  PROVE  IsFiniteSet(S) /\ Cardinality(S) \in Nat
<1>1. IsFiniteSet(Slots)
  BY FS_Interval, SizeAssumption DEF Slots
<1>2. IsFiniteSet(S)
  BY <1>1, FS_Subset
<1> QED BY <1>2, FS_CardinalityType

(* What one message does. *)
LEMMA LinkEffect ==
  ASSUME TypeOK, NEW n \in Index, NEW kind \in Kinds, Link(n, kind)
  PROVE  LET counted == InTable(n) /\ kind = "up" IN
         /\ if_array' \in
              [Slots -> [ifindex : Nat, active : BOOLEAN, tx : BOOLEAN]]
         /\ \A s \in Slots : if_array'[s].ifindex \in {0, s + 2}
         /\ \A s \in Slots :
              if_array'[s].active <=> if_array[s].active \/ (counted /\ s = n - 2)
         /\ g_interface_size' =
              IF counted THEN g_interface_size + 1 ELSE g_interface_size
<1>1. CASE ~InTable(n)
  BY <1>1 DEF TypeOK, Link
<1>2. CASE InTable(n)
  <2>1. n - 2 \in Slots
    BY <1>2, SizeAssumption DEF InTable, Index, Slots
  <2> DEFINE size == g_interface_size + (IF Counts(kind) THEN 1 ELSE 0)
             entry == [ifindex |-> n,
                       active  |-> if_array[n - 2].active \/ Counts(kind),
                       tx      |-> if_array[n - 2].tx
                                   \/ (kind # "tap0" /\ n - 2 <= size)]
  <2>2. if_array' = [if_array EXCEPT ![n - 2] = entry]
        /\ g_interface_size' = size
    BY <1>2 DEF Link
  <2>3. if_array[n - 2].active \in BOOLEAN /\ if_array[n - 2].tx \in BOOLEAN
    BY <2>1 DEF TypeOK
  <2>4. entry \in [ifindex : Nat, active : BOOLEAN, tx : BOOLEAN]
    BY <2>3 DEF Index
  <2>5. entry.ifindex = n /\ entry.ifindex = (n - 2) + 2
    BY DEF Index
  <2>6. \A s \in Slots : s # n - 2 => if_array'[s] = if_array[s]
    BY <2>2 DEF TypeOK
  <2>7. if_array'[n - 2] = entry
    BY <2>1, <2>2 DEF TypeOK
  <2>8. entry.active <=> if_array[n - 2].active \/ kind = "up"
    BY <2>3 DEF Counts
  <2> HIDE DEF entry
  <2>9. if_array' \in
          [Slots -> [ifindex : Nat, active : BOOLEAN, tx : BOOLEAN]]
    BY <2>2, <2>4 DEF TypeOK
  <2>10. \A s \in Slots : if_array'[s].ifindex \in {0, s + 2}
    <3> TAKE s \in Slots
    <3>1. CASE s = n - 2
      BY <3>1, <2>5, <2>7
    <3>2. CASE s # n - 2
      BY <3>2, <2>6 DEF TypeOK
    <3> QED BY <3>1, <3>2
  <2>11. \A s \in Slots :
           if_array'[s].active <=>
             if_array[s].active \/ (kind = "up" /\ s = n - 2)
    <3> TAKE s \in Slots
    <3>1. CASE s = n - 2
      BY <3>1, <2>7, <2>8
    <3>2. CASE s # n - 2
      BY <3>2, <2>6
    <3> QED BY <3>1, <3>2
  <2>12. g_interface_size' =
           IF kind = "up" THEN g_interface_size + 1 ELSE g_interface_size
    BY <2>2 DEF Counts, TypeOK
  <2> QED BY <1>2, <2>9, <2>10, <2>11, <2>12
<1> QED BY <1>1, <1>2

(* ... and what that means for the sets that are counted. *)
LEMMA LinkCounts ==
  ASSUME TypeOK, CountInv, NEW n \in Index, NEW kind \in Kinds, Link(n, kind),
         \/ n = cursor /\ cursor' = cursor + 1 /\ events' = events
         \/ cursor' = cursor /\ events' = events + 1
  PROVE  CountInv'
<1> DEFINE counted == InTable(n) /\ kind = "up"
<1>1. /\ \A s \in Slots : if_array'[s].active <=>
                            if_array[s].active \/ (counted /\ s = n - 2)
      /\ g_interface_size' =
           IF counted THEN g_interface_size + 1 ELSE g_interface_size
  BY LinkEffect
<1>2. counted => n - 2 \in Slots
  BY SizeAssumption DEF InTable, Index, Slots
<1>3. cursor \in Nat /\ n \in Nat /\ g_interface_size \in Nat /\ events \in Nat
  BY SizeAssumption, EventAssumption DEF TypeOK, Index
<1>4. ActiveSlots \in SUBSET Slots /\ Undumped \in SUBSET Slots
  BY DEF ActiveSlots, Undumped
<1>5. /\ IsFiniteSet(ActiveSlots) /\ Cardinality(ActiveSlots) \in Nat
      /\ IsFiniteSet(Undumped) /\ Cardinality(Undumped) \in Nat
  BY <1>4, SlotsFinite
<1>6. ActiveSlots' = IF counted THEN ActiveSlots \cup {n - 2} ELSE ActiveSlots
  BY <1>1, <1>2 DEF ActiveSlots
<1> HIDE DEF counted
<1>7. Cardinality(ActiveSlots') =
        IF counted /\ n - 2 \notin ActiveSlots
        THEN Cardinality(ActiveSlots) + 1 ELSE Cardinality(ActiveSlots)
  BY <1>5, <1>6, FS_AddElement
<1>8. CASE n = cursor /\ cursor' = cursor + 1 /\ events' = events
  <2>1. Undumped' = Undumped \ {n - 2}
    BY <1>3, <1>6, <1>8 DEF Undumped, ActiveSlots, Slots
  <2>2. n - 2 \in Undumped <=> n - 2 \in ActiveSlots
    BY <1>3, <1>8 DEF Undumped
  <2>3. Cardinality(Undumped') =
          IF n - 2 \in ActiveSlots
          THEN Cardinality(Undumped) - 1 ELSE Cardinality(Undumped)
    BY <1>5, <2>1, <2>2, FS_RemoveElement
  <2> QED
    BY <1>1, <1>3, <1>5, <1>7, <1>8, <2>3 DEF CountInv
<1>9. CASE cursor' = cursor /\ events' = events + 1
  <2>1. Undumped' = IF counted /\ n >= cursor THEN Undumped \cup {n - 2}
                    ELSE Undumped
    BY <1>3, <1>6, <1>9 DEF Undumped, ActiveSlots, Slots
  <2>2. n >= cursor => (n - 2 \in Undumped <=> n - 2 \in ActiveSlots)
    BY <1>3 DEF Undumped
  <2>3. Cardinality(Undumped') =
          IF counted /\ n >= cursor /\ n - 2 \notin ActiveSlots
          THEN Cardinality(Undumped) + 1 ELSE Cardinality(Undumped)
    BY <1>5, <2>1, <2>2, FS_AddElement
  <2> QED
    BY <1>1, <1>3, <1>5, <1>7, <1>9, <2>3 DEF CountInv
<1> QED BY <1>8, <1>9

-----------------------------------------------------------------------------
(* An empty if_array satisfies the invariant. *)
LEMMA Begins == Init => DiscoveryInv
<1> SUFFICES ASSUME Init PROVE DiscoveryInv
  OBVIOUS
<1>1. TypeOK
  BY SizeAssumption, EventAssumption DEF Init, TypeOK, Index, Kinds
<1>2. ActiveSlots = {} /\ Undumped = {}
  BY DEF Init, ActiveSlots, Undumped
<1>3. CountInv
  BY <1>2, FS_EmptySet DEF Init, CountInv
<1>4. DumpInv
  <2> SUFFICES ASSUME NEW s \in Slots
               PROVE ~if_array[s].active /\ ~(s + 2 < cursor)
    BY DEF DumpInv
  <2> QED BY SizeAssumption DEF Init, Slots
<1>5. DoneInv
  BY DEF Init, DoneInv
<1> QED BY <1>1, <1>3, <1>4, <1>5 DEF DiscoveryInv

(* A step that leaves the tables and the counts alone. *)
LEMMA Unmoved ==
  ASSUME CountInv,
         UNCHANGED <<cursor, if_array, g_interface_size, events>>
  PROVE  CountInv'
<1>1. ActiveSlots' = ActiveSlots /\ Undumped' = Undumped
  BY DEF ActiveSlots, Undumped
<1> QED BY <1>1 DEF CountInv

(* The next message of the dump keeps the invariant: a slot leaves         *)
(* Undumped just when its link is counted again.                           *)
LEMMA DumpLinkSteps == DiscoveryInv /\ DumpLink => DiscoveryInv'
<1> SUFFICES ASSUME DiscoveryInv, DumpLink PROVE DiscoveryInv'
  OBVIOUS
<1> USE DEF DiscoveryInv
<1>1. cursor \in Index /\ cursor \in Nat /\ links[cursor] \in Kinds
  BY SizeAssumption DEF DumpLink, TypeOK, Index
<1>2. cursor' = cursor + 1 /\ UNCHANGED <<pc, links, events>> /\ pc = "dump"
  BY DEF DumpLink
<1>3. DoneInv'
  BY <1>2 DEF DoneInv
<1>4. cursor' \in 1 .. MaxIndex + 1
  BY <1>1, <1>2, SizeAssumption DEF DumpLink
<1>5. CASE links[cursor] = "absent"
  <2>1. UNCHANGED <<if_array, g_interface_size>>
    BY <1>5 DEF DumpLink
  <2>2. TypeOK'
    BY <1>2, <1>4, <2>1 DEF TypeOK
  <2>3. ActiveSlots' = ActiveSlots /\ ActiveSlots \in SUBSET Slots
    BY <2>1 DEF ActiveSlots
  <2>4. Undumped' \in SUBSET Undumped /\ Undumped \in SUBSET Slots
    BY <1>1, <1>2, <2>3 DEF Undumped, ActiveSlots, Slots
  <2>5. /\ Cardinality(Undumped') <= Cardinality(Undumped)
        /\ Cardinality(Undumped) \in Nat /\ Cardinality(Undumped') \in Nat
        /\ Cardinality(ActiveSlots) \in Nat
    <3>1. Undumped' \in SUBSET Slots
      BY <2>4
    <3>2. IsFiniteSet(Undumped)
      BY <2>4, SlotsFinite
    <3> QED BY <2>3, <2>4, <3>1, <3>2, SlotsFinite, FS_Subset
  <2>6. CountInv'
    BY <1>2, <2>1, <2>3, <2>5, EventAssumption DEF CountInv, TypeOK
  <2>7. DumpInv'
    <3> SUFFICES ASSUME events = 0, NEW s \in Slots
                 PROVE if_array[s].active <=>
                         s + 2 < cursor + 1 /\ s + 2 < MAX_INTERFACE_SIZE
                         /\ links[s + 2] = "up"
      BY <1>2, <2>1 DEF DumpInv
    <3>1. s + 2 < cursor + 1 <=> s + 2 < cursor \/ s + 2 = cursor
      BY <1>1 DEF Slots
    <3> QED BY <1>5, <3>1 DEF DumpInv
  <2> QED BY <1>3, <2>2, <2>6, <2>7
<1>6. CASE links[cursor] # "absent"
  <2>1. Link(cursor, links[cursor])
    BY <1>6 DEF DumpLink
  <2> DEFINE counted == InTable(cursor) /\ links[cursor] = "up"
  <2>2. /\ if_array' \in
             [Slots -> [ifindex : Nat, active : BOOLEAN, tx : BOOLEAN]]
        /\ \A s \in Slots : if_array'[s].ifindex \in {0, s + 2}
        /\ \A s \in Slots : if_array'[s].active <=>
             if_array[s].active \/ (counted /\ s = cursor - 2)
        /\ g_interface_size' =
             IF counted THEN g_interface_size + 1 ELSE g_interface_size
    BY <1>1, <2>1, LinkEffect
  <2>3. TypeOK'
    BY <1>2, <1>4, <2>2 DEF TypeOK
  <2>4. CountInv'
    BY <1>1, <1>2, <2>1, LinkCounts
  <2>5. DumpInv'
    <3> SUFFICES ASSUME events = 0, NEW s \in Slots
                 PROVE if_array'[s].active <=>
                         s + 2 < cursor + 1 /\ s + 2 < MAX_INTERFACE_SIZE
                         /\ links[s + 2] = "up"
      BY <1>2 DEF DumpInv
    <3>1. /\ s + 2 < cursor + 1 <=> s + 2 < cursor \/ s + 2 = cursor
          /\ s = cursor - 2 <=> s + 2 = cursor
          /\ ~(s + 2 = cursor /\ s + 2 < cursor)
      BY <1>1 DEF Slots
    <3>2. if_array[s].active <=>
            s + 2 < cursor /\ s + 2 < MAX_INTERFACE_SIZE
            /\ links[s + 2] = "up"
      BY DEF DumpInv
    <3>3. s + 2 = cursor => (InTable(cursor) <=> s + 2 < MAX_INTERFACE_SIZE)
      BY <1>1 DEF InTable, Slots
    <3> QED BY <2>2, <3>1, <3>2, <3>3
  <2> QED BY <1>3, <2>3, <2>4, <2>5
<1> QED BY <1>5, <1>6

(* What a notification makes of a link is a kind of link. *)
LEMMA ToldKinds ==
  ASSUME TypeOK, NEW n \in Index, LinkEvent(n)
  PROVE  links'[n] \in Kinds /\ links' \in [Index -> Kinds]
<1>1. PICK kind \in Kinds : links' = [links EXCEPT ![n] = kind]
  BY DEF LinkEvent, Told
<1> QED BY <1>1 DEF TypeOK

(* A notification keeps it: what it counts, or leaves to be counted twice, *)
(* it pays for with `events`.                                              *)
LEMMA LinkEventSteps ==
  ASSUME DiscoveryInv, NEW n \in Index, LinkEvent(n)
  PROVE  DiscoveryInv'
<1> USE DEF DiscoveryInv
<1>1. UNCHANGED <<pc, cursor>> /\ events' = events + 1 /\ events < MaxEvents
  BY DEF LinkEvent
<1>2. /\ links'[n] \in Kinds /\ links' \in [Index -> Kinds]
      /\ Link(n, links'[n])
  BY ToldKinds DEF LinkEvent
<1>3. /\ if_array' \in
           [Slots -> [ifindex : Nat, active : BOOLEAN, tx : BOOLEAN]]
      /\ \A s \in Slots : if_array'[s].ifindex \in {0, s + 2}
      /\ g_interface_size' \in {g_interface_size, g_interface_size + 1}
  BY <1>2, LinkEffect
<1>4. TypeOK'
  BY <1>1, <1>2, <1>3, EventAssumption DEF TypeOK
<1>5. CountInv'
  BY <1>1, <1>2, LinkCounts
<1>6. DumpInv' /\ DoneInv'
  BY <1>1, EventAssumption DEF DumpInv, DoneInv, TypeOK
<1> QED BY <1>4, <1>5, <1>6

(* Every step of get_all_interfaces_info keeps the invariant. *)
LEMMA Steps == DiscoveryInv /\ [Next]_vars => DiscoveryInv'
<1> SUFFICES ASSUME DiscoveryInv, [Next]_vars PROVE DiscoveryInv'
  OBVIOUS
<1>1. CASE DumpLink
  BY <1>1, DumpLinkSteps
<1>2. CASE \E n \in Index : LinkEvent(n)
  BY <1>2, LinkEventSteps
<1>3. CASE DumpDone \/ CallFails \/ DumpError \/ UNCHANGED vars
  <2>1. UNCHANGED <<links, cursor, if_array, g_interface_size, events>>
    BY <1>3 DEF DumpDone, CallFails, DumpError, vars
  <2>2. CountInv'
    BY <2>1, Unmoved DEF DiscoveryInv
  <2>3. TypeOK'
    BY <1>3, <2>1
    DEF DiscoveryInv, TypeOK, DumpDone, CallFails, DumpError, vars
  <2>4. DumpInv'
    BY <2>1 DEF DiscoveryInv, DumpInv
  <2>5. DoneInv'
    BY <1>3, <2>1
    DEF DiscoveryInv, DoneInv, DumpDone, CallFails, DumpError, vars
  <2> QED BY <2>2, <2>3, <2>4, <2>5 DEF DiscoveryInv
<1> QED BY <1>1, <1>2, <1>3 DEF Next

(* So it always holds. *)
LEMMA Always == Spec => []DiscoveryInv
BY Begins, Steps, PTL DEF Spec

-----------------------------------------------------------------------------
(* Each notification that get_all_interfaces_info mistakes for a message   *)
(* of the dump costs one thread too many at most; without them the count   *)
(* main.c starts threads by is the number of cards found (util.c:283).     *)
THEOREM CountIsOfSlots == Spec => []CountFitsSlots
<1>1. DiscoveryInv => CountFitsSlots
  <2> SUFFICES ASSUME DiscoveryInv PROVE CountFitsSlots
    OBVIOUS
  <2>1. ActiveSlots \in SUBSET Slots /\ Undumped \in SUBSET Slots
    BY DEF ActiveSlots, Undumped
  <2>2. Cardinality(ActiveSlots) \in Nat /\ Cardinality(Undumped) \in Nat
    BY <2>1, SlotsFinite
  <2> QED
    BY <2>2, EventAssumption DEF DiscoveryInv, TypeOK, CountInv, CountFitsSlots
<1> QED BY <1>1, Always, PTL

(* When the cards that are up are links 2 .. k and none changes, the       *)
(* threads main.c starts are those of the cards: the slots, numbered by    *)
(* link, and the threads, numbered by count, then are the same.            *)
THEOREM CardsServed == Spec => []EveryCardServed
<1>1. DiscoveryInv /\ CountFitsSlots => EveryCardServed
  <2> SUFFICES ASSUME DiscoveryInv, CountFitsSlots, pc = "done", events = 0,
                      NEW k \in 1 .. MAX_INTERFACE_SIZE - 1, k <= MaxIndex,
                      \A n \in Index \ {1} : links[n] = "up" <=> n <= k
               PROVE  Threads = ActiveSlots /\ Threads = 0 .. k - 2
    BY DEF EveryCardServed
  <2>1. k \in Nat /\ k >= 1 /\ k < MAX_INTERFACE_SIZE
    BY SizeAssumption
  <2>2. cursor = MaxIndex + 1
    BY DEF DiscoveryInv, DoneInv
  <2>3. ASSUME NEW s \in Slots PROVE if_array[s].active <=> s <= k - 2
    <3>1. if_array[s].active <=>
            s + 2 < cursor /\ s + 2 < MAX_INTERFACE_SIZE
            /\ links[s + 2] = "up"
      BY DEF DiscoveryInv, DumpInv
    <3>2. s + 2 < cursor <=> s + 2 \in Index \ {1}
      BY <2>2, SizeAssumption DEF Slots, Index
    <3>3. s + 2 \in Index \ {1} => (links[s + 2] = "up" <=> s + 2 <= k)
      OBVIOUS
    <3>4. s + 2 <= k => s + 2 < cursor /\ s + 2 < MAX_INTERFACE_SIZE
      BY <2>1, <2>2, SizeAssumption DEF Slots
    <3>5. s + 2 <= k <=> s <= k - 2
      BY <2>1 DEF Slots
    <3> QED BY <3>1, <3>2, <3>3, <3>4, <3>5
  <2>4. ActiveSlots = 0 .. k - 2
    BY <2>1, <2>3, SizeAssumption DEF ActiveSlots, Slots
  <2>5. Cardinality(ActiveSlots) = k - 1
    BY <2>1, <2>4, FS_Interval
  <2>6. g_interface_size = k - 1
    BY <2>1, <2>5 DEF CountFitsSlots, DiscoveryInv, TypeOK
  <2> QED BY <2>1, <2>4, <2>6 DEF Threads
<1> QED BY <1>1, Always, CountIsOfSlots, PTL

(* Types of what the dump leaves: a slot has no ifindex, or the one that is*)
(* two above it (util.c:256).                                              *)
THEOREM TypeCorrect == Spec => []TypeOK
BY Always, PTL DEF DiscoveryInv

-----------------------------------------------------------------------------
(* An active slot below which all slots are active has got its statistics: *)
(* the cards before it have been counted when its message came.            *)
StatsInv ==
    events = 0 =>
        \A s \in Slots :
            s + 2 < cursor /\ (\A r \in 0 .. s : if_array[r].active)
                => if_array[s].tx

(* A run of active slots from 0 on is not longer than the count. *)
LEMMA RunCounted ==
  ASSUME DiscoveryInv, NEW s \in Slots, 0 .. s - 1 \subseteq ActiveSlots
  PROVE  s <= g_interface_size
<1>1. ActiveSlots \in SUBSET Slots
  BY DEF ActiveSlots
<1>2. IsFiniteSet(ActiveSlots) /\ Cardinality(ActiveSlots) \in Nat
  BY <1>1, SlotsFinite
<1>3. s \in Nat
  BY DEF Slots
<1>4. Cardinality(0 .. s - 1) = s
  BY <1>3, FS_Interval
<1>5. s <= Cardinality(ActiveSlots)
  BY <1>2, <1>4, FS_Subset
<1> QED
  BY <1>2, <1>3, <1>5 DEF DiscoveryInv, CountInv, TypeOK

(* What a message does to the statistics. *)
LEMMA LinkStats ==
  ASSUME TypeOK, NEW n \in Index, NEW kind \in Kinds, Link(n, kind)
  PROVE  /\ \A s \in Slots : s # n - 2 => if_array'[s] = if_array[s]
         /\ InTable(n) /\ kind = "up" /\ n - 2 <= g_interface_size
              => if_array'[n - 2].tx
<1>1. CASE ~InTable(n)
  BY <1>1 DEF Link
<1>2. CASE InTable(n)
  <2>1. n - 2 \in Slots
    BY <1>2, SizeAssumption DEF InTable, Index, Slots
  <2> DEFINE size == g_interface_size + (IF Counts(kind) THEN 1 ELSE 0)
             entry == [ifindex |-> n,
                       active  |-> if_array[n - 2].active \/ Counts(kind),
                       tx      |-> if_array[n - 2].tx
                                   \/ (kind # "tap0" /\ n - 2 <= size)]
  <2>2. if_array' = [if_array EXCEPT ![n - 2] = entry]
    BY <1>2 DEF Link
  <2>3. ASSUME kind = "up", n - 2 <= g_interface_size PROVE entry.tx
    <3>1. kind # "tap0" /\ n - 2 <= size
      BY <2>3 DEF Counts, TypeOK, Index
    <3> QED BY <3>1, Zenon
  <2> HIDE DEF entry
  <2>4. if_array'[n - 2] = entry
    BY <2>1, <2>2 DEF TypeOK
  <2>5. \A s \in Slots : s # n - 2 => if_array'[s] = if_array[s]
    BY <2>2 DEF TypeOK
  <2> QED BY <2>3, <2>4, <2>5
<1> QED BY <1>1, <1>2

(* Each message of the dump adds a slot to what StatsInv speaks of.        *)
LEMMA StatsSteps ==
  DiscoveryInv /\ DiscoveryInv' /\ StatsInv /\ [Next]_vars => StatsInv'
<1> SUFFICES ASSUME DiscoveryInv, DiscoveryInv', StatsInv, [Next]_vars,
                    events' = 0, NEW s \in Slots, s + 2 < cursor',
                    \A r \in 0 .. s : if_array'[r].active
             PROVE  if_array'[s].tx
  BY DEF StatsInv
<1>1. cursor \in Nat /\ events \in Nat /\ s \in Nat /\ g_interface_size \in Nat
  BY SizeAssumption, EventAssumption DEF DiscoveryInv, TypeOK, Slots
<1>2. CASE DumpLink
  <2>1. cursor \in Index /\ links[cursor] \in Kinds /\ cursor' = cursor + 1
        /\ events = 0
    BY <1>1, <1>2, SizeAssumption DEF DiscoveryInv, TypeOK, DumpLink, Index
  <2>2. \A r \in Slots : r # cursor - 2 => if_array'[r] = if_array[r]
    BY <1>2, <2>1, LinkStats DEF DiscoveryInv, DumpLink
  <2>3. \A r \in 0 .. s : r \in Slots
    BY <1>1, SizeAssumption DEF Slots
  <2>4. CASE s + 2 < cursor
    <3>1. \A r \in 0 .. s : if_array'[r] = if_array[r]
      BY <1>1, <2>2, <2>3, <2>4
    <3> QED BY <1>1, <2>1, <2>4, <3>1 DEF StatsInv
  <2>5. CASE s + 2 = cursor
    <3>1. if_array'[s].active
      BY <1>1
    <3>2. s + 2 < MAX_INTERFACE_SIZE /\ links'[s + 2] = "up"
      BY <3>1 DEF DiscoveryInv, DumpInv
    <3>3. links[cursor] = "up" /\ InTable(cursor)
      BY <1>1, <1>2, <2>5, <3>2 DEF DumpLink, InTable
    <3>4. 0 .. s - 1 \subseteq ActiveSlots
      BY <1>1, <2>2, <2>3, <2>5 DEF ActiveSlots
    <3>5. s <= g_interface_size
      BY <3>4, RunCounted
    <3>6. Link(cursor, links[cursor])
      BY <1>2, <3>3 DEF DumpLink
    <3>7. cursor - 2 = s
      BY <1>1, <2>5
    <3>8. if_array'[cursor - 2].tx
      BY <2>1, <3>3, <3>5, <3>6, <3>7, LinkStats DEF DiscoveryInv
    <3> QED BY <3>7, <3>8
  <2> QED BY <1>1, <2>1, <2>4, <2>5
<1>3. CASE \E n \in Index : LinkEvent(n)
  BY <1>1, <1>3 DEF LinkEvent
<1>4. CASE DumpDone \/ CallFails \/ DumpError \/ UNCHANGED vars
  <2>1. UNCHANGED <<cursor, if_array, events>>
    BY <1>4 DEF DumpDone, CallFails, DumpError, vars
  <2> QED BY <2>1 DEF StatsInv
<1> QED BY <1>2, <1>3, <1>4 DEF Next

(* If the slots that threads are started for all hold cards, none of them  *)
(* is without the statistics that get_device_stats filled in (util.c:689). *)
THEOREM StatsServed == Spec => []StatsOfThreads
<1>1. Init => StatsInv
  BY SizeAssumption DEF Init, StatsInv, Slots
<1>2. Spec => []StatsInv
  BY <1>1, Always, StatsSteps, PTL DEF Spec
<1>3. DiscoveryInv /\ StatsInv => StatsOfThreads
  <2> SUFFICES ASSUME DiscoveryInv, StatsInv, pc = "done", events = 0,
                      Threads \subseteq ActiveSlots, NEW s \in Threads
               PROVE  if_array[s].tx
    BY DEF StatsOfThreads
  <2>1. s \in Slots /\ if_array[s].active
    BY DEF ActiveSlots
  <2>2. s \in Nat /\ g_interface_size \in Nat /\ s < g_interface_size
    BY <2>1 DEF Threads, Slots, DiscoveryInv, TypeOK
  <2>3. \A r \in 0 .. s : if_array[r].active
    BY <2>2 DEF Threads, ActiveSlots
  <2>4. s + 2 < cursor
    BY <2>1 DEF DiscoveryInv, DumpInv
  <2> QED BY <2>1, <2>3, <2>4 DEF StatsInv
<1> QED BY <1>2, <1>3, Always, PTL
=============================================================================
