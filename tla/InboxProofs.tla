----------------------------- MODULE InboxProofs -----------------------------
(***************************************************************************)
(* Proofs about PodInbox: its types, that a message becomes one item more  *)
(* than it was forgotten, and that what the phone's cursor has passed its  *)
(* copy shows as the relay has it, whatever is paged, lost, purged or      *)
(* restored, unless the answer of a mark or load crossed a sync.           *)
(***************************************************************************)
EXTENDS PodInbox, FiniteSetTheorems, WellFoundedInduction, TLAPS

-----------------------------------------------------------------------------
(* The inductive invariant                                                 *)

\* Whatever changes later gets a number beyond every cursor.
BoundInv ==
  /\ \A k \in Keys : /\ item[k].seq <= sequence /\ item[k].deleted <= now
                     /\ Exists(k) <=> item[k].seq > 0
  /\ phone.cursor <= sequence /\ disk.cursor <= sequence /\ page.cursor <= sequence
  /\ phone.start <= now

\* These items show every row whose last change is not after the cursor.
Current(items, c) == \A k \in Keys \ crossed : item[k].seq <= c => items[k] = View(k)

\* Memory and disk are current; a page brings every row the cursor will pass.
CopyInv ==
  Valid => /\ Current(phone.items, phone.cursor) /\ Current(disk.items, disk.cursor)
           /\ page.taken =>
                /\ phone.cursor <= page.cursor
                /\ \A k \in Keys :
                     /\ phone.cursor < item[k].seq /\ item[k].seq <= page.cursor => k \in page.keys
                     /\ k \in page.keys /\ item[k].seq <= page.cursor => page.items[k] = View(k)

\* An answer that crossed no sync is up to date, or the change it misses is
\* still to be synced.
ReplyInv ==
  Valid => \A r \in replies :
    \/ r.key \in crossed
    \/ r.view = View(r.key)
    \/ item[r.key].seq > phone.cursor /\ (page.taken => item[r.key].seq > page.cursor)

\* Nothing of the phone's shows an item whose tombstone this session may outlive.
Held(k) == \/ phone.items[k] # Absent \/ disk.items[k] # Absent
           \/ page.taken /\ page.items[k] # Absent
           \/ \E r \in replies : r.key = k
Kept(k) == Exists(k) /\ (item[k].deleted = Live \/ item[k].deleted >= phone.start)
HeldInv == Valid => \A k \in Keys : Held(k) => Kept(k)

\* A message has its item exactly if it became one since it was last forgotten.
StoredInv ==
  \A m \in Messages :
    /\ forgotten[m] <= stored[m] /\ stored[m] <= 1 + forgotten[m]
    /\ Exists(m) => stored[m] = 1 + forgotten[m]
    /\ outbox[m] = "none" => stored[m] = 0 /\ Publish(m) \notin stray
    /\ outbox[m] = "delivered" => stored[m] >= 1
    /\ Unsettled(m) /\ stored[m] = 1 + forgotten[m] => Exists(m)

IInv == TypeOK /\ BoundInv /\ HeldInv /\ CopyInv /\ ReplyInv /\ StoredInv

-----------------------------------------------------------------------------
(* Extremes of finite sets of numbers                                      *)

\* A function of a finite set into the naturals has a greatest value.
LEMMA Greatest ==
  ASSUME NEW S, IsFiniteSet(S), S # {}, NEW f \in [S -> Nat]
  PROVE  \E x \in S : \A y \in S : f[y] <= f[x]
<1> DEFINE Above(x) == {y \in S : f[y] > f[x]}
           T == {Above(x) : x \in S}
<1>1. IsWellFoundedOn(StrictSubsetOrdering(S), FiniteSubsetsOf(S))
  BY FS_StrictSubsetOrderingWellFounded
<1>2. T \subseteq FiniteSubsetsOf(S) /\ T # {}
  <2>1. FiniteSubsetsOf(S) = SUBSET S
    BY FS_FiniteSubsetsOfFinite
  <2>2. T \subseteq SUBSET S
    OBVIOUS
  <2>3. PICK x \in S : TRUE
    OBVIOUS
  <2>4. Above(x) \in T
    OBVIOUS
  <2> QED BY <2>1, <2>2, <2>4
<1>3. PICK A \in T : \A B \in T : ~(<<B, A>> \in StrictSubsetOrdering(S))
  <2> HIDE DEF T
  <2> QED BY <1>1, <1>2, WFMin
<1>4. PICK x \in S : A = Above(x)
  BY <1>3
<1>5. ASSUME NEW y \in S, f[y] > f[x] PROVE FALSE
  <2>1. Above(y) \subseteq Above(x) /\ y \in Above(x) /\ y \notin Above(y)
    BY <1>5
  <2>2. <<Above(y), Above(x)>> \in StrictSubsetOrdering(S)
    BY <2>1 DEF StrictSubsetOrdering
  <2> QED BY <2>2, <1>3, <1>4
<1> QED BY <1>5

\* And a least one.
LEMMA Least ==
  ASSUME NEW S, IsFiniteSet(S), S # {}, NEW f \in [S -> Nat]
  PROVE  \E x \in S : \A y \in S : f[x] <= f[y]
<1> DEFINE Below(x) == {y \in S : f[y] < f[x]}
           T == {Below(x) : x \in S}
<1>1. IsWellFoundedOn(StrictSubsetOrdering(S), FiniteSubsetsOf(S))
  BY FS_StrictSubsetOrderingWellFounded
<1>2. T \subseteq FiniteSubsetsOf(S) /\ T # {}
  <2>1. FiniteSubsetsOf(S) = SUBSET S
    BY FS_FiniteSubsetsOfFinite
  <2>2. T \subseteq SUBSET S
    OBVIOUS
  <2>3. PICK x \in S : TRUE
    OBVIOUS
  <2>4. Below(x) \in T
    OBVIOUS
  <2> QED BY <2>1, <2>2, <2>4
<1>3. PICK A \in T : \A B \in T : ~(<<B, A>> \in StrictSubsetOrdering(S))
  <2> HIDE DEF T
  <2> QED BY <1>1, <1>2, WFMin
<1>4. PICK x \in S : A = Below(x)
  BY <1>3
<1>5. ASSUME NEW y \in S, f[y] < f[x] PROVE FALSE
  <2>1. Below(y) \subseteq Below(x) /\ y \in Below(x) /\ y \notin Below(y)
    BY <1>5
  <2>2. <<Below(y), Below(x)>> \in StrictSubsetOrdering(S)
    BY <2>1 DEF StrictSubsetOrdering
  <2> QED BY <2>2, <1>3, <1>4
<1> QED BY <1>5

-----------------------------------------------------------------------------
(* Pages                                                                   *)

\* A page ends at a change that exists, and contains every change up to it.
LEMMA PageIsPrefix ==
  ASSUME TypeOK, BoundInv, NEW c \in Nat, c <= sequence
  PROVE  /\ PageEnd(c) \in Nat /\ c <= PageEnd(c) /\ PageEnd(c) <= sequence
         /\ FirstPage(c) \subseteq Keys
         /\ \A k \in Keys : c < item[k].seq /\ item[k].seq <= PageEnd(c) => k \in FirstPage(c)
<1> DEFINE P == FirstPage(c)
           A == After(c)
           f == [k \in A |-> item[k].seq]
<1>1. /\ IsFiniteSet(A) /\ A \subseteq Keys /\ P \subseteq A /\ f \in [A -> Nat]
      /\ IsFiniteSet(P) /\ [k \in P |-> item[k].seq] \in [P -> Nat]
  BY InboxAssumption, FS_Subset DEF FirstPage, After, TypeOK, Rows
<1>2. \A k \in Keys : c < item[k].seq => k \in A
  BY DEF BoundInv, After, TypeOK, Rows
<1>3. CASE A = {}
  BY <1>1, <1>2, <1>3 DEF PageEnd, TypeOK
<1>4. CASE A # {}
  <2>1. PICK x \in A : \A y \in A : f[x] <= f[y]
    <3> HIDE DEF A, f
    <3> QED BY <1>1, <1>4, Least
  <2>2. {j \in A : item[j].seq < item[x].seq} = {}
    BY <2>1, <1>1 DEF TypeOK, Rows
  <2>3. x \in P
    <3>1. Cardinality({j \in A : item[j].seq < item[x].seq}) = 0
      BY <2>2, FS_EmptySet
    <3>2. 0 < PageSize
      BY InboxAssumption
    <3>3. Cardinality({j \in A : item[j].seq < item[x].seq}) < PageSize
      BY <3>1, <3>2
    <3> QED BY <2>1, <3>3 DEF FirstPage
  <2>4. PICK z \in P : \A y \in P : item[y].seq <= item[z].seq
    <3> DEFINE g == [k \in P |-> item[k].seq]
    <3>1. \E z \in P : \A y \in P : g[y] <= g[z]
      <4>1. P # {} /\ IsFiniteSet(P) /\ g \in [P -> Nat]
        BY <1>1, <2>3
      <4> HIDE DEF P, g
      <4> QED BY <4>1, Greatest
    <3> QED BY <3>1
  <2>5. /\ PageEnd(c) \in {item[k].seq : k \in P}
        /\ \A k \in P : item[k].seq <= PageEnd(c)
    <3> DEFINE Q(n) == \A k \in P : item[k].seq <= n
               N == {item[k].seq : k \in P}
    <3>1. PageEnd(c) = CHOOSE n \in N : Q(n)
      BY <1>4 DEF PageEnd
    <3>2. \E n \in N : Q(n)
      BY <2>4
    <3> QED BY <3>1, <3>2
  <2>6. PICK w \in P : PageEnd(c) = item[w].seq
    BY <2>5
  <2>7. ASSUME NEW k \in A, item[k].seq <= item[w].seq PROVE k \in P
    <3> DEFINE L(j) == {i \in A : item[i].seq < item[j].seq}
    <3>1. L(k) \subseteq L(w)
      BY <2>7, <1>1 DEF TypeOK, Rows
    <3>2. IsFiniteSet(L(w)) /\ Cardinality(L(w)) \in Nat /\ Cardinality(L(k)) \in Nat
      BY <1>1, FS_Subset, FS_CardinalityType
    <3>3. Cardinality(L(k)) <= Cardinality(L(w))
      BY <3>1, <3>2, FS_Subset
    <3>4. Cardinality(L(w)) < PageSize
      BY <2>6 DEF FirstPage
    <3> QED BY <3>2, <3>3, <3>4, InboxAssumption DEF FirstPage
  <2>8. item[w].seq \in Nat /\ item[w].seq > c /\ item[w].seq <= sequence
    BY <2>6, <1>1 DEF After, BoundInv, TypeOK, Rows
  <2> QED BY <1>1, <1>2, <2>6, <2>7, <2>8 DEF TypeOK
<1> QED BY <1>3, <1>4

-----------------------------------------------------------------------------
(* Changes of rows                                                         *)

\* What any request does to the rows: a changed row is numbered beyond what any
\* cursor has reached, and only old tombstones go.
Changed(k) ==
  /\ item'[k].seq > sequence /\ item'[k].seq <= sequence' /\ item'[k].state # "none"
  /\ item'[k].deleted \in {item[k].deleted, now, Live}
Purged(k) ==
  /\ item'[k] = NoRow /\ Exists(k)
  /\ item[k].deleted # Live /\ item[k].deleted < now - Tombstone
RelayStep ==
  /\ item' \in [Keys -> Rows] /\ sequence' \in Nat /\ sequence' >= sequence
  /\ \A k \in Keys : item'[k] = item[k] \/ Changed(k) \/ Purged(k)

\* Numbered rows differ from what they should be in their number only.
LEMMA NumberedRows ==
  ASSUME TypeOK, NEW S \in SUBSET Keys, NEW new, \A k \in S : new[k] \in Rows, Numbered(S, new)
  PROVE  /\ item' \in [Keys -> Rows] /\ sequence' \in Nat /\ sequence' >= sequence
         /\ \A k \in Keys \ S : item'[k] = item[k]
         /\ \A k \in S : /\ item'[k].seq > sequence /\ item'[k].seq <= sequence'
                         /\ item'[k].state = new[k].state /\ item'[k].version = new[k].version
                         /\ item'[k].read = new[k].read /\ item'[k].created = new[k].created
                         /\ item'[k].deleted = new[k].deleted
<1>1. Cardinality(S) \in Nat
  BY InboxAssumption, FS_Subset, FS_CardinalityType
<1>2. PICK seq \in [S -> (sequence + 1)..(sequence + Cardinality(S))] :
        item' = [k \in Keys |-> IF k \in S THEN [new[k] EXCEPT !.seq = seq[k]] ELSE item[k]]
  BY DEF Numbered
<1>3. sequence \in Nat /\ sequence' = sequence + Cardinality(S)
  BY DEF Numbered, TypeOK
<1>4. \A k \in S : seq[k] \in Nat /\ seq[k] > sequence /\ seq[k] <= sequence'
  BY <1>1, <1>3
<1>5. \A k \in S : [new[k] EXCEPT !.seq = seq[k]] \in Rows
  BY <1>4 DEF Rows
<1>6. item' \in [Keys -> Rows]
  BY <1>2, <1>5 DEF TypeOK
<1>7. \A k \in S : item'[k] = [new[k] EXCEPT !.seq = seq[k]]
  BY <1>2
<1>8. \A k \in S : /\ item'[k].seq = seq[k]
                   /\ item'[k].state = new[k].state /\ item'[k].version = new[k].version
                   /\ item'[k].read = new[k].read /\ item'[k].created = new[k].created
                   /\ item'[k].deleted = new[k].deleted
  BY <1>7 DEF Rows
<1> QED BY <1>1, <1>2, <1>3, <1>4, <1>6, <1>8

LEMMA PublishSteps ==
  ASSUME TypeOK, NEW m \in Messages, ServePublish(m)
  PROVE  /\ RelayStep /\ stored' \in [Messages -> Nat] /\ forgotten' = forgotten
         /\ \A k \in Keys \ {m} : item'[k] = item[k]
         /\ \/ Exists(m) /\ UNCHANGED <<item, stored>>
            \/ /\ ~Exists(m) /\ item'[m].state = "open" /\ item'[m].deleted = Live
               /\ stored' = [stored EXCEPT ![m] = @ + 1]
<1>1. CASE Exists(m)
  BY <1>1 DEF ServePublish, relay, RelayStep, TypeOK
<1>2. CASE ~Exists(m)
  <2> DEFINE new == [k \in Keys |-> NewRow(0)]
  <2>1. m \in Keys /\ new[m] = NewRow(0) /\ NewRow(0) \in Rows
    BY DEF Keys, NewRow, Rows, States, Live, TypeOK
  <2>2. Numbered({m}, new) /\ stored' = [stored EXCEPT ![m] = @ + 1] /\ forgotten' = forgotten
    BY <1>2 DEF ServePublish
  <2>3. /\ item' \in [Keys -> Rows] /\ sequence' \in Nat /\ sequence' >= sequence
        /\ \A k \in Keys \ {m} : item'[k] = item[k]
        /\ item'[m].seq > sequence /\ item'[m].seq <= sequence'
        /\ item'[m].state = "open" /\ item'[m].deleted = Live
    <3>1. {m} \in SUBSET Keys /\ \A k \in {m} : new[k] \in Rows
      BY <2>1
    <3>2. new[m].state = "open" /\ new[m].deleted = Live
      BY <2>1 DEF NewRow
    <3> HIDE DEF new
    <3> QED BY <2>2, <3>1, <3>2, NumberedRows
  <2> QED BY <1>2, <2>2, <2>3 DEF RelayStep, Changed, TypeOK
<1> QED BY <1>1, <1>2

LEMMA DecisionsStep ==
  ASSUME TypeOK, NEW set \in Sets, ServeDecisions(set)
  PROVE  RelayStep /\ UNCHANGED <<stored, forgotten>> /\ \A m \in Messages : item'[m] = item[m]
<1> DEFINE new == [k \in Keys |-> IF k \in Decisions THEN Decided(set, k) ELSE item[k]]
<1>1. PICK A \in SUBSET Added(set) : Numbered(A \cup Renewed(set) \cup Vanished(set), new)
  BY DEF ServeDecisions
<1> DEFINE S == A \cup Renewed(set) \cup Vanished(set)
<1>2. \A d \in Decisions : set[d] \in Int /\ set[d] >= -1
  BY InboxAssumption DEF Sets, NoSet
<1>3. ASSUME NEW k \in S
      PROVE  /\ k \in Decisions /\ k \in Keys /\ new[k] \in Rows
             /\ new[k].state # "none" /\ new[k].deleted \in {item[k].deleted, Live}
  <2>1. k \in Decisions /\ k \in Keys /\ item[k] \in Rows /\ set[k] \in Nat
    BY <1>2 DEF Added, Renewed, Vanished, Keys, TypeOK
  <2>2. new[k] = Decided(set, k)
    BY <2>1
  <2>3. CASE set[k] = 0
    BY <2>1, <2>2, <2>3 DEF Decided, Rows, States
  <2>4. CASE set[k] # 0 /\ Exists(k)
    BY <2>1, <2>2, <2>4 DEF Decided, Rows, States
  <2>5. CASE set[k] # 0 /\ ~Exists(k)
    BY <2>1, <2>2, <2>5 DEF Decided, NewRow, Rows, States, TypeOK
  <2> QED BY <2>1, <2>3, <2>4, <2>5
<1>4. S \in SUBSET Keys /\ S \cap Messages = {}
  BY <1>3, InboxAssumption
<1>5. /\ item' \in [Keys -> Rows] /\ sequence' \in Nat /\ sequence' >= sequence
      /\ \A k \in Keys \ S : item'[k] = item[k]
      /\ \A k \in S : Changed(k)
  <2> HIDE DEF new, S
  <2>1. Numbered(S, new)
    BY <1>1 DEF S
  <2> QED BY <1>3, <1>4, <2>1, NumberedRows DEF Changed
<1>6. \A m \in Messages : m \in Keys \ S
  BY <1>4 DEF Keys
<1> QED
  <2> HIDE DEF S
  <2> QED BY <1>5, <1>6 DEF RelayStep, ServeDecisions

\* mark and delete, by whomever
LEMMA TouchStep ==
  ASSUME TypeOK, NEW k \in Keys, Shown(k), NEW row \in Rows, row.state = item[k].state,
         row.deleted \in {Live, now}, Numbered({k}, [item EXCEPT ![k] = row])
  PROVE  /\ RelayStep /\ \A j \in Keys \ {k} : item'[j] = item[j]
         /\ item'[k].seq > sequence /\ item'[k].state = row.state /\ item'[k].version = row.version
         /\ item'[k].read = row.read /\ item'[k].deleted = row.deleted
<1> DEFINE new == [item EXCEPT ![k] = row]
<1>1. {k} \in SUBSET Keys /\ \A j \in {k} : new[j] \in Rows
  BY DEF TypeOK
<1>2. new[k] = row
  BY DEF TypeOK
<1>3. /\ item' \in [Keys -> Rows] /\ sequence' \in Nat /\ sequence' >= sequence
      /\ \A j \in Keys \ {k} : item'[j] = item[j]
      /\ item'[k].seq > sequence /\ item'[k].seq <= sequence'
      /\ item'[k].state = row.state /\ item'[k].version = row.version
      /\ item'[k].read = row.read /\ item'[k].deleted = row.deleted
  <2> HIDE DEF new
  <2>1. Numbered({k}, new)
    BY DEF new
  <2> QED BY <1>1, <1>2, <2>1, NumberedRows
<1> QED BY <1>3 DEF RelayStep, Changed, Shown, Exists

LEMMA RetainStep ==
  ASSUME TypeOK, Retain
  PROVE  /\ RelayStep
         /\ \A k \in Keys : IF k \in Purgeable THEN Exists(k) /\ item'[k].state = "none"
                                             ELSE item'[k].state = item[k].state
<1>1. /\ Expirable \subseteq Keys /\ Purgeable \subseteq Keys /\ Expirable \cap Purgeable = {}
      /\ Cardinality(Expirable) \in Nat
  BY InboxAssumption, FS_Subset, FS_CardinalityType DEF Expirable, Purgeable, Shown
<1>2. PICK seq \in [Expirable -> (sequence + 1)..(sequence + Cardinality(Expirable))] :
        item' = [k \in Keys |-> IF k \in Purgeable THEN NoRow
                                ELSE IF k \in Expirable
                                THEN [item[k] EXCEPT !.deleted = now, !.seq = seq[k]]
                                ELSE item[k]]
  BY DEF Retain
<1>3. sequence \in Nat /\ sequence' = sequence + Cardinality(Expirable)
  BY DEF Retain, TypeOK
<1>4. \A k \in Expirable : seq[k] \in Nat /\ seq[k] > sequence /\ seq[k] <= sequence'
  BY <1>1, <1>3
<1>5. ASSUME NEW k \in Keys
      PROVE  /\ item'[k] \in Rows /\ (item'[k] = item[k] \/ Changed(k) \/ Purged(k))
             /\ IF k \in Purgeable THEN Exists(k) /\ item'[k].state = "none"
                                  ELSE item'[k].state = item[k].state
  <2>1. CASE k \in Purgeable
    BY <1>2, <2>1 DEF Purged, Purgeable, NoRow, Rows, States, Live
  <2>2. CASE k \in Expirable /\ k \notin Purgeable
    <3>1. item'[k] = [item[k] EXCEPT !.deleted = now, !.seq = seq[k]] /\ item[k] \in Rows
      BY <1>2, <2>2 DEF TypeOK
    <3>2. Exists(k) /\ now \in Nat
      BY <2>2 DEF Expirable, Shown, TypeOK
    <3> QED BY <1>4, <2>2, <3>1, <3>2 DEF Changed, Rows, Exists
  <2>3. CASE k \notin Expirable /\ k \notin Purgeable
    BY <1>2, <2>3 DEF TypeOK, Exists
  <2> QED BY <2>1, <2>2, <2>3
<1>6. item' \in [Keys -> Rows]
  BY <1>2, <1>5
<1> QED BY <1>1, <1>3, <1>5, <1>6 DEF RelayStep

-----------------------------------------------------------------------------
(* Steps of the relay and the desktop preserve what the phone relies on    *)

\* A tombstone that goes is older than the session.
LEMMA PurgedUnheld ==
  ASSUME TypeOK, HeldInv, Valid, NEW k \in Keys, Purged(k)
  PROVE  ~Held(k)
BY InboxAssumption DEF TypeOK, HeldInv, Valid, Purged, Kept, Rows, Live, NoSession

LEMMA RelayKeeps ==
  ASSUME TypeOK, BoundInv, HeldInv, RelayStep, UNCHANGED <<now, phone, disk, page, crossed>>,
         \A r \in replies' \ replies : r.key \in Keys /\ Shown(r.key) /\ Valid
  PROVE  /\ BoundInv' /\ HeldInv'
         /\ CopyInv => CopyInv'
         /\ ReplyInv /\ (\A r \in replies' \ replies :
                \/ item'[r.key] = item[r.key] /\ r.view = View(r.key)
                \/ item'[r.key].seq > sequence) => ReplyInv'
<1> USE DEF TypeOK
<1>1. \A k \in Keys : item[k] \in Rows /\ item'[k] \in Rows
  BY DEF RelayStep
<1>2. BoundInv'
  <2>1. ASSUME NEW k \in Keys
        PROVE  /\ item'[k].seq <= sequence' /\ item'[k].deleted <= now
               /\ item'[k].state # "none" <=> item'[k].seq > 0
    <3>1. CASE item'[k] = item[k]
      BY <3>1, <1>1 DEF BoundInv, RelayStep, Rows, Exists
    <3>2. CASE Changed(k)
      BY <3>2, <1>1 DEF BoundInv, Changed, Rows, Live
    <3>3. CASE Purged(k)
      BY <3>3 DEF Purged, NoRow, Live, RelayStep
    <3> QED BY <3>1, <3>2, <3>3 DEF RelayStep
  <2>2. phone.cursor <= sequence' /\ disk.cursor <= sequence' /\ page.cursor <= sequence'
    BY DEF BoundInv, RelayStep
  <2> QED BY <2>1, <2>2 DEF BoundInv, Exists
<1>3. ASSUME NEW k \in Keys, Kept(k), Valid PROVE Kept(k)' \/ Purged(k)
  <2>1. phone.start <= now
    BY DEF BoundInv
  <2> QED BY <1>1, <1>3, <2>1 DEF Kept, Exists, RelayStep, Changed, Rows
<1>4. HeldInv'
  <2> SUFFICES ASSUME Valid', NEW k \in Keys, Held(k)' PROVE Kept(k)'
    BY DEF HeldInv
  <2>1. Valid
    BY DEF Valid
  <2>2. CASE Held(k)
    BY <1>3, <2>1, <2>2, PurgedUnheld DEF HeldInv
  <2>3. CASE ~Held(k)
    <3>1. PICK r \in replies' \ replies : r.key = k
      BY <2>3 DEF Held
    <3>2. Kept(k)
      BY <3>1 DEF Kept, Shown
    <3>3. ~Purged(k)
      BY <3>1 DEF Purged, Shown
    <3> QED BY <1>3, <2>1, <3>2, <3>3
  <2> QED BY <2>2, <2>3
<1>5. ASSUME NEW k \in Keys, item'[k] = item[k] PROVE View(k)' = View(k)
  BY <1>5 DEF View, Shown, Exists
<1>6. ASSUME NEW k \in Keys, Purged(k)
      PROVE  View(k)' = Absent /\ item'[k].seq = 0
  BY <1>6 DEF Purged, View, Shown, Exists, NoRow
<1>7. ASSUME CopyInv PROVE CopyInv'
  <2> SUFFICES ASSUME Valid' PROVE CopyInv'
    BY DEF CopyInv
  <2>1. Valid
    BY DEF Valid
  <2>2. ASSUME NEW k \in Keys
        PROVE  /\ k \notin crossed /\ item'[k].seq <= phone.cursor => phone.items[k] = View(k)'
               /\ k \notin crossed /\ item'[k].seq <= disk.cursor => disk.items[k] = View(k)'
               /\ page.taken =>
                    /\ phone.cursor < item'[k].seq /\ item'[k].seq <= page.cursor => k \in page.keys
                    /\ k \in page.keys /\ item'[k].seq <= page.cursor => page.items[k] = View(k)'
    <3>1. CASE item'[k] = item[k]
      BY <1>5, <1>7, <2>1, <3>1 DEF CopyInv, Current
    <3>2. CASE Changed(k)
      BY <1>1, <3>2 DEF BoundInv, Changed, Rows
    <3>3. CASE Purged(k)
      <4>1. phone.items[k] = Absent /\ disk.items[k] = Absent /\ (page.taken => page.items[k] = Absent)
        BY <2>1, <3>3, PurgedUnheld DEF Held
      <4> QED BY <1>6, <3>3, <4>1
    <3> QED BY <3>1, <3>2, <3>3 DEF RelayStep
  <2> QED BY <1>7, <2>1, <2>2 DEF CopyInv, Current
<1>8. ASSUME ReplyInv, \A r \in replies' \ replies :
                         \/ item'[r.key] = item[r.key] /\ r.view = View(r.key)
                         \/ item'[r.key].seq > sequence
      PROVE  ReplyInv'
  <2> SUFFICES ASSUME Valid', NEW r \in replies', r.key \notin crossed
               PROVE  \/ r.view = View(r.key)'
                      \/ item'[r.key].seq > phone.cursor /\ (page.taken => item'[r.key].seq > page.cursor)
    BY DEF ReplyInv
  <2>1. Valid
    BY DEF Valid
  <2>2. r.key \in Keys
    BY DEF TypeOK
  <2>3. CASE item'[r.key].seq > sequence
    BY <1>1, <2>2, <2>3 DEF BoundInv, Rows
  <2>4. CASE item'[r.key] = item[r.key]
    <3>1. View(r.key)' = View(r.key)
      BY <1>5, <2>2, <2>4
    <3>2. CASE r \in replies
      BY <1>8, <2>1, <2>4, <3>1, <3>2 DEF ReplyInv
    <3>3. CASE r \notin replies
      BY <1>8, <2>3, <2>4, <3>1, <3>3, <1>1, <2>2 DEF BoundInv, Rows
    <3> QED BY <3>2, <3>3
  <2>5. CASE Purged(r.key)
    <3>1. CASE r \in replies
      BY <2>1, <2>2, <2>5, <3>1, PurgedUnheld DEF Held
    <3>2. CASE r \notin replies
      BY <2>5, <3>2 DEF Purged, Shown
    <3> QED BY <3>1, <3>2
  <2> QED BY <2>2, <2>3, <2>4, <2>5 DEF RelayStep, Changed
<1> QED BY <1>2, <1>4, <1>7, <1>8

-----------------------------------------------------------------------------
(* Types                                                                   *)

\* What changes at the desktop and the relay, and what at the phone.
Elsewhere ==
  \/ \E m \in Messages : Notify(m) \/ Deliver(m) \/ DeliverUnanswered(m) \/ DeliverLate(m)
  \/ \E d \in Decisions : Ask(d)
  \/ Collect \/ SendDecisions \/ SendUnanswered \/ SendLate \/ Overdue
  \/ \E r \in stray : Arrive(r)
  \/ \E k \in Keys : Mark(k) \/ Delete(k)
  \/ Retain
OnPhone ==
  \/ \E k \in Keys : PhoneMark(k) \/ PhoneLoad(k)
  \/ SignIn \/ Revoke \/ Expire \/ Reopen \/ SyncRead \/ SyncApply \/ SyncLost
  \/ \E r \in replies : ReplyArrives(r) \/ ReplyLost(r)

LEMMA NextCases == Next <=> Elsewhere \/ OnPhone \/ Tick
BY DEF Next, Elsewhere, OnPhone

LEMMA RequestCases ==
  ASSUME TypeOK, NEW r \in stray
  PROVE  /\ r.type = "publish" => r.message \in Messages /\ r = Publish(r.message)
         /\ r.type = "decisions" => r.set \in Sets
BY DEF TypeOK, Requests, Publish, Publication

LEMMA MarkStep ==
  ASSUME TypeOK, NEW k \in Keys, Shown(k), Numbered({k}, [item EXCEPT ![k].read = ~@])
  PROVE  /\ RelayStep /\ \A j \in Keys \ {k} : item'[j] = item[j]
         /\ item'[k].seq > sequence /\ item'[k].state = item[k].state
         /\ item'[k].version = item[k].version /\ item'[k].read = ~item[k].read
         /\ item'[k].deleted = Live
<1> DEFINE row == [item[k] EXCEPT !.read = ~@]
<1>1. item[k] \in Rows /\ item[k].deleted = Live
  BY DEF TypeOK, Shown
<1>2. /\ row \in Rows /\ row.state = item[k].state /\ row.deleted \in {Live, now}
      /\ row.version = item[k].version /\ row.read = ~item[k].read /\ row.deleted = Live
  BY <1>1 DEF Rows
<1>3. [item EXCEPT ![k].read = ~@] = [item EXCEPT ![k] = row]
  OBVIOUS
<1> HIDE DEF row
<1> QED BY <1>2, <1>3, TouchStep

LEMMA DeleteStep ==
  ASSUME TypeOK, NEW k \in Keys, Shown(k), Numbered({k}, [item EXCEPT ![k].deleted = now])
  PROVE  /\ RelayStep /\ \A j \in Keys \ {k} : item'[j] = item[j]
         /\ item'[k].state = item[k].state /\ item'[k].deleted = now
<1> DEFINE row == [item[k] EXCEPT !.deleted = now]
<1>1. item[k] \in Rows /\ now \in Nat
  BY DEF TypeOK
<1>2. row \in Rows /\ row.state = item[k].state /\ row.deleted = now
  BY <1>1 DEF Rows
<1>3. [item EXCEPT ![k].deleted = now] = [item EXCEPT ![k] = row]
  OBVIOUS
<1> HIDE DEF row
<1> QED BY <1>2, <1>3, TouchStep

\* Every step of desktop and relay is a relay step that leaves the phone alone.
LEMMA ElsewhereSteps ==
  ASSUME TypeOK, Elsewhere
  PROVE  RelayStep /\ UNCHANGED <<now, client>>
<1> USE DEF TypeOK
<1>0. UNCHANGED relay => RelayStep
  BY DEF RelayStep, relay
<1>1. ASSUME NEW m \in Messages, Notify(m) \/ DeliverLate(m)
      PROVE  RelayStep /\ UNCHANGED <<now, client>>
  BY <1>0, <1>1 DEF Notify, DeliverLate
<1>2. ASSUME NEW m \in Messages, Deliver(m) \/ DeliverUnanswered(m)
      PROVE  RelayStep /\ UNCHANGED <<now, client>>
  BY <1>2, PublishSteps DEF Deliver, DeliverUnanswered
<1>3. ASSUME NEW d \in Decisions, Ask(d) PROVE RelayStep /\ UNCHANGED <<now, client>>
  BY <1>0, <1>3 DEF Ask
<1>4. CASE Collect \/ SendLate \/ Overdue
  BY <1>0, <1>4 DEF Collect, SendLate, Overdue
<1>5. CASE SendDecisions \/ SendUnanswered
  BY <1>5, DecisionsStep DEF SendDecisions, SendUnanswered
<1>6. ASSUME NEW r \in stray, Arrive(r) PROVE RelayStep /\ UNCHANGED <<now, client>>
  BY <1>0, <1>6, RequestCases, PublishSteps, DecisionsStep DEF Arrive
<1>7. ASSUME NEW k \in Keys, Mark(k) PROVE RelayStep /\ UNCHANGED <<now, client>>
  <2>1. Shown(k) /\ Numbered({k}, [item EXCEPT ![k].read = ~@]) /\ UNCHANGED <<now, client>>
    BY <1>7 DEF Mark
  <2> QED BY <2>1, MarkStep
<1>8. ASSUME NEW k \in Keys, Delete(k) PROVE RelayStep /\ UNCHANGED <<now, client>>
  <2>1. Shown(k) /\ Numbered({k}, [item EXCEPT ![k].deleted = now]) /\ UNCHANGED <<now, client>>
    BY <1>8 DEF Delete
  <2> QED BY <2>1, DeleteStep
<1>9. CASE Retain
  BY <1>9, RetainStep DEF Retain
<1> QED BY <1>1, <1>2, <1>3, <1>4, <1>5, <1>6, <1>7, <1>8, <1>9 DEF Elsewhere

LEMMA ViewType ==
  ASSUME TypeOK, NEW k \in Keys PROVE View(k) \in Views
BY DEF TypeOK, View, Views, Rows, Absent, States

LEMMA TypeInit == Init => TypeOK
BY InboxAssumption DEF Init, TypeOK, Rows, NoRow, States, Views, Absent, NoItems, Empty, NoPage, Sets,
   NoSession, Live

LEMMA TypeElsewhere ==
  ASSUME TypeOK, Elsewhere PROVE TypeOK'
<1> USE DEF TypeOK
<1>1. /\ now' \in Nat /\ item' \in [Keys -> Rows] /\ sequence' \in Nat
      /\ phone' \in [start : Nat \cup {NoSession}, items : [Keys -> Views], cursor : Nat]
      /\ disk' \in [items : [Keys -> Views], cursor : Nat]
      /\ page' \in [taken : BOOLEAN, keys : SUBSET Keys, items : [Keys -> Views], cursor : Nat, more : BOOLEAN]
      /\ replies' \subseteq [type : {"mark", "load"}, key : Keys, view : Views]
      /\ crossed' \subseteq Keys
  BY ElsewhereSteps DEF RelayStep, client
<1> DEFINE Rest == /\ outbox' \in [Messages -> {"none", "pending", "delivered"}]
                   /\ source' \in [Decisions -> 0..MaxVersion]
                   /\ collecting' \in Sets /\ published' \in Sets
                   /\ stored' \in [Messages -> Nat] /\ stray' \subseteq Requests
                   /\ acts' \in Nat /\ faults' \in Nat
                   /\ forgotten' \in [Messages -> Nat]
<1> USE DEF desktop, relay, bounds, Act, Fault
<1>2. ASSUME NEW m \in Messages, Notify(m) PROVE Rest
  BY <1>2 DEF Notify
<1>3. ASSUME NEW m \in Messages, Deliver(m) PROVE Rest
  BY <1>3, PublishSteps DEF Deliver
<1>4. ASSUME NEW m \in Messages, DeliverUnanswered(m) PROVE Rest
  BY <1>4, PublishSteps DEF DeliverUnanswered
<1>5. ASSUME NEW m \in Messages, DeliverLate(m) PROVE Rest
  BY <1>5 DEF DeliverLate, Requests
<1>6. ASSUME NEW d \in Decisions, Ask(d) PROVE Rest
  BY <1>6 DEF Ask
<1>7. ASSUME Collect \/ Overdue PROVE Rest
  BY <1>7 DEF Collect, Overdue, Sets
<1>8. ASSUME SendDecisions \/ SendUnanswered PROVE Rest
  BY <1>8 DEF SendDecisions, SendUnanswered, ServeDecisions, Sets
<1>9. ASSUME SendLate PROVE Rest
  BY <1>9 DEF SendLate, Requests, Sets
<1>10. ASSUME NEW r \in stray, Arrive(r) PROVE Rest
  <2>1. stored' \in [Messages -> Nat] /\ forgotten' \in [Messages -> Nat]
    BY <1>10, RequestCases, PublishSteps, DecisionsStep DEF Arrive
  <2> QED BY <1>10, <2>1 DEF Arrive
<1>11. ASSUME NEW k \in Keys, Mark(k) \/ Delete(k) PROVE Rest
  BY <1>11 DEF Mark, Delete
<1>12. ASSUME Retain PROVE Rest
  <2>1. forgotten' \in [Messages -> Nat]
    <3> DEFINE gone(m) == m \in Purgeable /\ Unsettled(m)
    <3>1. forgotten' = [m \in Messages |-> IF gone(m) THEN forgotten[m] + 1 ELSE forgotten[m]]
      BY <1>12 DEF Retain
    <3>2. forgotten \in [Messages -> Nat]
      OBVIOUS
    <3> HIDE DEF gone
    <3> QED BY <3>1, <3>2
  <2>2. /\ UNCHANGED <<outbox, source, collecting, published, stored, stray, acts, faults>>
    BY <1>12 DEF Retain
  <2> QED BY <2>1, <2>2
<1>13. Rest
  <2> HIDE DEF Rest
  <2> QED BY <1>2, <1>3, <1>4, <1>5, <1>6, <1>7, <1>8, <1>9, <1>10, <1>11, <1>12 DEF Elsewhere
<1> QED BY <1>1, <1>13

LEMMA TypeOnPhone ==
  ASSUME TypeOK, BoundInv, OnPhone PROVE TypeOK'
<1> USE DEF TypeOK, desktop, relay, bounds, Act, Fault
<1>0. \A k \in Keys : View(k) \in Views
  BY ViewType
<1>1. NoItems \in [Keys -> Views] /\ Empty \in [items : [Keys -> Views], cursor : Nat]
      /\ NoPage \in [taken : BOOLEAN, keys : SUBSET Keys, items : [Keys -> Views], cursor : Nat, more : BOOLEAN]
  BY DEF NoItems, Empty, NoPage, Absent, Views, States
<1>2. ASSUME NEW k \in Keys, PhoneMark(k) PROVE TypeOK'
  <2>1. RelayStep
    BY <1>2, MarkStep DEF PhoneMark
  <2>2. [View(k) EXCEPT !.read = ~@] \in Views
    <3> DEFINE v == View(k)
    <3>1. v \in Views
      BY <1>0
    <3> HIDE DEF v
    <3>2. [v EXCEPT !.read = ~@] \in Views
      BY <3>1 DEF Views
    <3> QED BY <3>2 DEF v
  <2> QED BY <1>2, <2>1, <2>2 DEF PhoneMark, RelayStep
<1>3. ASSUME NEW k \in Keys, PhoneLoad(k) PROVE TypeOK'
  BY <1>0, <1>3 DEF PhoneLoad
<1>4. CASE SignIn
  BY <1>1, <1>4 DEF SignIn
<1>5. CASE Revoke
  BY <1>5 DEF Revoke
<1>6. CASE Expire
  BY <1>1, <1>6 DEF Expire
<1>7. CASE Reopen
  <2>1. disk.items \in [Keys -> Views] /\ disk.cursor \in Nat
    OBVIOUS
  <2>2. phone' \in [start : Nat \cup {NoSession}, items : [Keys -> Views], cursor : Nat]
    BY <1>7, <2>1 DEF Reopen
  <2> QED BY <1>1, <1>7, <2>2 DEF Reopen
<1>8. CASE SyncRead
  <2>1. phone.cursor \in Nat /\ phone.cursor <= sequence
    BY DEF BoundInv
  <2>2. PageEnd(phone.cursor) \in Nat /\ FirstPage(phone.cursor) \subseteq Keys
    BY <2>1, PageIsPrefix
  <2>3. [k \in Keys |-> IF k \in FirstPage(phone.cursor) THEN View(k) ELSE Absent] \in [Keys -> Views]
    BY <1>0 DEF Absent, Views, States
  <2> QED BY <1>8, <2>2, <2>3 DEF SyncRead
<1>9. CASE SyncApply
  <2>1. Applied \in [Keys -> Views]
    BY DEF Applied
  <2>2. /\ acts' \in Nat /\ faults' \in Nat /\ disk' \in [items : [Keys -> Views], cursor : Nat]
    BY <1>1, <1>9, <2>1 DEF SyncApply, Persist
  <2> QED BY <1>1, <1>9, <2>1, <2>2 DEF SyncApply
<1>10. CASE SyncLost
  BY <1>1, <1>10 DEF SyncLost, Copy
<1>11. ASSUME NEW r \in replies, ReplyArrives(r) PROVE TypeOK'
  <2>1. phone' \in [start : Nat \cup {NoSession}, items : [Keys -> Views], cursor : Nat]
    BY <1>11 DEF ReplyArrives
  <2>2. /\ acts' \in Nat /\ faults' \in Nat /\ disk' \in [items : [Keys -> Views], cursor : Nat]
    BY <1>1, <1>11, <2>1 DEF ReplyArrives, Persist
  <2> QED BY <1>11, <2>1, <2>2 DEF ReplyArrives
<1>12. ASSUME NEW r \in replies, ReplyLost(r) PROVE TypeOK'
  BY <1>12 DEF ReplyLost
<1> QED BY <1>2, <1>3, <1>4, <1>5, <1>6, <1>7, <1>8, <1>9, <1>10, <1>11, <1>12 DEF OnPhone

-----------------------------------------------------------------------------
(* Steps of the phone and of time                                          *)

LEMMA InvInit == Init => IInv
<1> SUFFICES ASSUME Init PROVE IInv
  OBVIOUS
<1>1. TypeOK
  BY TypeInit
<1>2. BoundInv
  BY DEF Init, BoundInv, Exists, NoRow, Live, NoSession, Empty, NoPage
<1>3. HeldInv /\ CopyInv /\ ReplyInv
  BY DEF Init, HeldInv, CopyInv, ReplyInv, Valid
<1>4. StoredInv
  BY DEF Init, StoredInv, Unsettled, Exists, NoRow, Keys
<1> QED BY <1>1, <1>2, <1>3, <1>4 DEF IInv

\* A phone that starts from nothing is current.
LEMMA NothingIsCurrent ==
  ASSUME TypeOK, BoundInv
  PROVE  \A k \in Keys : item[k].seq <= 0 => NoItems[k] = View(k)
BY DEF TypeOK, NoItems, BoundInv, View, Shown, Rows

\* A step of the phone that changes no row.
LEMMA LocalKeeps ==
  ASSUME TypeOK, BoundInv, HeldInv, UNCHANGED <<now, item, sequence>>,
         phone'.cursor <= sequence, disk'.cursor <= sequence, page'.cursor <= sequence,
         phone'.start <= now,
         Valid' => Valid /\ phone'.start = phone.start,
         \A k \in Keys : Held(k)' => Held(k) \/ Shown(k)
  PROVE  BoundInv' /\ HeldInv'
<1>1. BoundInv'
  BY DEF BoundInv, Exists
<1>2. HeldInv'
  BY DEF HeldInv, Kept, Exists, Shown
<1> QED BY <1>1, <1>2

LEMMA PhoneKeeps ==
  ASSUME TypeOK, TypeOK', BoundInv, HeldInv, OnPhone
  PROVE  /\ BoundInv' /\ HeldInv'
         /\ CopyInv /\ ReplyInv => CopyInv' /\ ReplyInv'
<1> USE DEF TypeOK
<1> DEFINE Goal == /\ BoundInv' /\ HeldInv'
                   /\ CopyInv /\ ReplyInv => CopyInv' /\ ReplyInv'
<1>1. UNCHANGED relay => RelayStep
  BY DEF RelayStep, relay
<1>2. UNCHANGED item => \A k \in Keys : View(k)' = View(k)
  BY DEF View, Shown, Exists
<1>3. ASSUME NEW k \in Keys, PhoneMark(k) PROVE Goal
  <2>1. /\ RelayStep /\ item'[k].seq > sequence
    BY <1>3, MarkStep DEF PhoneMark
  <2>2. /\ UNCHANGED <<now, phone, disk, page, crossed>> /\ Valid /\ Shown(k)
        /\ \A r \in replies' \ replies : r.key = k
    BY <1>3 DEF PhoneMark
  <2>3. BoundInv' /\ HeldInv' /\ (CopyInv => CopyInv')
    BY <2>1, <2>2, RelayKeeps
  <2>4. ReplyInv => ReplyInv'
    BY <2>1, <2>2, RelayKeeps
  <2> QED BY <2>3, <2>4
<1>4. ASSUME NEW k \in Keys, PhoneLoad(k) PROVE Goal
  <2>1. /\ RelayStep /\ UNCHANGED <<now, phone, disk, page, crossed, item>> /\ Valid /\ Shown(k)
        /\ \A r \in replies' \ replies : r.key = k /\ r.view = View(k)
    BY <1>1, <1>4 DEF PhoneLoad, relay
  <2>2. BoundInv' /\ HeldInv' /\ (CopyInv => CopyInv')
    BY <2>1, RelayKeeps
  <2>3. ReplyInv => ReplyInv'
    BY <2>1, RelayKeeps
  <2> QED BY <2>2, <2>3
<1>5. CASE SignIn
  <2>1. /\ UNCHANGED <<now, item, sequence>> /\ phone' = [start |-> now, items |-> NoItems, cursor |-> 0]
        /\ disk' = Empty /\ page' = NoPage /\ replies' = {}
    BY <1>5 DEF SignIn, relay
  <2>2. \A k \in Keys : ~Held(k)'
    BY <2>1 DEF Held, NoItems, Empty, NoPage
  <2>3. HeldInv' /\ BoundInv'
    BY <2>1, <2>2 DEF HeldInv, BoundInv, Exists, Empty, NoPage
  <2>4. Current(NoItems, 0)'
    BY <1>2, <2>1, NothingIsCurrent DEF Current
  <2>5. CopyInv' /\ ReplyInv'
    BY <2>1, <2>4 DEF CopyInv, ReplyInv, Empty, NoPage
  <2> QED BY <2>3, <2>5
<1>6. CASE Revoke \/ Expire
  <2>1. /\ UNCHANGED <<now, item, sequence>> /\ phone'.start = NoSession /\ ~Valid'
        /\ phone'.cursor \in {0, phone.cursor} /\ disk'.cursor \in {0, disk.cursor}
        /\ page'.cursor \in {0, page.cursor}
    BY <1>6 DEF Revoke, Expire, relay, Valid, Empty, NoPage
  <2>2. BoundInv'
    BY <2>1 DEF BoundInv, Exists, NoSession
  <2> QED BY <2>1, <2>2 DEF HeldInv, CopyInv, ReplyInv
<1>7. CASE Reopen
  <2>1. /\ UNCHANGED <<now, item, sequence, disk, crossed>> /\ page' = NoPage /\ replies' = {}
        /\ phone'.items = disk.items /\ phone'.cursor = disk.cursor /\ phone'.start = phone.start
    BY <1>7 DEF Reopen, relay
  <2>2. Valid' = Valid /\ \A k \in Keys : Held(k)' => Held(k)
    BY <2>1 DEF Valid, Held, NoPage
  <2>3. BoundInv' /\ HeldInv'
    <3>1. phone'.cursor <= sequence /\ disk'.cursor <= sequence /\ page'.cursor <= sequence /\ phone'.start <= now
      BY <2>1 DEF BoundInv, NoPage
    <3> QED BY <2>1, <2>2, <3>1, LocalKeeps
  <2>4. CopyInv => CopyInv' /\ ReplyInv'
    BY <1>2, <2>1, <2>2 DEF CopyInv, ReplyInv, Current, NoPage
  <2> QED BY <2>3, <2>4
<1>8. CASE SyncRead
  <2> DEFINE c == phone.cursor
  <2>1. /\ UNCHANGED <<now, item, sequence, phone, disk, replies>> /\ Valid
        /\ page'.taken /\ page'.keys = FirstPage(c) /\ page'.cursor = PageEnd(c)
        /\ page'.items = [k \in Keys |-> IF k \in FirstPage(c) THEN View(k) ELSE Absent]
        /\ crossed' = crossed \cup {r.key : r \in replies}
    BY <1>8 DEF SyncRead, relay
  <2>2. c \in Nat /\ c <= sequence
    BY DEF BoundInv
  <2>3. /\ PageEnd(c) \in Nat /\ c <= PageEnd(c) /\ PageEnd(c) <= sequence
        /\ \A k \in Keys : c < item[k].seq /\ item[k].seq <= PageEnd(c) => k \in FirstPage(c)
    BY <2>2, PageIsPrefix
  <2>4. Valid' = Valid /\ \A k \in Keys : Held(k)' => Held(k) \/ Shown(k)
    BY <2>1 DEF Valid, Held, View
  <2>5. BoundInv' /\ HeldInv'
    <3>1. phone'.cursor <= sequence /\ disk'.cursor <= sequence /\ page'.cursor <= sequence /\ phone'.start <= now
      BY <2>1, <2>3 DEF BoundInv
    <3> QED BY <2>1, <2>4, <3>1, LocalKeeps
  <2>6. CopyInv => CopyInv'
    BY <1>2, <2>1, <2>3, <2>4 DEF CopyInv, Current
  <2>7. ReplyInv'
    BY <2>1 DEF ReplyInv
  <2> QED BY <2>5, <2>6, <2>7
<1>9. CASE SyncApply
  <2>1. /\ UNCHANGED <<now, item, sequence, replies, crossed>> /\ page.taken /\ page' = NoPage
        /\ phone'.items = Applied /\ phone'.cursor = page.cursor /\ phone'.start = phone.start
        /\ \/ disk' = disk
           \/ disk'.items = Applied /\ disk'.cursor = page.cursor
           \/ disk' = Empty
    BY <1>9 DEF SyncApply, Persist, relay
  <2>2. \A k \in Keys : Applied[k] \in {page.items[k], phone.items[k]}
    BY DEF Applied
  <2>3. Valid' = Valid /\ \A k \in Keys : Held(k)' => Held(k)
    BY <2>1, <2>2 DEF Valid, Held, NoPage, Empty, NoItems
  <2>4. BoundInv' /\ HeldInv'
    <3>1. phone'.cursor <= sequence /\ disk'.cursor <= sequence /\ page'.cursor <= sequence /\ phone'.start <= now
      BY <2>1 DEF BoundInv, NoPage, Empty
    <3> QED BY <2>1, <2>3, <3>1, LocalKeeps
  <2>5. ASSUME CopyInv, ReplyInv PROVE CopyInv' /\ ReplyInv'
    <3> SUFFICES ASSUME Valid PROVE CopyInv' /\ ReplyInv'
      BY <2>3 DEF CopyInv, ReplyInv
    <3>1. Current(Applied, page.cursor)
      <4> SUFFICES ASSUME NEW k \in Keys \ crossed, item[k].seq <= page.cursor PROVE Applied[k] = View(k)
        BY DEF Current
      <4>1. CASE k \in page.keys
        BY <2>1, <2>5, <4>1 DEF CopyInv, Applied
      <4>2. CASE k \notin page.keys
        <5>1. ~(phone.cursor < item[k].seq) /\ item[k].seq \in Nat
          BY <2>1, <2>5, <4>2 DEF CopyInv, Rows
        <5> QED BY <2>5, <4>2, <5>1 DEF CopyInv, Current, Applied
      <4> QED BY <4>1, <4>2
    <3>2. Current(NoItems, 0)
      BY NothingIsCurrent DEF Current
    <3>3. CopyInv'
      BY <1>2, <2>1, <2>5, <3>1, <3>2 DEF CopyInv, Current, NoPage, Empty
    <3>4. ReplyInv'
      BY <1>2, <2>1, <2>5 DEF ReplyInv, NoPage
    <3> QED BY <3>3, <3>4
  <2> QED BY <2>4, <2>5
<1>10. CASE SyncLost
  <2>1. /\ UNCHANGED <<now, item, sequence, replies, phone, crossed>> /\ page' = NoPage
        /\ disk'.items = phone.items /\ disk'.cursor = phone.cursor
    BY <1>10 DEF SyncLost, Copy, relay
  <2>2. Valid' = Valid /\ \A k \in Keys : Held(k)' => Held(k)
    BY <2>1 DEF Valid, Held, NoPage
  <2>3. BoundInv' /\ HeldInv'
    <3>1. phone'.cursor <= sequence /\ disk'.cursor <= sequence /\ page'.cursor <= sequence /\ phone'.start <= now
      BY <2>1 DEF BoundInv, NoPage
    <3> QED BY <2>1, <2>2, <3>1, LocalKeeps
  <2>4. CopyInv /\ ReplyInv => CopyInv' /\ ReplyInv'
    BY <1>2, <2>1, <2>2 DEF CopyInv, ReplyInv, Current, NoPage
  <2> QED BY <2>3, <2>4
<1>11. ASSUME NEW r \in replies, ReplyArrives(r) PROVE Goal
  <2> DEFINE items == [phone.items EXCEPT ![r.key] = r.view]
  <2>1. /\ UNCHANGED <<now, item, sequence, page, crossed>> /\ replies' \subseteq replies
        /\ phone'.items = items /\ phone'.cursor = phone.cursor /\ phone'.start = phone.start
        /\ \/ disk' = disk
           \/ disk'.items = items /\ disk'.cursor = phone.cursor
           \/ disk' = Empty
    BY <1>11 DEF ReplyArrives, Persist, relay
  <2>2. r.key \in Keys /\ r.view \in Views
    OBVIOUS
  <2>3. \A k \in Keys : items[k] = IF k = r.key THEN r.view ELSE phone.items[k]
    BY <2>2
  <2> HIDE DEF items
  <2>4. Valid' = Valid /\ \A k \in Keys : Held(k)' => Held(k)
    BY <2>1, <2>3 DEF Valid, Held, Empty, NoItems
  <2>5. BoundInv' /\ HeldInv'
    <3>1. phone'.cursor <= sequence /\ disk'.cursor <= sequence /\ page'.cursor <= sequence /\ phone'.start <= now
      BY <2>1 DEF BoundInv, Empty
    <3> QED BY <2>1, <2>4, <3>1, LocalKeeps
  <2>6. ASSUME CopyInv, ReplyInv PROVE CopyInv' /\ ReplyInv'
    <3> SUFFICES ASSUME Valid PROVE CopyInv' /\ ReplyInv'
      BY <2>4 DEF CopyInv, ReplyInv
    <3>1. Current(items, phone.cursor)
      <4> SUFFICES ASSUME NEW k \in Keys \ crossed, item[k].seq <= phone.cursor PROVE items[k] = View(k)
        BY DEF Current
      <4>1. CASE k = r.key
        <5>1. item[k].seq \in Nat /\ ~(item[k].seq > phone.cursor)
          BY DEF Rows
        <5>2. r.view = View(k)
          BY <2>6, <4>1, <5>1 DEF ReplyInv
        <5> QED BY <2>3, <4>1, <5>2
      <4>2. CASE k # r.key
        BY <2>3, <2>6, <4>2 DEF CopyInv, Current
      <4> QED BY <4>1, <4>2
    <3>2. Current(NoItems, 0)
      BY NothingIsCurrent DEF Current
    <3>3. CopyInv'
      BY <1>2, <2>1, <2>6, <3>1, <3>2 DEF CopyInv, Current, Empty
    <3>4. ReplyInv'
      BY <1>2, <2>1, <2>6 DEF ReplyInv
    <3> QED BY <3>3, <3>4
  <2> QED BY <2>5, <2>6
<1>12. ASSUME NEW r \in replies, ReplyLost(r) PROVE Goal
  <2>1. UNCHANGED <<now, item, sequence, phone, disk, page, crossed>> /\ replies' \subseteq replies
    BY <1>12 DEF ReplyLost, relay
  <2>2. Valid' = Valid /\ \A k \in Keys : Held(k)' => Held(k)
    BY <2>1 DEF Valid, Held
  <2>3. BoundInv' /\ HeldInv'
    <3>1. phone'.cursor <= sequence /\ disk'.cursor <= sequence /\ page'.cursor <= sequence /\ phone'.start <= now
      BY <2>1 DEF BoundInv
    <3> QED BY <2>1, <2>2, <3>1, LocalKeeps
  <2>4. CopyInv /\ ReplyInv => CopyInv' /\ ReplyInv'
    BY <1>2, <2>1, <2>2 DEF CopyInv, ReplyInv, Current
  <2> QED BY <2>3, <2>4
<1>13. CASE \E k \in Keys : PhoneMark(k) \/ PhoneLoad(k)
  BY <1>3, <1>4, <1>13
<1>14. CASE \E r \in replies : ReplyArrives(r) \/ ReplyLost(r)
  BY <1>11, <1>12, <1>14
<1> QED
  BY <1>5, <1>6, <1>7, <1>8, <1>9, <1>10, <1>13, <1>14 DEF OnPhone

\* Time only ends sessions.
LEMMA TickKeeps ==
  ASSUME TypeOK, BoundInv, HeldInv, Tick
  PROVE  /\ TypeOK' /\ BoundInv' /\ HeldInv'
         /\ CopyInv /\ ReplyInv => CopyInv' /\ ReplyInv'
<1>1. /\ now' = now + 1 /\ now \in Nat /\ UNCHANGED <<desktop, relay, client, stray, bounds>>
  BY DEF Tick, TypeOK
<1>2. TypeOK'
  BY <1>1 DEF TypeOK, desktop, relay, client, bounds
<1>3. Valid' => Valid
  <2>1. phone.start \in Int /\ phone' = phone
    BY <1>1 DEF TypeOK, client, NoSession
  <2> QED BY <1>1, <2>1, InboxAssumption DEF Valid
<1>4. BoundInv'
  BY <1>1 DEF BoundInv, TypeOK, Rows, Exists, relay, client, Live, NoSession
<1>5. HeldInv'
  BY <1>1, <1>3 DEF HeldInv, Held, Kept, Exists, relay, client
<1>6. CopyInv /\ ReplyInv => CopyInv' /\ ReplyInv'
  BY <1>1, <1>3 DEF CopyInv, ReplyInv, Current, View, Shown, Exists, relay, client
<1> QED BY <1>2, <1>4, <1>5, <1>6

-----------------------------------------------------------------------------
(* Messages                                                                *)

\* A step that neither makes a message an item nor forgets one.
LEMMA StoredKept ==
  ASSUME TypeOK, StoredInv, UNCHANGED <<stored, forgotten>>,
         \A m \in Messages : item'[m].state = item[m].state,
         \A m \in Messages : \/ outbox'[m] = outbox[m]
                             \/ outbox[m] = "none" /\ outbox'[m] = "pending"
                             \/ outbox[m] = "pending" /\ outbox'[m] = "delivered" /\ Exists(m),
         \A m \in Messages : Publish(m) \in stray' => Publish(m) \in stray \/ outbox[m] = "pending"
  PROVE  StoredInv'
<1> SUFFICES ASSUME NEW m \in Messages
             PROVE  /\ forgotten[m] <= stored[m] /\ stored[m] <= 1 + forgotten[m]
                    /\ Exists(m) => stored[m] = 1 + forgotten[m]
                    /\ outbox'[m] = "none" => stored[m] = 0 /\ Publish(m) \notin stray'
                    /\ outbox'[m] = "delivered" => stored[m] >= 1
                    /\ Unsettled(m)' /\ stored[m] = 1 + forgotten[m] => Exists(m)
  BY DEF StoredInv, Exists
<1>1. stored[m] \in Nat /\ forgotten[m] \in Nat
  BY DEF TypeOK
<1>2. /\ forgotten[m] <= stored[m] /\ stored[m] <= 1 + forgotten[m]
      /\ Exists(m) => stored[m] = 1 + forgotten[m]
      /\ outbox[m] = "none" => stored[m] = 0 /\ Publish(m) \notin stray
      /\ outbox[m] = "delivered" => stored[m] >= 1
      /\ Unsettled(m) /\ stored[m] = 1 + forgotten[m] => Exists(m)
  BY DEF StoredInv
<1>3. Unsettled(m)' /\ stored[m] = 1 + forgotten[m] => Unsettled(m)
  BY <1>1, <1>2 DEF Unsettled
<1> QED BY <1>1, <1>2, <1>3

\* A step that turns a message into an item.
LEMMA StoredNew ==
  ASSUME TypeOK, StoredInv, NEW m \in Messages, Unsettled(m), ~Exists(m), forgotten' = forgotten,
         \A j \in Keys \ {m} : item'[j] = item[j],
         item'[m].state = "open",
         stored' = [stored EXCEPT ![m] = @ + 1],
         outbox' \in {outbox, [outbox EXCEPT ![m] = "delivered"]}, stray' \subseteq stray
  PROVE  StoredInv'
<1>1. /\ stored[m] \in Nat /\ forgotten[m] \in Nat /\ outbox[m] # "none"
      /\ stored[m] = forgotten[m] /\ stored'[m] = stored[m] + 1
  BY DEF StoredInv, Unsettled, TypeOK
<1>2. ASSUME NEW j \in Messages \ {m}
      PROVE  stored'[j] = stored[j] /\ outbox'[j] = outbox[j] /\ item'[j] = item[j]
  BY DEF TypeOK, Keys
<1>3. ASSUME NEW j \in Messages \ {m}
      PROVE  /\ forgotten'[j] <= stored'[j] /\ stored'[j] <= 1 + forgotten'[j]
             /\ Exists(j)' => stored'[j] = 1 + forgotten'[j]
             /\ outbox'[j] = "none" => stored'[j] = 0 /\ Publish(j) \notin stray'
             /\ outbox'[j] = "delivered" => stored'[j] >= 1
             /\ Unsettled(j)' /\ stored'[j] = 1 + forgotten'[j] => Exists(j)'
  BY <1>2 DEF StoredInv, Unsettled, Exists
<1>4. outbox'[m] # "none" /\ Exists(m)'
  BY <1>1 DEF TypeOK, Exists
<1> QED BY <1>1, <1>3, <1>4 DEF StoredInv

\* A purge forgets the items it removes, and counts those still to be delivered.
LEMMA StoredRetain ==
  ASSUME TypeOK, StoredInv, Retain
  PROVE  StoredInv'
<1>1. /\ UNCHANGED <<outbox, stray, stored>>
      /\ \A m \in Messages : forgotten'[m] = IF m \in Purgeable /\ Unsettled(m)
                                            THEN forgotten[m] + 1 ELSE forgotten[m]
  BY DEF Retain, desktop
<1>2. ASSUME NEW m \in Messages
      PROVE  IF m \in Purgeable THEN Exists(m) /\ ~Exists(m)' ELSE Exists(m)' = Exists(m)
  BY RetainStep DEF Keys, Exists
<1> SUFFICES ASSUME NEW m \in Messages
             PROVE  /\ forgotten'[m] <= stored[m] /\ stored[m] <= 1 + forgotten'[m]
                    /\ Exists(m)' => stored[m] = 1 + forgotten'[m]
                    /\ outbox[m] = "none" => stored[m] = 0 /\ Publish(m) \notin stray
                    /\ outbox[m] = "delivered" => stored[m] >= 1
                    /\ Unsettled(m) /\ stored[m] = 1 + forgotten'[m] => Exists(m)'
  BY <1>1 DEF StoredInv, Unsettled
<1>3. stored[m] \in Nat /\ forgotten[m] \in Nat
  BY DEF TypeOK
<1>4. /\ forgotten[m] <= stored[m] /\ stored[m] <= 1 + forgotten[m]
      /\ Exists(m) => stored[m] = 1 + forgotten[m]
      /\ outbox[m] = "none" => stored[m] = 0 /\ Publish(m) \notin stray
      /\ outbox[m] = "delivered" => stored[m] >= 1
      /\ Unsettled(m) /\ stored[m] = 1 + forgotten[m] => Exists(m)
  BY DEF StoredInv
<1>5. CASE m \in Purgeable
  BY <1>1, <1>2, <1>3, <1>4, <1>5
<1>6. CASE m \notin Purgeable
  BY <1>1, <1>2, <1>3, <1>4, <1>6
<1> QED BY <1>5, <1>6

LEMMA StoredElsewhere ==
  ASSUME TypeOK, StoredInv, Elsewhere
  PROVE  StoredInv'
<1> USE DEF TypeOK, desktop, relay
<1>1. \A m \in Messages : m \in Keys
  BY DEF Keys
<1>2. ASSUME NEW m \in Messages, Notify(m) PROVE StoredInv'
  BY <1>2, StoredKept DEF Notify, Exists
<1>3. ASSUME NEW m \in Messages, DeliverLate(m) PROVE StoredInv'
  <2>1. \A j \in Messages : Publish(j) \in stray' => Publish(j) \in stray \/ outbox[j] = "pending"
    BY <1>3 DEF DeliverLate, Publish
  <2> QED BY <1>3, <2>1, StoredKept DEF DeliverLate, Exists
<1>4. ASSUME NEW m \in Messages, Deliver(m) \/ DeliverUnanswered(m) PROVE StoredInv'
  <2>1. /\ outbox[m] = "pending" /\ ServePublish(m) /\ stray' = stray
        /\ outbox' \in {outbox, [outbox EXCEPT ![m] = "delivered"]}
    BY <1>4 DEF Deliver, DeliverUnanswered
  <2>2. CASE Exists(m)
    <3>1. UNCHANGED <<item, stored, forgotten>>
      BY <2>1, <2>2, PublishSteps
    <3> QED BY <2>1, <2>2, <3>1, StoredKept DEF Exists
  <2>3. CASE ~Exists(m)
    <3>1. /\ \A j \in Keys \ {m} : item'[j] = item[j]
          /\ item'[m].state = "open" /\ item'[m].deleted = Live
          /\ stored' = [stored EXCEPT ![m] = @ + 1] /\ forgotten' = forgotten
      BY <2>1, <2>3, PublishSteps
    <3> QED BY <2>1, <2>3, <3>1, StoredNew DEF Unsettled
  <2> QED BY <2>2, <2>3
<1>5. ASSUME NEW d \in Decisions, Ask(d) PROVE StoredInv'
  BY <1>5, StoredKept DEF Ask, Exists
<1>6. CASE Collect \/ Overdue
  BY <1>6, StoredKept DEF Collect, Overdue, Exists
<1>7. CASE SendLate
  <2>1. \A j \in Messages : Publish(j) \in stray' => Publish(j) \in stray
    BY <1>7 DEF SendLate, Publish, Publication
  <2> QED BY <1>7, <2>1, StoredKept DEF SendLate, Exists
<1>8. CASE SendDecisions \/ SendUnanswered
  <2>1. /\ UNCHANGED <<outbox, stray, stored, forgotten>> /\ \A m \in Messages : item'[m] = item[m]
    BY <1>8, DecisionsStep DEF SendDecisions, SendUnanswered
  <2> QED BY <2>1, StoredKept DEF Exists
<1>9. ASSUME NEW r \in stray, Arrive(r) PROVE StoredInv'
  <2>1. UNCHANGED outbox /\ stray' \subseteq stray
    BY <1>9 DEF Arrive
  <2>2. CASE UNCHANGED <<item, stored, forgotten>>
    BY <2>1, <2>2, StoredKept DEF Exists
  <2>3. CASE r.type = "decisions" /\ ServeDecisions(r.set)
    <3>1. UNCHANGED <<stored, forgotten>> /\ \A m \in Messages : item'[m] = item[m]
      BY <2>3, RequestCases, DecisionsStep
    <3> QED BY <2>1, <3>1, StoredKept DEF Exists
  <2>4. CASE r.type = "publish" /\ ServePublish(r.message) /\ ~UNCHANGED <<item, stored, forgotten>>
    <3> DEFINE m == r.message
    <3>1. m \in Messages /\ Unsettled(m)
      BY <2>4, RequestCases DEF Unsettled
    <3>2. /\ ~Exists(m) /\ \A j \in Keys \ {m} : item'[j] = item[j]
          /\ item'[m].state = "open" /\ item'[m].deleted = Live
          /\ stored' = [stored EXCEPT ![m] = @ + 1] /\ forgotten' = forgotten
      BY <2>4, <3>1, PublishSteps
    <3> HIDE DEF m
    <3> QED BY <2>1, <3>1, <3>2, StoredNew
  <2> QED BY <1>9, <2>2, <2>3, <2>4 DEF Arrive
<1>10. ASSUME NEW k \in Keys, Mark(k) PROVE StoredInv'
  <2>1. Shown(k) /\ Numbered({k}, [item EXCEPT ![k].read = ~@]) /\ UNCHANGED <<outbox, stray, stored, forgotten>>
    BY <1>10 DEF Mark
  <2>2. \A j \in Keys : item'[j].state = item[j].state
    BY <2>1, MarkStep
  <2> QED BY <1>1, <2>1, <2>2, StoredKept DEF Exists
<1>11. ASSUME NEW k \in Keys, Delete(k) PROVE StoredInv'
  <2>1. Shown(k) /\ Numbered({k}, [item EXCEPT ![k].deleted = now]) /\ UNCHANGED <<outbox, stray, stored, forgotten>>
    BY <1>11 DEF Delete
  <2>2. \A j \in Keys : item'[j].state = item[j].state
    BY <2>1, DeleteStep
  <2> QED BY <1>1, <2>1, <2>2, StoredKept DEF Exists
<1>12. CASE Retain
  BY <1>12, StoredRetain
<1> QED BY <1>2, <1>3, <1>4, <1>5, <1>6, <1>7, <1>8, <1>9, <1>10, <1>11, <1>12 DEF Elsewhere

LEMMA StoredOnPhone ==
  ASSUME TypeOK, StoredInv, OnPhone
  PROVE  StoredInv'
<1> USE DEF TypeOK, desktop, relay
<1>1. UNCHANGED <<outbox, stray, stored, forgotten>>
  BY DEF OnPhone, PhoneMark, PhoneLoad, SignIn, Revoke, Expire, Reopen, SyncRead, SyncApply, SyncLost,
         ReplyArrives, ReplyLost
<1>2. ASSUME NEW k \in Keys, PhoneMark(k) PROVE StoredInv'
  <2>1. \A j \in Keys : item'[j].state = item[j].state
    BY <1>2, MarkStep DEF PhoneMark
  <2> QED BY <1>1, <2>1, StoredKept DEF Exists, Keys
<1>3. CASE UNCHANGED <<item, sequence>>
  BY <1>1, <1>3 DEF StoredInv, Unsettled, Exists
<1> QED
  BY <1>2, <1>3 DEF OnPhone, PhoneLoad, SignIn, Revoke, Expire, Reopen, SyncRead, SyncApply, SyncLost,
         ReplyArrives, ReplyLost

-----------------------------------------------------------------------------
(* Theorems                                                                *)

\* The invariant holds of every behaviour of desktop, relay and phone.
THEOREM Invariance == Spec => []IInv
<1>1. Init => IInv
  BY InvInit
<1>2. IInv /\ [Next]_vars => IInv'
  <2> SUFFICES ASSUME IInv, [Next]_vars PROVE IInv'
    OBVIOUS
  <2>1. TypeOK /\ BoundInv /\ HeldInv
    BY DEF IInv
  <2>2. CASE Elsewhere
    <3>1. TypeOK'
      BY <2>1, <2>2, TypeElsewhere
    <3>2. RelayStep /\ UNCHANGED <<now, phone, disk, page, replies, crossed>>
      BY <2>1, <2>2, ElsewhereSteps DEF client
    <3>3. BoundInv' /\ HeldInv' /\ (CopyInv => CopyInv')
      BY <2>1, <3>2, RelayKeeps
    <3>4. ReplyInv => ReplyInv'
      BY <2>1, <3>2, RelayKeeps
    <3>5. StoredInv => StoredInv'
      BY <2>1, <2>2, StoredElsewhere
    <3> QED BY <3>1, <3>3, <3>4, <3>5 DEF IInv
  <2>3. CASE OnPhone
    <3>1. TypeOK'
      BY <2>1, <2>3, TypeOnPhone
    <3>2. /\ BoundInv' /\ HeldInv'
          /\ CopyInv /\ ReplyInv => CopyInv' /\ ReplyInv'
      BY <2>1, <2>3, <3>1, PhoneKeeps
    <3>3. StoredInv => StoredInv'
      BY <2>1, <2>3, StoredOnPhone
    <3> QED BY <3>1, <3>2, <3>3 DEF IInv
  <2>4. CASE Tick
    <3>1. TypeOK' /\ BoundInv' /\ HeldInv' /\ CopyInv' /\ ReplyInv'
      BY <2>1, <2>4, TickKeeps DEF IInv
    <3>2. UNCHANGED <<outbox, stray, stored, forgotten, item>>
      BY <2>4 DEF Tick, desktop, relay
    <3>3. StoredInv'
      BY <3>2 DEF IInv, StoredInv, Unsettled, Exists
    <3> QED BY <3>1, <3>3 DEF IInv
  <2>5. CASE UNCHANGED vars
    <3>1. UNCHANGED <<now, outbox, source, collecting, published, item, sequence, stored, forgotten, phone,
                      disk, page, replies, crossed, stray, acts, faults>>
      BY <2>5 DEF vars, desktop, relay, client, bounds
    <3>2. TypeOK' /\ BoundInv' /\ HeldInv'
      BY <2>1, <3>1 DEF TypeOK, BoundInv, HeldInv, Held, Kept, Exists, Valid
    <3>3. (CopyInv => CopyInv') /\ (ReplyInv => ReplyInv') /\ (StoredInv => StoredInv')
      BY <3>1 DEF CopyInv, ReplyInv, StoredInv, Current, View, Shown, Exists, Valid, Unsettled
    <3> QED BY <3>2, <3>3 DEF IInv
  <2> QED BY <2>2, <2>3, <2>4, <2>5, NextCases
<1> QED BY <1>1, <1>2, PTL DEF Spec

\* TypeOK of PodInbox, for any number of messages, decisions and pages.
THEOREM InboxTypes == Spec => []TypeOK
<1>1. IInv => TypeOK
  BY DEF IInv
<1> QED BY <1>1, Invariance, PTL

\* What the cursor of a phone has passed, its copy shows as the relay has it
\* (inbox-store.ts `changes' and `retain', client.ts `sync', `restore' and `mark'),
\* whatever happens to items whose mark or load a sync has overtaken.
THEOREM CopiesAreCurrent == Spec => []CopyIsCurrent
<1>1. IInv => CopyIsCurrent
  BY DEF IInv, CopyInv, Current, CopyIsCurrent, CopyShows
<1> QED BY <1>1, Invariance, PTL

\* However often a message is published, it becomes one item, and one more each
\* time the relay purges it while the desktop may still deliver it (controller.ts
\* `deliverInbox', inbox-store.ts `publish' and `retain').
THEOREM MessagesAreOnce == Spec => []MessageOnce
<1>1. IInv => MessageOnce
  BY DEF IInv, StoredInv, MessageOnce
<1> QED BY <1>1, Invariance, PTL

\* Purging a tombstone never leaves an item behind on a phone whose session lasts:
\* neither its memory nor its storage, nor a page or an answer on its way, shows an item
\* the relay has forgotten and could no longer report as deleted (inbox-store.ts
\* `retain'), crossed or not.
THEOREM PurgesLeaveNothing ==
  Spec => [](Valid => \A k \in Keys :
               (\/ phone.items[k] # Absent \/ disk.items[k] # Absent
                \/ page.taken /\ page.items[k] # Absent
                \/ \E r \in replies : r.key = k)
               => Exists(k))
<1>1. IInv => (Valid => \A k \in Keys :
                 (\/ phone.items[k] # Absent \/ disk.items[k] # Absent
                  \/ page.taken /\ page.items[k] # Absent
                  \/ \E r \in replies : r.key = k)
                 => Exists(k))
  BY DEF IInv, HeldInv, Held, Kept
<1> QED BY <1>1, Invariance, PTL

=============================================================================
