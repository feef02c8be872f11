------------------------------ MODULE AloTable ------------------------------
(***************************************************************************)
(* The table of Alopecurus (atab.c): an array of entries in which the keys *)
(* of one hash form a chain through relative links, so that adding or      *)
(* removing a key may move another.  A chain starts in the slot its hash   *)
(* leads to; free slots for its other entries are looked for downwards     *)
(* from lastfree.                                                          *)
(*                                                                         *)
(* Pointers to entries are indices, NULL and the place before the array    *)
(* are -1.  One iterator at a time walks the table.                        *)
(***************************************************************************)
EXTENDS Integers, FiniteSets, FiniteSetsExt

CONSTANTS
  Key, Val,
  Hash,          \* the hash of each key: aloV_hashof
  NoKey, NoVal,  \* nil
  MinSize,       \* ALO_MIN_BUFSIZE
  MaxSize        \* ALO_MAX_BUFSIZE

ASSUME TableAssumption ==
  /\ Hash \in [Key -> Nat] /\ NoKey \notin Key /\ NoVal \notin Val
  /\ MinSize \in Nat \ {0} /\ MaxSize \in Nat /\ MinSize <= MaxSize

VARIABLES
  tab,    \* the table: capacity, length, lastfree, and the entries `at`
  off,    \* the offset of the iterator, or NoItr
  due,    \* the keys the iterator has yet to yield (history)
  moved   \* whether a slot behind lastfree was freed by a move, since the
          \* entries were last laid out (history)

vars == <<tab, off, due, moved>>

NoItr == -2
Slots(t) == 0..(t.capacity - 1)
Empty == [key |-> NoKey, val |-> NoVal, prev |-> 0, next |-> 0]
IsFree(t, i) == t.at[i].key = NoKey
FreeSlots(t) == {i \in Slots(t) : IsFree(t, i)}
Used(t) == Slots(t) \ FreeSlots(t)
HasPrev(t, i) == t.at[i].prev # 0
HasNext(t, i) == t.at[i].next # 0
HeadOf(t, k) == Hash[k] % t.capacity

(* aloH_new, and an array of n empty entries. *)
NewTable == [capacity |-> 0, length |-> 0, lastfree |-> -1, at |-> <<>>]
Blank(n, len) == [capacity |-> n, length |-> len, lastfree |-> n - 1, at |-> [i \in 0..(n - 1) |-> Empty]]

-----------------------------------------------------------------------------
(* Finding keys.                                                           *)

(* aloH_get, and the search of aloH_remove: follow `next` from the head of *)
(* k's chain, which is no chain if an entry of another one sits there.     *)
(* search[n][i] is what is found from i on in at most n steps.             *)
SlotOf(t, k) ==
  LET search[n \in 0..t.capacity] ==
        [i \in Int |->
           IF n = 0 \/ i \notin Slots(t) THEN -1
           ELSE IF t.at[i].key = k THEN i
           ELSE IF HasNext(t, i) THEN search[n - 1][i + t.at[i].next] ELSE -1]
  IN  IF t.length = 0 \/ HasPrev(t, HeadOf(t, k)) THEN -1
      ELSE search[t.capacity][HeadOf(t, k)]

Present(t) == {k \in Key : SlotOf(t, k) # -1}
Contents(t) == [k \in Present(t) |-> t.at[SlotOf(t, k)].val]

-----------------------------------------------------------------------------
(* Placing keys.                                                           *)

(* newety: the free slot it returns, and lastfree after it. *)
FreeBelow(t) == {i \in FreeSlots(t) : i <= t.lastfree}
NewSlot(t) == Max(FreeBelow(t))
TakeSlot(t) == [t EXCEPT !.lastfree = NewSlot(t) - 1]

(* Fault: the entry behind the moved one keeps pointing to its old place. *)
MoveEntry_KeepNext(t, dst, src) ==
  LET diff == dst - src
      e == t.at[src]
      p == src - e.prev
      a == [t.at EXCEPT ![dst].key = e.key, ![dst].val = e.val]
      b == IF e.prev = 0 THEN [a EXCEPT ![dst].prev = 0]
           ELSE [[a EXCEPT ![p].next = @ + diff] EXCEPT ![dst].prev = a[p].next + diff]
      c == IF e.next = 0 THEN [b EXCEPT ![dst].next = 0] ELSE [b EXCEPT ![dst].next = e.next - diff]
  IN  [t EXCEPT !.at = [c EXCEPT ![src] = Empty]]

(* movety: the entry at src moves to dst, and its neighbours' links with   *)
(* it; dst may be the slot before src in the chain.                        *)
MoveEntry(t, dst, src) ==
  LET diff == dst - src
      e == t.at[src]
      p == src - e.prev
      n == src + e.next
      a == [t.at EXCEPT ![dst].key = e.key, ![dst].val = e.val]
      b == IF e.prev = 0 THEN [a EXCEPT ![dst].prev = 0]
           ELSE [[a EXCEPT ![p].next = @ + diff] EXCEPT ![dst].prev = a[p].next + diff]
      c == IF e.next = 0 THEN [b EXCEPT ![dst].next = 0]
           ELSE [[b EXCEPT ![n].prev = @ - diff] EXCEPT ![dst].next = b[n].prev - diff]
  IN  [t EXCEPT !.at = [c EXCEPT ![src] = Empty]]

(* Fault: the new entry is not linked to the rest of the chain. *)
LinkAfter_DropRest(t, p) ==
  LET new == NewSlot(t)
      diff == new - p
  IN  [TakeSlot(t) EXCEPT !.at = [t.at EXCEPT ![new].prev = diff, ![p].next = diff]]

(* addety: a new entry behind p. *)
LinkAfter(t, p) ==
  LET new == NewSlot(t)
      diff == new - p
      n == p + t.at[p].next
      a == IF ~HasNext(t, p) THEN t.at
           ELSE [t.at EXCEPT ![n].prev = @ - diff, ![new].next = t.at[p].next - diff]
  IN  [TakeSlot(t) EXCEPT !.at = [a EXCEPT ![new].prev = diff, ![p].next = diff]]

SetPair(t, i, k, v) == [t EXCEPT !.at[i].key = k, !.at[i].val = v]

(* Fault: an entry of another chain is not moved out of the way. *)
Place_NoMove(t, k, v) ==
  LET head == HeadOf(t, k)
  IN  IF IsFree(t, head) THEN SetPair(t, head, k, v)
      ELSE SetPair(LinkAfter(t, head), NewSlot(t), k, v)

(* putety, and the value stored in the slot it returns. *)
Place(t, k, v) ==
  LET head == HeadOf(t, k)
  IN  IF IsFree(t, head) THEN SetPair(t, head, k, v)
      ELSE IF ~HasPrev(t, head) THEN SetPair(LinkAfter(t, head), NewSlot(t), k, v)
      ELSE SetPair(MoveEntry(TakeSlot(t), NewSlot(t), head), head, k, v)

(* resizetable. *)
Resize(t, n) ==
  LET layout[i \in 0..t.capacity] ==
        IF i = 0 THEN Blank(n, t.length)
        ELSE IF IsFree(t, i - 1) THEN layout[i - 1]
        ELSE Place(layout[i - 1], t.at[i - 1].key, t.at[i - 1].val)
  IN  layout[t.capacity]

(* aloM_adjsize, when it does not report that the limit is passed. *)
TooBig(t, require) == require > MaxSize \/ (2 * t.capacity > MaxSize /\ t.capacity >= MaxSize)
AdjSize(t, require) == Min({MaxSize, Max({2 * t.capacity, MinSize, require})})

(* aloH_ensure. *)
Ensured(t, n) == IF t.length + n > t.capacity THEN Resize(t, AdjSize(t, t.length + n)) ELSE t
CanEnsure(t, n) == t.length + n > t.capacity => ~TooBig(t, t.length + n)
LaidOut(t, n) == t.length + n > t.capacity

-----------------------------------------------------------------------------
(* Removing keys.                                                          *)

Freed(t, i) == [t EXCEPT !.at[i] = Empty, !.lastfree = IF @ < i THEN i ELSE @]
Moves(t, i) == ~HasPrev(t, i) /\ HasNext(t, i)

(* An entry in the middle of a chain, and a move that frees a slot newety  *)
(* will not come to.                                                       *)
Middle(t, i) == HasPrev(t, i) /\ HasNext(t, i)
LosesSlot(t, i) == Moves(t, i) /\ i + t.at[i].next > t.lastfree

(* Fault: the slots that become free are not made known to newety. *)
Remove_KeepFree(t, i) ==
  LET e == t.at[i]
      p == i - e.prev
      n == i + e.next
      u == [t EXCEPT !.length = @ - 1]
  IN  IF Moves(t, i) THEN MoveEntry(u, i, n)
      ELSE IF Middle(t, i)
      THEN Freed([u EXCEPT !.at[p].next = p - n, !.at[n].prev = p - n], i)
      ELSE IF HasPrev(t, i) THEN [u EXCEPT !.at = [@ EXCEPT ![p].next = 0, ![i] = Empty]]
      ELSE [u EXCEPT !.at[i] = Empty]

(* remety and the count after it.  A head takes in the entry behind it.    *)
Remove(t, i) ==
  LET e == t.at[i]
      p == i - e.prev
      n == i + e.next
      u == [t EXCEPT !.length = @ - 1]
  IN  IF Moves(t, i) THEN MoveEntry(u, i, n)
      ELSE IF Middle(t, i)
      THEN Freed([u EXCEPT !.at[p].next = p - n, !.at[n].prev = p - n], i)
      ELSE IF HasPrev(t, i) THEN Freed([u EXCEPT !.at[p].next = 0], i)
      ELSE Freed(u, i)

Keys(t) == {t.at[i].key : i \in Used(t)}

-----------------------------------------------------------------------------
(* Operations.                                                             *)

Edited == off' = NoItr /\ due' = {}

(* aloH_set with a key that is there, and with one that is not: it needs a *)
(* slot, and newety returns NULL, which is not checked, if it finds none.  *)
Update(k, v) ==
  /\ k \in Present(tab)
  /\ tab' = [tab EXCEPT !.at[SlotOf(tab, k)].val = v]
  /\ UNCHANGED <<off, due, moved>>

Insert(k, v) ==
  /\ k \notin Present(tab) /\ CanEnsure(tab, 1)
  /\ LET t == Ensured(tab, 1)
     IN  /\ IsFree(t, HeadOf(t, k)) \/ FreeBelow(t) # {}
         /\ tab' = Place([t EXCEPT !.length = @ + 1], k, v)
  /\ moved' = (moved /\ ~LaidOut(tab, 1))
  /\ Edited

(* aloH_remove. *)
RemoveKey(k) ==
  /\ k \in Present(tab)
  /\ tab' = Remove(tab, SlotOf(tab, k))
  /\ moved' = (moved \/ LosesSlot(tab, SlotOf(tab, k)))
  /\ Edited

(* aloH_clear. *)
Clear ==
  /\ tab' = Blank(tab.capacity, 0)
  /\ moved' = FALSE
  /\ Edited

(* aloH_ensure, called by alo_sizehint. *)
Ensure(n) ==
  /\ LaidOut(tab, n) /\ CanEnsure(tab, n)
  /\ tab' = Ensured(tab, n)
  /\ moved' = FALSE
  /\ Edited

(* aloH_trim. *)
Trim ==
  /\ tab.capacity > 0
  /\ \/ tab.length = 0 /\ tab' = NewTable
     \/ tab.length \in 1..((tab.capacity \div 4) - 1) /\ tab' = Resize(tab, tab.capacity \div 2)
  /\ moved' = FALSE
  /\ Edited

(* A new iterator. *)
Iterate == off' = -1 /\ due' = Keys(tab) /\ UNCHANGED <<tab, moved>>

Ahead == {i \in Used(tab) : i > off}

(* aloH_next. *)
IterNext ==
  /\ off # NoItr /\ Ahead # {}
  /\ off' = Min(Ahead)
  /\ due' = due \ {tab.at[off'].key}
  /\ UNCHANGED <<tab, moved>>

(* Fault: the offset stays where another entry has moved in. *)
IterRemove_StayPut ==
  /\ off \in Used(tab)
  /\ tab' = Remove(tab, off)
  /\ off' = off
  /\ moved' = (moved \/ LosesSlot(tab, off))
  /\ UNCHANGED due

(* aloH_rawrem: the entry the iterator is at. *)
IterRemove ==
  /\ off \in Used(tab)
  /\ tab' = Remove(tab, off)
  /\ off' = IF Moves(tab, off) THEN off - 1 ELSE off
  /\ moved' = (moved \/ LosesSlot(tab, off))
  /\ UNCHANGED due

Init == tab = NewTable /\ off = NoItr /\ due = {} /\ moved = FALSE

Keep ==
  \/ \E k \in Key, v \in Val : Update(k, v) \/ Insert(k, v)
  \/ Clear \/ (\E n \in 1..MaxSize : Ensure(n)) \/ Trim
  \/ Iterate \/ IterNext

Next == Keep \/ (\E k \in Key : RemoveKey(k)) \/ IterRemove
Spec == Init /\ [][Next]_vars

(* Without the removals from the middle of a chain, which break the links. *)
SafeNext ==
  \/ Keep
  \/ \E k \in Present(tab) : ~Middle(tab, SlotOf(tab, k)) /\ RemoveKey(k)
  \/ off \in Used(tab) /\ ~Middle(tab, off) /\ IterRemove
SafeSpec == Init /\ [][SafeNext]_vars

-----------------------------------------------------------------------------
(* Properties.                                                             *)

Entry == [key : Key \cup {NoKey}, val : Val \cup {NoVal}, prev : Int, next : Int]
Table(n) ==
  [capacity : {n}, length : 0..n, lastfree : -1..(n - 1), at : [0..(n - 1) -> Entry]]

TypeOK ==
  /\ tab.capacity \in 0..MaxSize /\ tab \in Table(tab.capacity)
  /\ off = NoItr \/ off \in -1..(tab.capacity - 1)
  /\ due \subseteq Key /\ moved \in BOOLEAN

(* The links of two neighbours are inverse to each other, an entry without *)
(* a predecessor sits where its hash leads, the entries of a chain share   *)
(* that place, and free slots are linked to nothing.                       *)
ChainsWellFormed ==
  /\ \A i \in FreeSlots(tab) : tab.at[i] = Empty
  /\ \A i \in Used(tab) :
       LET e == tab.at[i]  head == HeadOf(tab, e.key)
       IN  /\ IF e.prev = 0 THEN i = head
              ELSE /\ i - e.prev \in Used(tab) \ {i}
                   /\ tab.at[i - e.prev].next = e.prev
                   /\ HeadOf(tab, tab.at[i - e.prev].key) = head
           /\ e.next # 0 => i + e.next \in Used(tab) /\ tab.at[i + e.next].prev = e.next

(* aloH_remove, "return 'true' if key founded": every entry of the table   *)
(* is found by its key, no key is there twice, and the length counts them. *)
FoundByKey ==
  /\ Keys(tab) = Present(tab)
  /\ tab.length = Cardinality(Used(tab))
  /\ Cardinality(Used(tab)) = Cardinality(Keys(tab))

(* aobj.h of lastfree, "any free slot are after this slot": newety finds a *)
(* slot as long as there is one.                                           *)
FreeBelowLast == \A i \in FreeSlots(tab) : i <= tab.lastfree

(* So it is until the removal of a head leaves a slot behind lastfree.     *)
FreeUnlessMoved == moved \/ FreeBelowLast

(* An iteration that removes entries as it goes, moving others, yields     *)
(* every key that was there when it began.                                 *)
NothingMissed == off # NoItr /\ Ahead = {} => due = {}

(* Lookup by key makes the table a map.                                    *)
Map == INSTANCE AbstractMap WITH map <- Contents(tab)
MapSpec == Map!MSpec

=============================================================================
