----------------------------- MODULE Containers -----------------------------
(***************************************************************************)
(* The containers everything else in Xdebug is kept in, each beside the    *)
(* value it stands for: the doubly linked list (lib/llist.c), the hash     *)
(* table of chains (lib/hash.c), the sets of bits (lib/set.c) and the      *)
(* growing string (lib/str.c).  list, map, members, marks and text are the *)
(* abstract values; each invariant says that the structure has its shape   *)
(* and that what the code reads from it is the abstract value.             *)
(***************************************************************************)
EXTENDS Integers, Sequences, FiniteSets, SequencesExt

CONSTANTS
  NULL,
  Cells,            \* addresses of list elements
  Keys, SlotOf,     \* keys of a hash, and the slot FIND_SLOT gives each
  Values,
  Positions,        \* positions put into a set
  ByteSize,         \* bits in a byte
  Prealloc,         \* XDEBUG_STR_PREALLOC
  MaxText           \* bound: length of a string

ASSUME ContainersAssumption ==
  /\ NULL \notin Cells
  /\ Positions \subseteq Nat /\ ByteSize \in Nat \ {0}
  /\ Prealloc \in Nat \ {0} /\ MaxText \in Nat
-----------------------------------------------------------------------------
(* xdebug_llist: cells linked both ways. *)
VARIABLES cells, head, tail, count, list

listVars == <<cells, head, tail, count, list>>

ListInit == cells = <<>> /\ head = NULL /\ tail = NULL /\ count = 0 /\ list = <<>>

Fresh == Cells \ DOMAIN cells
Alloc(n, cell) == [a \in DOMAIN cells \cup {n} |-> IF a = n THEN cell ELSE cells[a]]
LinkNext(h, a, to) == IF a = NULL THEN h ELSE [h EXCEPT ![a].next = to]
LinkPrev(h, a, to) == IF a = NULL THEN h ELSE [h EXCEPT ![a].prev = to]
PlaceOf(e) == CHOOSE i \in 1..Len(list) : list[i] = e

InsertFirst(n) ==
  /\ cells' = Alloc(n, [prev |-> NULL, next |-> NULL])
  /\ head' = n /\ tail' = n /\ list' = <<n>>

\* Faulty: a new last element is not made the tail.
InsertNextOldTail(given) ==
  /\ Fresh # {} /\ given \in DOMAIN cells \cup {NULL}
  /\ LET e == IF given = NULL THEN tail ELSE given
         n == CHOOSE c \in Fresh : TRUE
     IN  IF count = 0 THEN InsertFirst(n)
         ELSE LET after == cells[e].next IN
              /\ cells' = LinkNext(LinkPrev(Alloc(n, [prev |-> e, next |-> after]),
                                            after, n), e, n)
              /\ list' = InsertAt(list, PlaceOf(e) + 1, n)
              /\ UNCHANGED <<head, tail>>
  /\ count' = count + 1

\* xdebug_llist_insert_next; without an element it goes to the end.
InsertNext(given) ==
  /\ Fresh # {} /\ given \in DOMAIN cells \cup {NULL}
  /\ LET e == IF given = NULL THEN tail ELSE given
         n == CHOOSE c \in Fresh : TRUE
     IN  IF count = 0 THEN InsertFirst(n)
         ELSE LET after == cells[e].next IN
              /\ cells' = LinkNext(LinkPrev(Alloc(n, [prev |-> e, next |-> after]),
                                            after, n), e, n)
              /\ tail' = IF after = NULL THEN n ELSE tail
              /\ list' = InsertAt(list, PlaceOf(e) + 1, n)
              /\ UNCHANGED head
  /\ count' = count + 1

\* xdebug_llist_insert_prev; without an element it goes to the front.
InsertPrev(given) ==
  /\ Fresh # {} /\ given \in DOMAIN cells \cup {NULL}
  /\ LET e == IF given = NULL THEN head ELSE given
         n == CHOOSE c \in Fresh : TRUE
     IN  IF count = 0 THEN InsertFirst(n)
         ELSE LET before == cells[e].prev IN
              /\ cells' = LinkPrev(LinkNext(Alloc(n, [prev |-> before, next |-> e]),
                                            before, n), e, n)
              /\ head' = IF before = NULL THEN n ELSE head
              /\ list' = InsertAt(list, PlaceOf(e), n)
              /\ UNCHANGED tail
  /\ count' = count + 1

\* xdebug_llist_remove
RemoveCell(e) ==
  /\ e \in DOMAIN cells
  /\ LET before == cells[e].prev
         after  == cells[e].next
         linked == IF e = head THEN LinkPrev(cells, after, NULL)
                   ELSE LinkPrev(LinkNext(cells, before, after), after, before)
     IN  /\ cells' = [a \in DOMAIN cells \ {e} |-> linked[a]]
         /\ head' = IF e = head THEN after ELSE head
         /\ tail' = IF after = NULL THEN (IF e = head THEN NULL ELSE before) ELSE tail
  /\ list' = RemoveAt(list, PlaceOf(e))
  /\ count' = count - 1

ListNext == \E e \in Cells \cup {NULL} : InsertNext(e) \/ InsertPrev(e) \/ RemoveCell(e)

\* xdebug_llist_jump, for every distance, from both ends.
Jump(from, pos, way) ==
  LET e[i \in 0..pos] == IF i = 0 THEN from
                         ELSE IF way = "next" THEN cells[e[i - 1]].next ELSE cells[e[i - 1]].prev
  IN  e[pos]

\* Walking forward or backward finds the same elements, those that were put in
\* and not taken out, and nothing is left that no walk finds (llist.c:43).
ListIsSequence ==
  /\ count = Len(list) /\ DOMAIN cells = ToSet(list)
  /\ head = (IF list = <<>> THEN NULL ELSE list[1])
  /\ tail = (IF list = <<>> THEN NULL ELSE list[Len(list)])
  /\ \A i \in 1..Len(list) : /\ Jump(head, i - 1, "next") = list[i]
                             /\ Jump(tail, Len(list) - i, "prev") = list[i]
  /\ list # <<>> => cells[tail].next = NULL /\ cells[head].prev = NULL
-----------------------------------------------------------------------------
(* xdebug_hash: a chain for every slot.  A key that is a number never equals  *)
(* one that is a string.                                                      *)
VARIABLES chains, size, map

hashVars == <<chains, size, map>>

Slots == {SlotOf[k] : k \in Keys}
HashInit == chains = [s \in Slots |-> <<>>] /\ size = 0 /\ map = <<>>

\* The index of a key in its chain, 0 for none.
IndexIn(chain, k) == SelectInSeq(chain, LAMBDA e : e.key = k)

\* Faulty: a key that is there already is put in again.
HashAddAlways(k, v) ==
  /\ chains' = [chains EXCEPT ![SlotOf[k]] = Append(@, [key |-> k, ptr |-> v])]
  /\ size' = size + 1
  /\ map' = [j \in DOMAIN map \cup {k} |-> IF j = k THEN v ELSE map[j]]

HashAddOrUpdate(k, v) ==
  LET s == SlotOf[k]
      i == IndexIn(chains[s], k)
  IN  /\ chains' = [chains EXCEPT ![s] =
                      IF i # 0 THEN [@ EXCEPT ![i].ptr = v] ELSE Append(@, [key |-> k, ptr |-> v])]
      /\ size' = IF i # 0 THEN size ELSE size + 1
      /\ map' = [j \in DOMAIN map \cup {k} |-> IF j = k THEN v ELSE map[j]]

HashDelete(k) ==
  LET s == SlotOf[k]
      i == IndexIn(chains[s], k)
  IN  /\ i # 0
      /\ chains' = [chains EXCEPT ![s] = RemoveAt(@, i)]
      /\ size' = size - 1
      /\ map' = [j \in DOMAIN map \ {k} |-> map[j]]

HashNext == \E k \in Keys : HashDelete(k) \/ \E v \in Values : HashAddOrUpdate(k, v)

\* xdebug_hash_extended_find
HashFind(k) == LET i == IndexIn(chains[SlotOf[k]], k)
               IN  IF i = 0 THEN NULL ELSE chains[SlotOf[k]][i].ptr

\* A key is found exactly when it was added and not deleted since, with the
\* value that was given last, also when keys share a slot (hash.c:151).
HashIsFunction ==
  /\ \A k \in Keys : HashFind(k) = IF k \in DOMAIN map THEN map[k] ELSE NULL
  /\ size = Cardinality(DOMAIN map)
-----------------------------------------------------------------------------
(* xdebug_set and xdebug_mset: a set of positions is an array of bytes, each  *)
(* the set of its bits; a multi-set has a byte for each position.             *)
VARIABLES setinfo, set_size, members, msetinfo, marks

setVars == <<setinfo, set_size, members, msetinfo, marks>>
Bits == 0..1

SetInit ==
  setinfo = <<>> /\ set_size = 0 /\ members = {} /\ msetinfo = <<>> /\ marks = {}

\* Faulty: a byte that is only filled in part is left out.
WholeBytes(n) == n \div ByteSize

MEM_SIZE(n) == n \div ByteSize + (IF n % ByteSize # 0 THEN 1 ELSE 0)

Resized(mem, n) == [i \in 1..n |-> IF i <= Len(mem) THEN mem[i] ELSE {}]
ByteOf(p) == p \div ByteSize + 1

\* SET_RESIZE_AS_NEEDED
SetResizeAsNeeded(p) ==
  IF p >= set_size THEN [mem |-> Resized(setinfo, MEM_SIZE(p + 1)), size |-> p + 1]
  ELSE [mem |-> setinfo, size |-> set_size]

SetAdd(p) ==
  LET r == SetResizeAsNeeded(p) IN
  /\ set_size' = r.size
  /\ setinfo' = [r.mem EXCEPT ![ByteOf(p)] = @ \cup {p % ByteSize}]
  /\ members' = members \cup {p}
  /\ UNCHANGED <<msetinfo, marks>>

SetRemove(p) ==
  LET r == SetResizeAsNeeded(p) IN
  /\ set_size' = r.size
  /\ setinfo' = [r.mem EXCEPT ![ByteOf(p)] = @ \ {p % ByteSize}]
  /\ members' = members \ {p}
  /\ UNCHANGED <<msetinfo, marks>>

SetClear ==
  /\ setinfo' = [i \in 1..Len(setinfo) |-> IF i <= MEM_SIZE(set_size) THEN {} ELSE setinfo[i]]
  /\ members' = {}
  /\ UNCHANGED <<set_size, msetinfo, marks>>

MsetAdd(p, bit) ==
  /\ msetinfo' = [Resized(msetinfo, IF p >= Len(msetinfo) THEN p + 1 ELSE Len(msetinfo))
                    EXCEPT ![p + 1] = @ \cup {bit}]
  /\ marks' = marks \cup {<<p, bit>>}
  /\ UNCHANGED <<setinfo, set_size, members>>

SetNext == \/ SetClear
           \/ \E p \in Positions : SetAdd(p) \/ SetRemove(p) \/ \E b \in Bits : MsetAdd(p, b)

SetIn(p)     == p < set_size /\ p % ByteSize \in setinfo[ByteOf(p)]
MsetIn(p, b) == p < Len(msetinfo) /\ b \in msetinfo[p + 1]

\* Membership is what was added and not removed, for positions on either side of
\* a byte's and of the array's end, and no test or change reads past it (set.c:24).
SetIsSet ==
  /\ \A p \in 0..(set_size - 1) : ByteOf(p) <= Len(setinfo)
  /\ \A p \in Positions : SetIn(p) = (p \in members)
  /\ \A p \in Positions, b \in Bits : MsetIn(p, b) = (<<p, b>> \in marks)
-----------------------------------------------------------------------------
(* xdebug_str: length, allocated bytes and content; the byte after the content *)
(* is a zero.  reach is the highest index written since it was made.           *)
VARIABLES l, a, text, reach

strVars == <<l, a, text, reach>>

\* xdebug_str_new, or xdebug_str_create of n characters
StrInit == \/ l = 0 /\ a = 0 /\ text = 0 /\ reach = -1
           \/ \E n \in 0..2 : l = n /\ a = n + 1 /\ text = n /\ reach = n

\* Faulty: no room is kept for the zero.
AllocatedForText(len, alloc, n) ==
  IF alloc = 0 \/ len = 0 \/ len + n > alloc THEN alloc + n + Prealloc ELSE alloc

\* realloc_if_needed: what is allocated afterwards
AllocatedFor(len, alloc, n) ==
  IF alloc = 0 \/ len = 0 \/ len + n > alloc - 1 THEN alloc + n + Prealloc ELSE alloc

Highest(x, y) == IF x > y THEN x ELSE y

StrAddl(n) ==
  /\ text + n <= MaxText /\ a <= MaxText + Prealloc
  /\ a' = AllocatedFor(l, a, n)
  /\ l' = l + n /\ text' = text + n /\ reach' = Highest(reach, l + n)

\* xdebug_str_add_va_fmt: tries with what is there, then with what it needs;
\* vsnprintf writes no more than the size it is given.
StrAddFmt(n) ==
  /\ text + n <= MaxText /\ a <= MaxText + Prealloc
  /\ LET first  == AllocatedFor(l, a, 1)
         second == AllocatedFor(l, first, n + 1)
     IN  IF n < first - l
         THEN a' = first /\ reach' = Highest(reach, l + n) /\ l' = l + n
         ELSE /\ a' = second /\ reach' = Highest(reach, l + n)
              /\ l' = IF n < second - l THEN l + n ELSE l
  /\ text' = text + n

StrChop(c) ==
  /\ a > 0
  /\ l' = IF c > l THEN l ELSE l - c
  /\ text' = IF c > text THEN text ELSE text - c
  /\ UNCHANGED <<a, reach>>

StrNext == \/ \E n \in 0..3 : StrAddl(n) \/ StrAddFmt(n)
           \/ \E c \in 1..2 : StrChop(c)

\* Nothing is written past what is allocated, the closing zero included, the
\* second try to format always succeeds, and no text is lost (str.c:40).
StrFits == l = text /\ reach < (IF a = 0 THEN 0 ELSE a) /\ (a > 0 => l < a)
-----------------------------------------------------------------------------
(* All of them, each used at any time.                                        *)
ContainersInit == ListInit /\ HashInit /\ SetInit /\ StrInit
ContainersNext ==
  \/ ListNext /\ UNCHANGED <<hashVars, setVars, strVars>>
  \/ HashNext /\ UNCHANGED <<listVars, setVars, strVars>>
  \/ SetNext /\ UNCHANGED <<listVars, hashVars, strVars>>
  \/ StrNext /\ UNCHANGED <<listVars, hashVars, setVars>>
ContainersSpec ==
  ContainersInit /\ [][ContainersNext]_<<listVars, hashVars, setVars, strVars>>

\* The containers do what their counterparts in mathematics do.
ContainersAgree == ListIsSequence /\ HashIsFunction /\ SetIsSet /\ StrFits
=============================================================================
