----------------------------- MODULE CursorList -----------------------------
(***************************************************************************)
(* Middleware/MQLib/List: a list of items with one search cursor of its    *)
(* own, _search, that every walk over the list shares.  pos = 0 stands for *)
(* the NULL cursor.                                                        *)
(***************************************************************************)
EXTENDS Naturals, Sequences, SequencesExt

EmptyList == [items |-> <<>>, pos |-> 0]

Lists(S) == {l \in [items : Seq(S), pos : Nat] : l.pos \in 0 .. Len(l.items)}

Items(list) == {list.items[i] : i \in DOMAIN list.items}

\* the items that a walk from the cursor on still has to visit
FromCursor(list) == {list.items[i] : i \in {j \in DOMAIN list.items : 0 < list.pos /\ list.pos <= j}}

AddItem(list, item) == [list EXCEPT !.items = Append(@, item)]

FirstItem(list) == [list EXCEPT !.pos = IF list.items = <<>> THEN 0 ELSE 1]

NextItem(list) == [list EXCEPT !.pos = IF @ \in {0, Len(list.items)} THEN 0 ELSE @ + 1]

\* searchItem, and findTopicByName: the cursor stays where the walk ended
SearchItem(list, item) ==
  [list EXCEPT !.pos = IF item \in Items(list)
                       THEN CHOOSE i \in DOMAIN list.items : list.items[i] = item
                       ELSE 0]

\* mutant of RemoveItem: the cursor is left where it is
RemoveItemCursor(list, item) ==
  LET i == CHOOSE j \in DOMAIN list.items : list.items[j] = item
  IN  [list EXCEPT !.items = RemoveAt(@, i)]
\* removeItem of an item that is there: the cursor moves to its successor
RemoveItem(list, item) ==
  LET i == CHOOSE j \in DOMAIN list.items : list.items[j] = item
  IN  [items |-> RemoveAt(list.items, i),
       pos   |-> IF i = Len(list.items) THEN 0 ELSE i]
=============================================================================
