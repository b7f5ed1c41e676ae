---------------------------- MODULE CursorPages ----------------------------
(***************************************************************************)
(* GET /orders and GET /products: keyset pagination (pagination.ts) over a *)
(* table that changes between the pages of a walk.  Ids come from the      *)
(* identity sequence when a row is inserted, rows become visible when      *)
(* their transactions commit, which may be in another order, and demos     *)
(* delete orders.                                                          *)
(***************************************************************************)
EXTENDS Naturals, FiniteSets, FiniteSetsExt

CONSTANTS
  Walkers,  \* clients that walk through the pages
  Limits,   \* page sizes they ask for (1 .. 50)
  MaxId     \* bound on rows inserted, for model checking

LimitsAssumption == Limits \subseteq Nat \ {0}
IdsAssumption == MaxId \in Nat

Ids == 1 .. MaxId

VARIABLES
  next,     \* the sequence: the id of the next row
  open,     \* rows of transactions still open
  rows,     \* committed rows
  walk,     \* where a client is: limit, cursor (0 for none), and whether it
            \* has asked for a page yet and has got next_cursor null
  page,     \* the items of a client's last page; their order is that of the ids
  before,   \* the items of its pages before
  old       \* rows there at the client's first page and never deleted since

table == <<next, open, rows>>
given == <<page, before>>
vars == <<table, walk, given, old>>

TypeOK ==
  /\ next \in 1 .. MaxId + 1
  /\ open \subseteq Ids
  /\ rows \subseteq Ids
  /\ walk \in [Walkers -> [step : {"start", "paging", "ended"},
                           limit : Limits, cursor : 0 .. next - 1]]
  /\ page \in [Walkers -> {S \in SUBSET Ids : \E n \in Limits : Cardinality(S) <= n}]
  /\ before \in [Walkers -> SUBSET Ids]
  /\ old \in [Walkers -> SUBSET Ids]

Init ==
  /\ next = 1
  /\ open = {}
  /\ rows = {}
  /\ walk \in [Walkers -> [step : {"start"}, limit : Limits, cursor : {0}]]
  /\ page = [w \in Walkers |-> {}]
  /\ before = [w \in Walkers |-> {}]
  /\ old = [w \in Walkers |-> {}]

-----------------------------------------------------------------------------
(* Writers.                                                                *)

Insert == /\ next \in Ids
          /\ open' = open \cup {next}
          /\ next' = next + 1
          /\ UNCHANGED <<rows, walk, given, old>>

CommitRow(i) == /\ i \in open
                /\ open' = open \ {i}
                /\ rows' = rows \cup {i}
                /\ UNCHANGED <<next, walk, given, old>>

\* The sequence does not take the id back.
Rollback(i) == /\ i \in open
               /\ open' = open \ {i}
               /\ UNCHANGED <<next, rows, walk, given, old>>

Delete(i) == /\ i \in rows
             /\ rows' = rows \ {i}
             /\ old' = [w \in Walkers |-> old[w] \ {i}]
             /\ UNCHANGED <<next, open, walk, given>>

-----------------------------------------------------------------------------
(* paginate.                                                               *)

\* As it would be with the cursor as an offset.
AfterOffset(after) == {i \in rows : Cardinality({j \in rows : j < i}) >= after}

After(after) == {i \in rows : i > after}

\* items.filter(...).slice(0, limit)
Slice(after, limit) ==
  {i \in After(after) : Cardinality({j \in After(after) : j < i}) < limit}

\* next_cursor: the last id of the page, or null (0) when none is greater.
NextCursor(items) ==
  IF items # {} /\ \E i \in rows : i > Max(items) THEN Max(items) ELSE 0

\* One request: a single SELECT, then paginate.
Page(w) ==
  /\ walk[w].step # "ended"
  /\ LET items == Slice(walk[w].cursor, walk[w].limit)
         cursor == NextCursor(items)
     IN /\ page' = [page EXCEPT ![w] = items]
        /\ before' = [before EXCEPT ![w] = @ \cup page[w]]
        /\ walk' = [walk EXCEPT ![w] = [step |-> IF cursor = 0 THEN "ended" ELSE "paging",
                                        limit |-> @.limit,
                                        cursor |-> cursor]]
  /\ old' = IF walk[w].step = "start" THEN [old EXCEPT ![w] = rows] ELSE old
  /\ UNCHANGED table

-----------------------------------------------------------------------------
Next == \/ Insert
        \/ \E i \in Ids : CommitRow(i) \/ Rollback(i) \/ Delete(i)
        \/ \E w \in Walkers : Page(w)

Spec == Init /\ [][Next]_vars

-----------------------------------------------------------------------------
(* Properties.                                                             *)

\* A walk gets every row at most once and in the order of the ids, whatever
\* is inserted and deleted meanwhile; and when it has ended it has been given
\* every row that was there when it began and still is.  Of a row that commits
\* meanwhile nothing is said: its id may lie behind the cursor.
WalkSeesEachOnce ==
  \A w \in Walkers :
    /\ \A i \in before[w], j \in page[w] : i < j
    /\ walk[w].step = "ended" => old[w] \subseteq before[w] \cup page[w]

=============================================================================
