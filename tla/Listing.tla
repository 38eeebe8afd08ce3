------------------------------ MODULE Listing ------------------------------
(***************************************************************************)
(* The listings of rest.py and their pagination (pagination.py): a client  *)
(* follows the "next" links from the first page to the last while other    *)
(* requests write the rows.                                                *)
(*                                                                         *)
(* Every page is one SELECT, so it is one step here.  Without a search     *)
(* PostgreSQL orders the rows and cuts out the page; with one all rows are *)
(* fetched, matched (module SearchFilters), sorted and cut in Python.  The *)
(* codes are numbers in the order of the path: that of the collation in    *)
(* PostgreSQL, that of the code points in Python.  A walk keeps to one.    *)
(*                                                                         *)
(* The table holds the rows the listing is about: for a sub-entity those   *)
(* below its parent, and a row that changes its parent comes or goes.      *)
(***************************************************************************)
EXTENDS SearchFilters

CONSTANTS
  Codes,       \* primary keys
  ValidCodes,  \* those is_valid_code accepts: any may be stored, others are not shown
  Entities,    \* the contents of rows
  Searches,    \* the searches a client may ask for: one without rules still projects
  WalkSearches,  \* those it follows over several pages
  Limits,      \* the values clients give to `limit`
  MaxLimit,    \* the largest that is accepted
  MaxWrites    \* bound on the writes during one walk

\* Which listing, how it is paged through, and the query of the next request.
Listings == {"items", "sub_items"}
Modes == {"page", "search_after"}
Walk == [of : Listings, mode : Modes, search : Searches \cup {Null}, limit : 1..MaxLimit,
         page : Nat, after : Codes \cup {Null}]

ASSUME ListingAssumption ==
  /\ Codes \subseteq Nat /\ IsFiniteSet(Codes) /\ ValidCodes \subseteq Codes
  /\ WalkSearches \subseteq Searches
  /\ Null \notin Entities /\ Null \notin Searches /\ Null \notin Nat
  /\ Null \notin Walk
  /\ Limits \subseteq Int /\ MaxLimit \in Nat \ {0} /\ MaxWrites \in Nat

\* The rows fit the columns of the table, and what two strings are is told by their
\* letters.
ASSUME EntitiesAssumption ==
  /\ \A e \in Entities :
       /\ DOMAIN e.fields = SQL_FILTERABLE_FIELDS
       /\ \A f \in SQL_FILTERABLE_FIELDS :
            WellFormed(e.fields[f]) /\ FitsColumn(e.fields[f], Kind[f])
  /\ \A search \in Searches : \A rule \in search :
       /\ \A v \in Literals(rule) \cup {rule.value} : WellFormed(v)
       /\ \A e \in Entities : \A cell \in Cells(e), v \in Literals(rule) :
            IsStr(cell) /\ IsStr(v) /\ cell.str = v.str => cell = v

VARIABLES
  table,     \* the rows
  walk,      \* the request that asks for the next page
  status,    \* what became of the walk
  seen,      \* history: the codes on the pages so far
  repeated,  \* history: how many items had been on an earlier page
  stable,    \* history: the codes that have been listed ever since the walk began
  inserted,  \* history: how many rows have come into the list
  deleted,   \* history: how many have left it
  cut,       \* history: the walk ended although there were rows behind the last page
  found      \* the items and the search of the last answer to /products-uuid/search

vars == <<table, walk, status, seen, repeated, stable, inserted, deleted, cut, found>>
history == <<seen, repeated, stable, inserted, deleted, cut>>

TypeOK ==
  /\ table \in [Codes -> Entities \cup {Null}]
  /\ walk \in Walk \cup {Null}
  /\ status \in {"none", "open", "done", "refused", "error"}
  /\ status \in {"open", "done"} => walk # Null
  /\ seen \subseteq ValidCodes
  /\ repeated \in Nat
  /\ stable \subseteq Codes
  /\ inserted \in 0..MaxWrites /\ deleted \in 0..MaxWrites
  /\ cut \in BOOLEAN
  /\ found = Null \/ found.items \subseteq ValidCodes

Init ==
  /\ table \in [Codes -> {Null}]
  /\ walk = Null /\ status = "none"
  /\ seen = {} /\ repeated = 0 /\ stable = {}
  /\ inserted = 0 /\ deleted = 0 /\ cut = FALSE
  /\ found = Null

\* W are the first n of S, or all of S when there are no more than n.
IsFirst(W, S, n) ==
  /\ W \subseteq S
  /\ Cardinality(W) = n \/ (Cardinality(W) < n /\ W = S)
  /\ \A c \in W, d \in S \ W : c < d

Forget ==
  /\ seen' = {} /\ repeated' = 0 /\ inserted' = 0 /\ deleted' = 0 /\ cut' = FALSE

----------------------------------------------------------------------------
(* Rows. *)

\* _sanitize_row_entity has no entity for a code that is not valid.
Sanitized(S) == S \cap ValidCodes

Rows == {c \in Codes : table[c] # Null}

\* Rows that the WHERE clause selects and that match every rule.
Collected(t, search) ==
  {c \in ValidCodes : /\ t[c] # Null
                      /\ Prefiltered(t[c], search)
                      /\ MatchesSearch(t[c], search, Null, Null)}

\* The rows a walk pages through: all, or those the search finds.
Listed(t, w) ==
  IF w.search = Null THEN {c \in Codes : t[c] # Null}
  ELSE IF SqlFails(w.search) THEN {} ELSE Collected(t, w.search)

\* The next write after a walk is over forgets it, and makes room for another.
Write(t) ==
  /\ table' = t
  /\ IF status = "open"
     THEN LET was == Listed(table, walk)
              is == Listed(t, walk) IN
          /\ stable' = stable \cap is
          /\ inserted' = inserted + Cardinality(is \ was)
          /\ deleted' = deleted + Cardinality(was \ is)
          /\ inserted' + deleted' <= MaxWrites
          /\ UNCHANGED <<walk, status, seen, repeated, cut>>
     ELSE Forget /\ walk' = Null /\ status' = "none" /\ stable' = {}
  /\ found' = Null

\* _upsert_item and the DELETE handlers, on behalf of other clients.
StoreRow(c, e) == Write([table EXCEPT ![c] = e])
DeleteRow(c) == table[c] # Null /\ Write([table EXCEPT ![c] = Null])

----------------------------------------------------------------------------
(* The first request of a walk. *)

\* What clients give as pagination_type, and what listings support.
Types == Modes \cup {Null, "unknown"}
Offers == {"page", "both", "search_after"}

ValidLimit(limit) == 1 <= limit /\ limit <= MaxLimit

\* The mode, or Null for an answer of 422.
ResolvePaginationType(type, offer) ==
  CASE type = Null -> IF offer = "search_after" THEN "search_after" ELSE "page"
    [] type \in Modes /\ offer \in {type, "both"} -> type
    [] OTHER -> Null

Start(type, offer, of, search, limit) ==
  LET mode == ResolvePaginationType(type, offer)
      first == [of |-> of, mode |-> mode, search |-> search, limit |-> limit,
                page |-> 1, after |-> Null] IN
  /\ status = "none"
  /\ of = "sub_items" => search = Null
  /\ Forget
  /\ IF mode = Null \/ ~ValidLimit(limit)
     THEN walk' = Null /\ status' = "refused" /\ stable' = {}
     ELSE /\ walk' = first /\ status' = "open"
          /\ stable' = Sanitized(Listed(table, first))
  /\ found' = Null
  /\ UNCHANGED table

----------------------------------------------------------------------------
(* A page. *)

\* Variant: the cursor is the last row fetched, which the page does not show.
NextFromFetched(sel, entries) ==
  IF walk.mode = "page" THEN {[walk EXCEPT !.page = @ + 1]}
  ELSE {[walk EXCEPT !.after = c] : c \in {c \in entries : \A d \in entries : d <= c}}

\* The "next" link: the page number plus one, or the last code on the page.
NextLink(sel, entries) ==
  IF walk.mode = "page" THEN {[walk EXCEPT !.page = @ + 1]}
  ELSE {[walk EXCEPT !.after = c] : c \in {c \in sel : \A d \in sel : d <= c}}

\* Variant: the row of the cursor comes again.
FromCursor(S) == IF walk.after = Null THEN S ELSE {c \in S : c >= walk.after}

\* Variant: OFFSET is one page too far.
IsRestOfNext(rest, S) ==
  IF walk.mode = "search_after"
  THEN rest = IF walk.after = Null THEN S ELSE {c \in S : c > walk.after}
  ELSE IsFirst(S \ rest, S, walk.page * walk.limit)

\* The rows behind the cursor; those left when the pages before are skipped.
Behind(S) == IF walk.after = Null THEN S ELSE {c \in S : c > walk.after}
IsRest(rest, S) ==
  IF walk.mode = "search_after" THEN rest = Behind(S)
  ELSE IsFirst(S \ rest, S, (walk.page - 1) * walk.limit)

\* The page that is made of `fetched`, when `rest` is what there is from here on.
\* There is a next one if an entry is left over.
Answer(fetched, rest) ==
  LET entries == Sanitized(fetched)
      next == Cardinality(entries) > walk.limit IN
  \E sel \in SUBSET entries :
    /\ IsFirst(sel, entries, walk.limit)
    /\ seen' = seen \cup sel
    /\ repeated' = repeated + Cardinality(sel \cap seen)
    /\ status' = IF next THEN "open" ELSE "done"
    /\ walk' \in IF next THEN NextLink(sel, entries) ELSE {walk}
    /\ cut' = (~next /\ fetched # rest)
    /\ found' = Null
    /\ UNCHANGED <<table, stable, inserted, deleted>>

\* Variant: LIMIT is the size of the page, so that nothing is ever left over.
SqlPageOnly ==
  \E rest \in SUBSET Rows :
    /\ IsRest(rest, Rows)
    /\ \E fetched \in SUBSET rest :
         IsFirst(fetched, rest, walk.limit) /\ Answer(fetched, rest)

\* PostgreSQL orders the rows, skips and returns at most one more than the page has.
SqlPage ==
  \E rest \in SUBSET Rows :
    /\ IsRest(rest, Rows)
    /\ \E fetched \in SUBSET rest :
         IsFirst(fetched, rest, walk.limit + 1) /\ Answer(fetched, rest)

GetItems ==
  status = "open" /\ walk.of = "items" /\ walk.search = Null /\ SqlPage

\* The listing of a sub-entity takes no search.
GetSubItems == status = "open" /\ walk.of = "sub_items" /\ SqlPage

----------------------------------------------------------------------------
(* With a search. *)

\* paginate_page and paginate_search_after, on all that was collected.
GetFilteredItems ==
  /\ status = "open" /\ walk.search # Null /\ ~SqlFails(walk.search)
  /\ LET all == Collected(table, walk.search) IN
     \E rest \in SUBSET all : IsRest(rest, all) /\ Answer(rest, rest)

\* PostgreSQL refuses the WHERE clause: 500.
SearchFails ==
  /\ status = "open" /\ walk.search # Null /\ SqlFails(walk.search)
  /\ status' = "error" /\ found' = Null
  /\ UNCHANGED <<table, walk, history>>

\* Variant: LIMIT although rules are left to Python.
AlwaysLimited(search, fetched, limit) ==
  {S \in SUBSET fetched : Cardinality(S) = limit \/ (Cardinality(S) < limit /\ S = fetched)}

\* What the SELECT returns of the rows its WHERE clause selects: in no particular
\* order, and all of them if a rule is left to Python.
Fetched(search, selected, limit) ==
  IF HasPostSqlFilters(search) THEN {selected}
  ELSE {S \in SUBSET selected :
          Cardinality(S) = limit \/ (Cardinality(S) < limit /\ S = selected)}

\* collect_filtered_items with a limit, for GET /products-uuid/search.  It only reads,
\* so taking it between walks leaves nothing out.
SearchProductsUuid(search, limit) ==
  /\ status = "none"
  /\ ValidLimit(limit) /\ ~SqlFails(search)
  /\ \E fetched \in Fetched(search, {c \in Rows : Prefiltered(table[c], search)}, limit) :
       LET matching == Collected(table, search) \cap fetched IN
       \E items \in SUBSET matching :
         /\ Cardinality(items) = limit \/ (Cardinality(items) < limit /\ items = matching)
         /\ found' = [items |-> items, search |-> search, limit |-> limit]
  /\ UNCHANGED <<table, walk, status, history>>

----------------------------------------------------------------------------

Next ==
  \/ \E c \in Codes, e \in Entities : StoreRow(c, e)
  \/ \E c \in Codes : DeleteRow(c)
  \/ \E type \in Types, offer \in Offers, of \in Listings,
        search \in WalkSearches \cup {Null}, limit \in Limits :
       Start(type, offer, of, search, limit)
  \/ GetItems \/ GetSubItems \/ GetFilteredItems \/ SearchFails
  \/ \E search \in Searches, limit \in Limits : SearchProductsUuid(search, limit)

Spec == Init /\ [][Next]_vars

----------------------------------------------------------------------------
(* Properties. *)

\* A client that follows the cursors is given no code twice, whatever is written in
\* the meantime.
NoRepeats == status \in {"open", "done"} /\ walk.mode = "search_after" => repeated = 0

\* When the cursors end it has been given every code that was in the list all along,
\* unless they end early.
SearchAfterComplete ==
  status = "done" /\ walk.mode = "search_after" /\ ~cut => stable \subseteq seen

\* With page numbers, rows that come in push others to a page they have been on, and
\* rows that go pull others to a page that is over: one each.
PageDrift ==
  status \in {"open", "done"} /\ walk.mode = "page" =>
    /\ repeated <= inserted
    /\ status = "done" /\ ~cut => Cardinality(stable \ seen) <= deleted

\* The links only end early where a code that is not valid was taken off what LIMIT
\* had returned, and never in a search.
EndsEarlyOnlyByInvalid ==
  [][cut' /\ ~cut => walk.search = Null /\ Behind(Rows) \ ValidCodes # {}]_vars

\* What the WHERE clause may take for no match although the rule alone is one: under a
\* negation a JSON null, and a boolean that the rule compares with a string; a text
\* with a backslash; and an attribute with the code of a column that is NULL.
MayLose(entity, rule) ==
  LET cell == entity.fields[rule.field] IN
  \/ /\ rule.operator \in {"!=", "NOT_IN"}
     /\ \/ cell = Null
        \/ Kind[rule.field] = "boolean" /\ \E v \in Literals(rule) : IsStr(v)
  \/ /\ rule.operator \in {"CONTAINS", "STARTS_WITH", "ENDS_WITH"}
     /\ \E i \in DOMAIN rule.value.str : rule.value.str[i] = "\\"
  \/ cell = Absent /\ rule.field \in DOMAIN entity.values

\* Every row that the rules alone find, without the WHERE clause, passes each of its
\* conditions, but for those that may lose it.
PrefilterIsSound ==
  \A c \in Rows, search \in Searches :
    ~SqlFails(search) /\ MatchesSearch(table[c], search, Null, Null) =>
      \A rule \in SqlRules(search) :
        SqlClause(table[c], rule) \/ MayLose(table[c], rule)

\* A search with a limit comes back with as many items as there are, up to the limit,
\* unless LIMIT was spent on rows that the rules then refuse.
LimitedSearchIsFull ==
  found # Null =>
    LET all == Collected(table, found.search)
        selected == {c \in Rows : Prefiltered(table[c], found.search)} IN
    \/ Cardinality(found.items) = found.limit
    \/ Cardinality(found.items) < found.limit /\ found.items = all
    \/ ~HasPostSqlFilters(found.search) /\ ~(selected \subseteq all)

=============================================================================
