--------------------------- MODULE ListingProofs ---------------------------
(***************************************************************************)
(* Proofs about Listing, for any table, any limit and any writes.          *)
(***************************************************************************)
EXTENDS Listing, FiniteSetTheorems, TLAPS

\* A walk by cursor has been given nothing behind its cursor, and every code that
\* was listed all along is still listed and was given or lies behind the cursor.
CursorFits ==
  status \in {"open", "done"} /\ walk.mode = "search_after" =>
    /\ repeated = 0
    /\ stable \subseteq ValidCodes
    /\ status = "open" =>
         /\ walk.after = Null => seen = {}
         /\ walk.after # Null => \A c \in seen : c <= walk.after
         /\ stable \subseteq Listed(table, walk)
         /\ \A c \in stable \ seen : walk.after = Null \/ c > walk.after

\* Sub-entities are not searched, and page numbers need no cursor.
WalkFits ==
  status = "open" =>
    /\ walk.of = "sub_items" => walk.search = Null
    /\ walk.mode = "page" => walk.after = Null

LInv == TypeOK /\ WalkFits /\ CursorFits /\ SearchAfterComplete

USE DEF Listings, Modes

\* The empty table satisfies the invariant.
LEMMA LInvInit == Init => LInv
<1> SUFFICES ASSUME Init PROVE LInv
  OBVIOUS
<1>0. cut \in BOOLEAN
  BY DEF Init
<1>1. TypeOK
  BY <1>0, ListingAssumption DEF Init, TypeOK
<1>2. WalkFits /\ CursorFits /\ SearchAfterComplete
  BY DEF Init, WalkFits, CursorFits, SearchAfterComplete
<1> QED BY <1>1, <1>2 DEF LInv

\* The sets of codes are finite, so that their sizes are numbers.
LEMMA Finite == ASSUME NEW S \in SUBSET Codes
                PROVE  IsFiniteSet(S) /\ Cardinality(S) \in Nat
BY ListingAssumption, FS_Subset, FS_CardinalityType

\* What is listed are codes.
LEMMA ListedType == ASSUME NEW t, NEW w PROVE Listed(t, w) \subseteq Codes
BY ListingAssumption DEF Listed, Collected

\* A write leaves the walk alone and can only take codes off `stable`, or forgets it.
LEMMA WriteStep ==
  ASSUME LInv, NEW t \in [Codes -> Entities \cup {Null}], Write(t)
  PROVE  LInv'
<1> USE DEF LInv, TypeOK, WalkFits, CursorFits, SearchAfterComplete
<1>1. CASE status = "open"
  <2> DEFINE was == Listed(table, walk)
             is == Listed(t, walk)
  <2>1. /\ stable' = stable \cap is
        /\ inserted' = inserted + Cardinality(is \ was)
        /\ deleted' = deleted + Cardinality(was \ is)
        /\ inserted' + deleted' <= MaxWrites
        /\ UNCHANGED <<walk, status, seen, repeated, cut>>
        /\ table' = t /\ found' = Null
    BY <1>1 DEF Write
  <2>2. Cardinality(is \ was) \in Nat /\ Cardinality(was \ is) \in Nat
    <3>1. is \ was \in SUBSET Codes /\ was \ is \in SUBSET Codes
      BY ListedType
    <3> QED BY <3>1, Finite
  <2> HIDE DEF was, is
  <2>3. inserted' \in 0..MaxWrites /\ deleted' \in 0..MaxWrites
    BY <2>1, <2>2, ListingAssumption
  <2>4. TypeOK'
    BY <2>1, <2>3
  <2>5. Listed(table, walk)' = is
    BY <2>1 DEF is, Listed
  <2>6. CursorFits'
    BY <2>1, <2>5, <1>1
  <2> QED BY <2>1, <2>4, <2>6, <1>1
<1>2. CASE status # "open"
  <2>1. cut' \in BOOLEAN
    BY <1>2 DEF Write, Forget
  <2> QED BY <1>2, <2>1, ListingAssumption DEF Write, Forget
<1> QED BY <1>1, <1>2

\* A walk begins with what is listed and valid still to be given.
LEMMA StartStep ==
  ASSUME LInv, NEW type, NEW offer, NEW of \in Listings,
         NEW search \in WalkSearches \cup {Null}, NEW limit \in Limits,
         Start(type, offer, of, search, limit)
  PROVE  LInv'
<1> USE DEF LInv, TypeOK, WalkFits, CursorFits, SearchAfterComplete
<1> DEFINE mode == ResolvePaginationType(type, offer)
           first == [of |-> of, mode |-> mode, search |-> search, limit |-> limit,
                     page |-> 1, after |-> Null]
<1>1. /\ seen' = {} /\ repeated' = 0 /\ inserted' = 0 /\ deleted' = 0 /\ cut' = FALSE
      /\ found' = Null /\ table' = table
      /\ of = "sub_items" => search = Null
  BY DEF Start, Forget
<1>0. cut' \in BOOLEAN
  BY <1>1
<1>2. CASE mode = Null \/ ~ValidLimit(limit)
  BY <1>0, <1>1, <1>2, ListingAssumption DEF Start
<1>3. CASE mode # Null /\ ValidLimit(limit)
  <2>1. walk' = first /\ status' = "open" /\ stable' = Sanitized(Listed(table, first))
    BY <1>3 DEF Start
  <2>2. mode \in Modes
    BY <1>3 DEF ResolvePaginationType
  <2>3. first \in Walk
    BY <2>2, <1>3, ListingAssumption DEF Walk, ValidLimit
  <2>4. stable' \subseteq ValidCodes /\ stable' \subseteq Codes
    BY <2>1, ListedType DEF Sanitized
  <2> HIDE DEF first
  <2>5. TypeOK'
    BY <1>0, <1>1, <2>1, <2>3, <2>4, ListingAssumption
  <2>6. Listed(table, walk)' = Listed(table, first)
    BY <1>1, <2>1
  <2>7. CursorFits'
    BY <1>1, <2>1, <2>4, <2>6 DEF Sanitized, first
  <2> QED BY <1>1, <2>1, <2>5, <2>7 DEF first
<1> QED BY <1>2, <1>3

----------------------------------------------------------------------------
(* A page. *)

\* When all of S fits into a page the first of S are all of S.
LEMMA AllFit ==
  ASSUME NEW S \in SUBSET Codes, NEW W, NEW n \in Nat,
         IsFirst(W, S, n), Cardinality(S) <= n
  PROVE  W = S
<1>1. W \in SUBSET S /\ (Cardinality(W) = n \/ W = S)
  BY DEF IsFirst
<1>2. IsFiniteSet(S) /\ Cardinality(S) \in Nat
  BY Finite
<1>3. Cardinality(W) <= Cardinality(S) /\ (Cardinality(S) = Cardinality(W) => S = W)
  BY <1>1, <1>2, FS_Subset
<1>4. Cardinality(W) \in Nat
  BY <1>1, Finite
<1> QED BY <1>1, <1>2, <1>3, <1>4

\* What a page shows are valid codes that have been fetched, and the next request is
\* as well formed as this one.
LEMMA AnswerType ==
  ASSUME TypeOK, status = "open", NEW fetched \in SUBSET Codes, NEW rest,
         Answer(fetched, rest)
  PROVE  /\ TypeOK'
         /\ walk'.of = walk.of /\ walk'.mode = walk.mode /\ walk'.search = walk.search
         /\ walk.mode = "page" => walk'.after = walk.after
<1> DEFINE entries == Sanitized(fetched)
           next == Cardinality(entries) > walk.limit
<1>1. PICK sel \in SUBSET entries :
        /\ seen' = seen \cup sel
        /\ repeated' = repeated + Cardinality(sel \cap seen)
        /\ status' = IF next THEN "open" ELSE "done"
        /\ walk' \in IF next THEN NextLink(sel, entries) ELSE {walk}
        /\ cut' = (~next /\ fetched # rest)
        /\ found' = Null
        /\ UNCHANGED <<table, stable, inserted, deleted>>
  BY DEF Answer
<1>2. walk \in Walk /\ walk # Null
  BY DEF TypeOK
<1>3. sel \subseteq ValidCodes /\ sel \subseteq Codes
  BY DEF Sanitized
<1>4. repeated' \in Nat
  <2>1. Cardinality(sel \cap seen) \in Nat
    BY <1>3, Finite
  <2> QED BY <1>1, <2>1 DEF TypeOK
<1>5. /\ walk' \in Walk
      /\ walk'.of = walk.of /\ walk'.mode = walk.mode /\ walk'.search = walk.search
      /\ walk.mode = "page" => walk'.after = walk.after
  <2>1. CASE ~next
    BY <1>1, <1>2, <2>1
  <2>2. CASE next
    <3>1. walk' \in NextLink(sel, entries)
      BY <1>1, <2>2
    <3> QED BY <1>2, <1>3, <3>1 DEF NextLink, Walk
  <2> QED BY <2>1, <2>2
<1>6. cut' \in BOOLEAN
  BY <1>1
<1>7. status' \in {"open", "done"}
  BY <1>1
<1>8. walk' # Null
  BY <1>5, ListingAssumption
<1> HIDE DEF entries, next
<1> QED BY <1>1, <1>3, <1>4, <1>5, <1>6, <1>7, <1>8 DEF TypeOK

\* The heart of it: a page that takes the first valid codes of those fetched, which
\* are the first of those behind the cursor, leaves nothing out.
LEMMA AnswerStep ==
  ASSUME LInv, status = "open", walk.mode = "search_after",
         NEW rest, NEW n \in Nat, NEW fetched \in SUBSET rest,
         rest = Behind(Listed(table, walk)),
         IsFirst(fetched, rest, n) \/ fetched = rest,
         Answer(fetched, rest)
  PROVE  CursorFits' /\ SearchAfterComplete'
<1> DEFINE entries == Sanitized(fetched)
           next == Cardinality(entries) > walk.limit
<1>1. PICK sel \in SUBSET entries :
        /\ IsFirst(sel, entries, walk.limit)
        /\ seen' = seen \cup sel
        /\ repeated' = repeated + Cardinality(sel \cap seen)
        /\ status' = IF next THEN "open" ELSE "done"
        /\ walk' \in IF next THEN NextLink(sel, entries) ELSE {walk}
        /\ cut' = (~next /\ fetched # rest)
        /\ UNCHANGED <<table, stable, inserted, deleted>>
  BY DEF Answer
<1>2. /\ walk \in Walk /\ walk.limit \in Nat
      /\ walk.after \in Codes \cup {Null}
      /\ Codes \subseteq Nat /\ Null \notin Nat
  BY ListingAssumption DEF LInv, TypeOK, Walk
<1>3. Listed(table, walk) \subseteq Codes
  BY ListedType
<1>4. rest \subseteq Codes /\ \A c \in rest : walk.after = Null \/ c > walk.after
  BY <1>3 DEF Behind
<1>5. entries \subseteq rest /\ entries \subseteq Codes /\ sel \subseteq Codes
  BY <1>4 DEF Sanitized
<1>6. /\ walk.after = Null => seen = {}
      /\ walk.after # Null => \A c \in seen : c <= walk.after
      /\ seen \subseteq Codes
  BY ListingAssumption DEF LInv, CursorFits, TypeOK
<1>7. ASSUME NEW c \in sel, NEW d \in seen PROVE d < c
  <2>1. c \in rest /\ c \in Nat /\ d \in Nat
    BY <1>2, <1>4, <1>5, <1>6
  <2>2. walk.after # Null /\ walk.after \in Nat /\ d <= walk.after
    BY <1>2, <1>6
  <2>3. c > walk.after
    BY <1>4, <2>1, <2>2
  <2> QED BY <2>1, <2>2, <2>3
<1>8. repeated' = 0
  <2>1. \A c \in sel, d \in seen : c # d
    BY <1>2, <1>5, <1>6, <1>7
  <2>2. Cardinality(sel \cap seen) = 0
    BY <2>1, FS_EmptySet
  <2> QED BY <1>1, <2>2 DEF LInv, CursorFits
<1>9. \A c \in stable \ seen : c \in rest /\ c \in ValidCodes
  BY DEF LInv, CursorFits, Behind
\* A code that is still to come is behind every code of the page.
<1>10. \A c \in stable \ seen' : c \in fetched => \A d \in sel : d < c
  BY <1>1, <1>9 DEF IsFirst, Sanitized
<1>11. \A c \in stable \ seen' : c \notin fetched => \A d \in sel : d < c
  BY <1>1, <1>9, <1>5 DEF IsFirst, Sanitized
<1>12. CASE next
  <2>1. walk' \in NextLink(sel, entries) /\ status' = "open"
    BY <1>1, <1>12
  <2>2. PICK m \in sel : (\A d \in sel : d <= m) /\ walk' = [walk EXCEPT !.after = m]
    BY <2>1 DEF NextLink
  <2>3. /\ walk'.after = m /\ walk'.mode = "search_after"
        /\ walk'.search = walk.search
    BY <2>2, <1>2 DEF Walk
  <2>4. Listed(table, walk)' = Listed(table, walk)
    BY <1>1, <2>3 DEF Listed
  <2>5. \A c \in seen' : c <= m
    BY <1>1, <1>2, <1>5, <1>6, <1>7, <2>2
  <2>6. \A c \in stable \ seen' : c > m
    BY <1>10, <1>11, <1>2, <1>4, <1>5, <1>9, <2>2, <1>1
  <2>7. m # Null
    BY <1>2, <1>5
  <2> QED BY <1>1, <1>8, <2>1, <2>3, <2>4, <2>5, <2>6, <2>7
          DEF LInv, CursorFits, SearchAfterComplete
<1>13. CASE ~next
  <2>1. walk' = walk /\ status' = "done" /\ (~cut' => fetched = rest)
    BY <1>1, <1>13
  <2>2. sel = entries
    <3>1. Cardinality(entries) \in Nat
      BY <1>5, Finite
    <3>2. Cardinality(entries) <= walk.limit
      BY <3>1, <1>2, <1>13
    <3> HIDE DEF entries
    <3> QED BY <1>1, <1>2, <1>5, <3>2, AllFit
  <2>3. ~cut' => stable \subseteq seen'
    BY <1>1, <1>9, <2>1, <2>2 DEF Sanitized
  <2> QED BY <1>1, <1>8, <2>1, <2>3 DEF LInv, CursorFits, SearchAfterComplete
<1> QED BY <1>12, <1>13

\* A page of any listing.
LEMMA PageStep ==
  ASSUME LInv, status = "open",
         NEW rest \in SUBSET Listed(table, walk), NEW n \in Nat, NEW fetched \in SUBSET rest,
         IsRest(rest, Listed(table, walk)),
         IsFirst(fetched, rest, n) \/ fetched = rest,
         Answer(fetched, rest)
  PROVE  LInv'
<1>1. fetched \in SUBSET Codes
  BY ListedType
<1>2. /\ TypeOK'
      /\ walk'.of = walk.of /\ walk'.mode = walk.mode /\ walk'.search = walk.search
      /\ walk.mode = "page" => walk'.after = walk.after
  BY <1>1, AnswerType DEF LInv
<1>3. WalkFits'
  BY <1>2 DEF LInv, WalkFits
<1>4. CASE walk.mode = "search_after"
  <2>1. rest = Behind(Listed(table, walk))
    BY <1>4 DEF IsRest
  <2>2. CursorFits' /\ SearchAfterComplete'
    BY <1>4, <2>1, AnswerStep
  <2> QED BY <1>2, <1>3, <2>2 DEF LInv
<1>5. CASE walk.mode # "search_after"
  BY <1>2, <1>3, <1>5 DEF LInv, CursorFits, SearchAfterComplete
<1> QED BY <1>4, <1>5

\* What PostgreSQL returns of a listing without a search is the first of the rest.
LEMMA SqlStep ==
  ASSUME LInv, status = "open", walk.search = Null, SqlPage
  PROVE  LInv'
<1>1. PICK rest \in SUBSET Rows :
        /\ IsRest(rest, Rows)
        /\ \E fetched \in SUBSET rest :
             IsFirst(fetched, rest, walk.limit + 1) /\ Answer(fetched, rest)
  BY DEF SqlPage
<1>2. PICK fetched \in SUBSET rest :
        IsFirst(fetched, rest, walk.limit + 1) /\ Answer(fetched, rest)
  BY <1>1
<1>3. Listed(table, walk) = Rows
  <2>1. Listed(table, walk) = {c \in Codes : table[c] # Null}
    BY DEF Listed
  <2> QED BY <2>1 DEF Rows
<1>4. walk.limit + 1 \in Nat
  BY ListingAssumption DEF LInv, TypeOK, Walk
<1> QED BY <1>1, <1>2, <1>3, <1>4, PageStep

\* Every step preserves the invariant.
LEMMA LInvStep == LInv /\ [Next]_vars => LInv'
<1> SUFFICES ASSUME LInv, [Next]_vars PROVE LInv'
  OBVIOUS
<1>1. ASSUME NEW c \in Codes, NEW e \in Entities, StoreRow(c, e) PROVE LInv'
  <2>1. [table EXCEPT ![c] = e] \in [Codes -> Entities \cup {Null}]
    BY DEF LInv, TypeOK
  <2> QED BY <1>1, <2>1, WriteStep DEF StoreRow
<1>2. ASSUME NEW c \in Codes, DeleteRow(c) PROVE LInv'
  <2>1. [table EXCEPT ![c] = Null] \in [Codes -> Entities \cup {Null}]
    BY DEF LInv, TypeOK
  <2> QED BY <1>2, <2>1, WriteStep DEF DeleteRow
<1>3. ASSUME NEW type \in Types, NEW offer \in Offers, NEW of \in Listings,
             NEW search \in WalkSearches \cup {Null}, NEW limit \in Limits,
             Start(type, offer, of, search, limit)
      PROVE  LInv'
  BY <1>3, StartStep
<1>4. CASE GetItems
  BY <1>4, SqlStep DEF GetItems
<1>5. CASE GetSubItems
  BY <1>5, SqlStep DEF GetSubItems, LInv, WalkFits
<1>6. CASE GetFilteredItems
  <2>1. Listed(table, walk) = Collected(table, walk.search) /\ status = "open"
    BY <1>6 DEF GetFilteredItems, Listed
  <2>2. PICK rest \in SUBSET Listed(table, walk) :
          IsRest(rest, Listed(table, walk)) /\ Answer(rest, rest)
    BY <1>6, <2>1 DEF GetFilteredItems
  <2> QED BY <2>1, <2>2, PageStep
<1>7. CASE SearchFails
  <2>1. UNCHANGED <<table, walk, history>> /\ status' = "error" /\ found' = Null
    BY <1>7 DEF SearchFails
  <2> QED BY <2>1 DEF LInv, TypeOK, WalkFits, CursorFits, SearchAfterComplete, history
<1>8. ASSUME NEW search \in Searches, NEW limit \in Limits,
             SearchProductsUuid(search, limit)
      PROVE  LInv'
  <2>1. UNCHANGED <<table, walk, status, history>>
    BY <1>8 DEF SearchProductsUuid
  <2>2. found'.items \subseteq ValidCodes
    BY <1>8 DEF SearchProductsUuid, Collected
  <2>3. Listed(table, walk)' = Listed(table, walk)
    BY <2>1
  <2> QED BY <2>1, <2>2, <2>3
          DEF LInv, TypeOK, WalkFits, CursorFits, SearchAfterComplete, history
<1>9. CASE UNCHANGED vars
  <2>1. Listed(table, walk)' = Listed(table, walk)
    BY <1>9 DEF vars
  <2> QED BY <1>9, <2>1 DEF vars, LInv, TypeOK, WalkFits, CursorFits, SearchAfterComplete
<1> QED BY <1>1, <1>2, <1>3, <1>4, <1>5, <1>6, <1>7, <1>8, <1>9 DEF Next

\* LInv holds in every reachable state.
LEMMA LInvAlways == Spec => []LInv
BY LInvInit, LInvStep, PTL DEF Spec

----------------------------------------------------------------------------

\* Every reachable state of the listings is well typed.
THEOREM ListingTypeCorrect == Spec => []TypeOK
BY LInvAlways, PTL DEF LInv

\* Following the cursors gives no code twice, for any writes meanwhile.
THEOREM NothingTwice == Spec => []NoRepeats
<1>1. LInv => NoRepeats
  BY DEF LInv, CursorFits, NoRepeats
<1> QED BY <1>1, LInvAlways, PTL

\* Following the cursors to where they end without being cut gives every code that
\* was listed all along, for any table, limit, search and writes meanwhile.
THEOREM NothingMissed == Spec => []SearchAfterComplete
BY LInvAlways, PTL DEF LInv

\* A page of a listing without a search ends the links early only if a code that is
\* not valid was among the rows behind the cursor.
LEMMA SqlCut ==
  ASSUME LInv, status = "open", walk.search = Null, SqlPage, cut'
  PROVE  Behind(Rows) \ ValidCodes # {}
<1>1. PICK rest \in SUBSET Rows :
        /\ IsRest(rest, Rows)
        /\ \E fetched \in SUBSET rest :
             IsFirst(fetched, rest, walk.limit + 1) /\ Answer(fetched, rest)
  BY DEF SqlPage
<1>2. PICK fetched \in SUBSET rest :
        IsFirst(fetched, rest, walk.limit + 1) /\ Answer(fetched, rest)
  BY <1>1
<1>3. ~(Cardinality(Sanitized(fetched)) > walk.limit) /\ fetched # rest
  BY <1>2 DEF Answer
<1>4. Cardinality(fetched) = walk.limit + 1
  BY <1>2, <1>3 DEF IsFirst
<1>5. walk.limit \in Nat /\ walk.mode \in {"page", "search_after"}
  BY ListingAssumption DEF LInv, TypeOK, Walk
<1>6. Sanitized(fetched) # fetched
  BY <1>3, <1>4, <1>5
<1>7. fetched \subseteq Behind(Rows)
  BY <1>1, <1>5 DEF IsRest, Behind, LInv, WalkFits
<1> QED BY <1>6, <1>7 DEF Sanitized

\* The links end early only in front of a code that is not valid, never in a search.
THEOREM EarlyEnds == Spec => EndsEarlyOnlyByInvalid
<1>1. LInv /\ [Next]_vars =>
        [cut' /\ ~cut => walk.search = Null /\ Behind(Rows) \ ValidCodes # {}]_vars
  <2> SUFFICES ASSUME LInv, Next, cut', ~cut
               PROVE  walk.search = Null /\ Behind(Rows) \ ValidCodes # {}
    OBVIOUS
  <2>1. ASSUME NEW t, Write(t) PROVE FALSE
    BY <2>1 DEF Write, Forget
  <2>2. CASE GetItems \/ GetSubItems
    <3>1. status = "open" /\ walk.search = Null /\ SqlPage
      BY <2>2 DEF GetItems, GetSubItems, LInv, WalkFits
    <3> QED BY <3>1, SqlCut
  <2>3. CASE GetFilteredItems
    BY <2>3 DEF GetFilteredItems, Answer
  <2>4. ASSUME NEW type, NEW offer, NEW of, NEW search, NEW limit,
               Start(type, offer, of, search, limit)
        PROVE  FALSE
    BY <2>4 DEF Start, Forget
  <2>5. CASE SearchFails
    BY <2>5 DEF SearchFails, history
  <2>6. ASSUME NEW search, NEW limit, SearchProductsUuid(search, limit) PROVE FALSE
    BY <2>6 DEF SearchProductsUuid, history
  <2> QED BY <2>1, <2>2, <2>3, <2>4, <2>5, <2>6 DEF Next, StoreRow, DeleteRow
<1> QED BY <1>1, LInvAlways, PTL DEF Spec, EndsEarlyOnlyByInvalid

----------------------------------------------------------------------------
(* The first so many of a set, when the set changes by one. *)

\* A set of codes has a greatest
LEMMA GreatestExists ==
  ASSUME NEW S \in SUBSET Codes, S # {}
  PROVE  \E m \in S : \A c \in S : c <= m
<1> DEFINE Above(c) == {d \in S : d > c}
           T == {Above(c) : c \in S}
<1>0. S \subseteq Nat
  BY ListingAssumption
<1>1. T \subseteq FiniteSubsetsOf(S) /\ T # {}
  <2>1. \A c \in S : IsFiniteSet(Above(c)) /\ Above(c) \in SUBSET S
    BY Finite
  <2> QED
    BY <2>1 DEF FiniteSubsetsOf
<1>2. PICK x \in T : \A y \in T : <<y, x>> \notin StrictSubsetOrdering(S)
  BY <1>1, FS_StrictSubsetOrderingWellFounded, WFMin
<1>3. PICK m \in S : x = Above(m)
  OBVIOUS
<1>4. ASSUME NEW d \in S, d > m PROVE FALSE
  <2>1. Above(d) \in T /\ Above(d) \subseteq x
    <3>1. \A e \in S : e > d => e > m
      BY <1>0, <1>4
    <3> QED
      BY <1>3, <1>4, <3>1
  <2>3. d \in x /\ d \notin Above(d)
    BY <1>0, <1>3, <1>4
  <2>2. <<Above(d), x>> \in StrictSubsetOrdering(S)
    BY <1>3, <2>1, <2>3 DEF StrictSubsetOrdering
  <2> QED
    BY <1>2, <2>1, <2>2
<1> QED
  BY <1>0, <1>4

\* and a least.
LEMMA LeastExists ==
  ASSUME NEW S \in SUBSET Codes, S # {}
  PROVE  \E m \in S : \A c \in S : m <= c
<1> DEFINE Below(c) == {d \in S : d < c}
           T == {Below(c) : c \in S}
<1>0. S \subseteq Nat
  BY ListingAssumption
<1>1. T \subseteq FiniteSubsetsOf(S) /\ T # {}
  <2>1. \A c \in S : IsFiniteSet(Below(c)) /\ Below(c) \in SUBSET S
    BY Finite
  <2> QED
    BY <2>1 DEF FiniteSubsetsOf
<1>2. PICK x \in T : \A y \in T : <<y, x>> \notin StrictSubsetOrdering(S)
  BY <1>1, FS_StrictSubsetOrderingWellFounded, WFMin
<1>3. PICK m \in S : x = Below(m)
  OBVIOUS
<1>4. ASSUME NEW d \in S, d < m PROVE FALSE
  <2>1. Below(d) \in T /\ Below(d) \subseteq x
    <3>1. \A e \in S : e < d => e < m
      BY <1>0, <1>4
    <3> QED
      BY <1>3, <1>4, <3>1
  <2>3. d \in x /\ d \notin Below(d)
    BY <1>0, <1>3, <1>4
  <2>2. <<Below(d), x>> \in StrictSubsetOrdering(S)
    BY <1>3, <2>1, <2>3 DEF StrictSubsetOrdering
  <2> QED
    BY <1>2, <2>1, <2>2
<1> QED
  BY <1>0, <1>4

\* There is one set of the first n.
LEMMA FirstIsOne ==
  ASSUME NEW S \in SUBSET Codes, NEW n \in Nat, NEW V, NEW W, IsFirst(V, S, n), IsFirst(W, S, n)
  PROVE  V = W
<1>1. /\ V \in SUBSET S /\ W \in SUBSET S /\ V \in SUBSET Codes /\ W \in SUBSET Codes
      /\ S \subseteq Nat
  BY ListingAssumption DEF IsFirst
<1>2. /\ IsFiniteSet(V) /\ Cardinality(V) \in Nat /\ IsFiniteSet(W) /\ Cardinality(W) \in Nat
      /\ IsFiniteSet(S) /\ Cardinality(S) \in Nat
      /\ Cardinality(V) <= Cardinality(S) /\ Cardinality(W) <= Cardinality(S)
  BY <1>1, Finite, FS_Subset
<1>3. V \subseteq W \/ W \subseteq V
  <2> SUFFICES ASSUME NEW c \in V \ W, NEW d \in W \ V PROVE FALSE
    OBVIOUS
  <2>1. c < d /\ d < c /\ c \in Nat /\ d \in Nat
    BY <1>1 DEF IsFirst
  <2> QED
    BY <2>1
<1>4. Cardinality(V) = Cardinality(W)
  BY <1>2 DEF IsFirst
<1> QED
  BY <1>2, <1>3, <1>4, FS_Subset

\* The first n of S with c, and of S without c, are F up to one code.
PushesOneOut(F, S, n, c) ==
  \E G \in SUBSET (S \cup {c}) :
    /\ IsFirst(G, S \cup {c}, n) /\ G \subseteq F \cup {c}
    /\ \E m : (S \cup {c}) \ G \subseteq (S \ F) \cup {m}

PullsOneIn(F, S, n, c) ==
  \E G \in SUBSET (S \ {c}) :
    /\ IsFirst(G, S \ {c}, n) /\ (S \ {c}) \ G \subseteq S \ F
    /\ \E m : G \subseteq F \cup {m}

\* A code comes in: it pushes at most one out of the first n.
LEMMA FirstAfterInsert ==
  ASSUME NEW S \in SUBSET Codes, NEW n \in Nat, NEW F, IsFirst(F, S, n), NEW c \in Codes \ S
  PROVE  PushesOneOut(F, S, n, c)
<1> DEFINE U == S \cup {c}
<1> USE DEF PushesOneOut
<1>1. F \in SUBSET S /\ F \in SUBSET Codes /\ U \in SUBSET Codes /\ U \subseteq Nat /\ c \notin F
  BY ListingAssumption DEF IsFirst
<1>2. /\ IsFiniteSet(F) /\ Cardinality(F) \in Nat /\ IsFiniteSet(F \cup {c})
      /\ Cardinality(F \cup {c}) = Cardinality(F) + 1
  BY <1>1, Finite, FS_AddElement
<1>3. CASE Cardinality(F) # n
  <2>1. F = S /\ Cardinality(F) < n
    BY <1>3 DEF IsFirst
  <2>2. IsFirst(U, U, n)
    BY <1>2, <2>1 DEF IsFirst
  <2> QED
    BY <2>1, <2>2
<1>4. CASE Cardinality(F) = n /\ \A d \in F : d < c
  <2>1. IsFirst(F, U, n)
    BY <1>1, <1>4 DEF IsFirst
  <2> QED
    BY <1>1, <2>1
<1>5. CASE Cardinality(F) = n /\ \E d \in F : ~(d < c)
  <2>1. PICK m \in F : \A d \in F : d <= m
    BY <1>1, <1>5, GreatestExists
  <2>2. c < m
    BY <1>1, <1>5, <2>1
  <2> DEFINE G == (F \cup {c}) \ {m}
  <2>3. Cardinality(G) = n
    BY <1>2, <1>5, <2>1, FS_RemoveElement
  <2>4. G \subseteq U /\ U \ G = (S \ F) \cup {m}
    BY <1>1, <2>1, <2>2
  <2>5. \A x \in G, y \in U \ G : x < y
    <3> SUFFICES ASSUME NEW x \in G, NEW y \in U \ G PROVE x < y
      OBVIOUS
    <3>1. CASE y = m
      BY <1>1, <2>1, <2>2, <3>1
    <3>2. CASE y \in S \ F
      <4>1. m < y /\ (x \in F => x < y)
        BY <2>1, <3>2 DEF IsFirst
      <4> QED
        BY <1>1, <2>1, <2>2, <4>1
    <3> QED
      BY <2>4, <3>1, <3>2
  <2>6. IsFirst(G, U, n)
    BY <2>3, <2>4, <2>5 DEF IsFirst
  <2> QED
    BY <2>4, <2>6
<1> QED
  BY <1>3, <1>4, <1>5

\* A code goes: at most one comes in among the first n.
LEMMA FirstAfterRemove ==
  ASSUME NEW S \in SUBSET Codes, NEW n \in Nat, NEW F, IsFirst(F, S, n), NEW c \in S
  PROVE  PullsOneIn(F, S, n, c)
<1> DEFINE U == S \ {c}
<1> USE DEF PullsOneIn
<1>1. F \in SUBSET S /\ F \in SUBSET Codes /\ U \in SUBSET Codes /\ S \subseteq Nat
  BY ListingAssumption DEF IsFirst
<1>2. /\ IsFiniteSet(F) /\ Cardinality(F) \in Nat /\ IsFiniteSet(F \ {c})
      /\ c \in F => Cardinality(F \ {c}) = Cardinality(F) - 1
  BY <1>1, Finite, FS_RemoveElement
<1>3. CASE c \notin F
  <2>1. IsFirst(F, U, n)
    BY <1>1, <1>3 DEF IsFirst
  <2> QED
    BY <1>1, <1>3, <2>1
<1>4. CASE c \in F /\ F = S
  <2>1. IsFirst(U, U, n)
    BY <1>2, <1>4 DEF IsFirst
  <2> QED
    BY <1>4, <2>1
<1>5. CASE c \in F /\ F # S
  <2>1. Cardinality(F) = n /\ S \ F # {} /\ S \ F \in SUBSET Codes
    BY <1>1, <1>5 DEF IsFirst
  <2>2. PICK m \in S \ F : \A d \in S \ F : m <= d
    BY <2>1, LeastExists
  <2> DEFINE G == (F \ {c}) \cup {m}
  <2>3. Cardinality(G) = n
    <3>1. m \notin F \ {c} /\ Cardinality(F \ {c}) = n - 1
      BY <1>2, <1>5, <2>1, <2>2
    <3>2. Cardinality(G) = Cardinality(F \ {c}) + 1
      BY <1>2, <3>1, FS_AddElement
    <3> QED
      BY <3>1, <3>2
  <2>4. G \subseteq U /\ U \ G \subseteq S \ F /\ m \notin U \ G
    BY <1>1, <1>5, <2>2
  <2>5. \A x \in G, y \in U \ G : x < y
    BY <1>1, <2>2, <2>4 DEF IsFirst
  <2>6. IsFirst(G, U, n)
    BY <2>3, <2>4, <2>5 DEF IsFirst
  <2> QED
    BY <2>4, <2>6
<1> QED
  BY <1>3, <1>4, <1>5


LEMMA NoMore ==
  ASSUME NEW B \in SUBSET Codes, NEW A \in SUBSET B
  PROVE  Cardinality(A) \in Nat /\ Cardinality(B) \in Nat /\ Cardinality(A) <= Cardinality(B)
BY Finite, FS_Subset

LEMMA OneMoreAtMost ==
  ASSUME NEW A \in SUBSET Codes, NEW B \in SUBSET Codes, NEW m, A \subseteq B \cup {m}
  PROVE  /\ Cardinality(A) \in Nat /\ Cardinality(B) \in Nat
         /\ Cardinality(A) <= Cardinality(B) + 1
<1>1. IsFiniteSet(B) /\ IsFiniteSet(B \cup {m}) /\ Cardinality(B) \in Nat
  BY Finite, FS_AddElement
<1>2. Cardinality(B \cup {m}) = Cardinality(B) \/ Cardinality(B \cup {m}) = Cardinality(B) + 1
  BY <1>1, FS_AddElement
<1>3. Cardinality(A) \in Nat /\ Cardinality(A) <= Cardinality(B \cup {m})
  BY <1>1, Finite, FS_Subset
<1> QED
  BY <1>1, <1>2, <1>3

\* The sizes of two sets with nothing in common add up.
LEMMA SizesAdd ==
  ASSUME NEW A \in SUBSET Codes, NEW B \in SUBSET Codes, A \cap B = {}
  PROVE  /\ Cardinality(A) \in Nat /\ Cardinality(B) \in Nat
         /\ Cardinality(A \cup B) = Cardinality(A) + Cardinality(B)
<1>1. IsFiniteSet(A) /\ IsFiniteSet(B) /\ Cardinality(A) \in Nat /\ Cardinality(B) \in Nat
  BY Finite
<1>2. Cardinality(A \cup B) = Cardinality(A) + Cardinality(B) - Cardinality(A \cap B)
  BY <1>1, FS_Union
<1>3. Cardinality(A \cap B) = 0
  BY FS_EmptySet
<1> QED
  BY <1>1, <1>2, <1>3

LEMMA PageOffset ==
  ASSUME NEW page \in Nat, page >= 1, NEW limit \in Nat
  PROVE  /\ (page - 1) * limit \in Nat
         /\ (page + 1 - 1) * limit = (page - 1) * limit + limit
<1>1. PICK p \in Nat : page = p + 1
  BY page - 1 \in Nat
<1>2. p * limit \in Nat /\ (p + 1) * limit = p * limit + limit
  OBVIOUS
<1> QED
  BY <1>1, <1>2

----------------------------------------------------------------------------
(* Pages with numbers. *)

\* The pages so far are `past`, the first rows of the list as it is now, give or
\* take: what was given and now lies behind them has been pushed there by a row that
\* came, and a row among them that was not given was pulled there by one that left.
Drifted(past, all, off, given, listed, again, came, left) ==
  /\ past \subseteq all
  /\ IsFirst(past, all, off)
  /\ again + Cardinality((given \cap all) \ past) <= came
  /\ Cardinality((listed \cap past) \ given) <= left

PageFits ==
  status = "open" /\ walk.mode = "page" =>
    /\ walk.page >= 1
    /\ stable \subseteq Listed(table, walk) /\ stable \subseteq ValidCodes
    /\ \E past : Drifted(past, Listed(table, walk), (walk.page - 1) * walk.limit,
                         seen, stable, repeated, inserted, deleted)

DInv == PageFits /\ PageDrift

\* A row that comes or goes while the walk is between two pages drifts by one.
LEMMA DriftWrite ==
  ASSUME NEW all \in SUBSET Codes, NEW is \in SUBSET Codes, NEW off \in Nat,
         NEW given \in SUBSET Codes, NEW listed \in SUBSET all,
         NEW again \in Nat, NEW came \in Nat, NEW left \in Nat, NEW c \in Codes,
         is = all \/ is = all \cup {c} \/ is = all \ {c},
         NEW past, Drifted(past, all, off, given, listed, again, came, left)
  PROVE  \E new : Drifted(new, is, off, given, listed \cap is, again,
                          came + Cardinality(is \ all), left + Cardinality(all \ is))
<1> DEFINE Again == (given \cap all) \ past
           Missed == (listed \cap past) \ given
<1>1. /\ past \in SUBSET all /\ IsFirst(past, all, off)
      /\ again + Cardinality(Again) <= came /\ Cardinality(Missed) <= left
      /\ Again \in SUBSET Codes /\ Missed \in SUBSET Codes
      /\ Cardinality({}) = 0
  BY FS_EmptySet DEF Drifted
<1>2. CASE is = all
  <2>1. is \ all = {} /\ all \ is = {} /\ listed \cap is = listed
    BY <1>2
  <2>2. came + 0 = came /\ left + 0 = left
    OBVIOUS
  <2> QED
    BY <1>1, <1>2, <2>1, <2>2
<1>3. CASE c \notin all /\ is = all \cup {c}
  <2>1. is \ all = {c} /\ all \ is = {} /\ listed \cap is = listed
    BY <1>3
  <2>2. Cardinality(is \ all) = 1 /\ Cardinality(all \ is) = 0
    BY <1>1, <2>1, FS_Singleton
  <2>3. PICK new \in SUBSET is : /\ IsFirst(new, is, off) /\ new \subseteq past \cup {c}
                                 /\ \E m : is \ new \subseteq (all \ past) \cup {m}
    <3>1. c \in Codes \ all
      BY <1>3
    <3>2. PushesOneOut(past, all, off, c)
      BY <1>1, <3>1, FirstAfterInsert
    <3> QED
      BY <1>3, <3>2 DEF PushesOneOut
  <2>4. PICK m : is \ new \subseteq (all \ past) \cup {m}
    BY <2>3
  <2> DEFINE A == (given \cap is) \ new
             M == (listed \cap new) \ given
  <2>5. A \subseteq Again \cup {m} /\ A \in SUBSET Codes
    BY <2>4
  <2>6. Cardinality(A) \in Nat /\ Cardinality(Again) \in Nat /\ Cardinality(A) <= Cardinality(Again) + 1
    BY <1>1, <2>5, OneMoreAtMost
  <2>7. M \in SUBSET Missed
    BY <1>3, <2>3
  <2>8. /\ Cardinality(M) \in Nat /\ Cardinality(Missed) \in Nat
        /\ Cardinality(M) <= Cardinality(Missed)
    BY <1>1, <2>7, NoMore
  <2>9. again + Cardinality(A) <= came + 1 /\ Cardinality(M) <= left + 0
    <3> HIDE DEF A, M, Again, Missed
    <3> QED
      BY <1>1, <2>6, <2>8
  <2> QED
    BY <2>1, <2>2, <2>3, <2>9 DEF Drifted
<1>4. CASE c \in all /\ is = all \ {c}
  <2>1. is \ all = {} /\ all \ is = {c}
    BY <1>4
  <2>2. Cardinality(is \ all) = 0 /\ Cardinality(all \ is) = 1
    BY <1>1, <2>1, FS_Singleton
  <2>3. PICK new \in SUBSET is : /\ IsFirst(new, is, off) /\ is \ new \subseteq all \ past
                                 /\ \E m : new \subseteq past \cup {m}
    <3>1. PullsOneIn(past, all, off, c)
      BY <1>1, <1>4, FirstAfterRemove
    <3> QED
      BY <1>4, <3>1 DEF PullsOneIn
  <2>4. PICK m : new \subseteq past \cup {m}
    BY <2>3
  <2> DEFINE A == (given \cap is) \ new
             M == ((listed \cap is) \cap new) \ given
  <2>5. A \in SUBSET Again
    BY <2>3, <1>4
  <2>6. Cardinality(A) \in Nat /\ Cardinality(Again) \in Nat /\ Cardinality(A) <= Cardinality(Again)
    BY <1>1, <2>5, NoMore
  <2>7. M \subseteq Missed \cup {m} /\ M \in SUBSET Codes
    BY <2>4
  <2>8. /\ Cardinality(M) \in Nat /\ Cardinality(Missed) \in Nat
        /\ Cardinality(M) <= Cardinality(Missed) + 1
    BY <1>1, <2>7, OneMoreAtMost
  <2>9. again + Cardinality(A) <= came + 0 /\ Cardinality(M) <= left + 1
    <3> HIDE DEF A, M, Again, Missed
    <3> QED
      BY <1>1, <2>6, <2>8
  <2> QED
    BY <2>2, <2>3, <2>9 DEF Drifted
<1>5. all \cup {c} = all \/ c \notin all
  OBVIOUS
<1>6. all \ {c} = all \/ c \in all
  OBVIOUS
<1> QED
  BY <1>2, <1>3, <1>4, <1>5, <1>6

\* The first pages and the next one are the first rows again.
LEMMA FirstPages ==
  ASSUME NEW S \in SUBSET Codes, NEW off \in Nat, NEW limit \in Nat,
         NEW rest \in SUBSET S, IsFirst(S \ rest, S, off),
         NEW sel \in SUBSET rest, IsFirst(sel, rest, limit), Cardinality(sel) = limit
  PROVE  IsFirst((S \ rest) \cup sel, S, off + limit)
<1> DEFINE past == S \ rest
<1>1. \A c \in past \cup sel, d \in S \ (past \cup sel) : c < d
  BY DEF IsFirst
<1>2. /\ past \in SUBSET Codes /\ sel \in SUBSET Codes /\ past \cap sel = {}
      /\ Cardinality(past) \in Nat
      /\ Cardinality(past \cup sel) = Cardinality(past) + limit
  BY SizesAdd
<1>3. Cardinality(past) = off \/ (Cardinality(past) < off /\ past = S)
  BY DEF IsFirst
<1> HIDE DEF past
<1>4. Cardinality(past \cup sel) = off + limit
      \/ (Cardinality(past \cup sel) < off + limit /\ past \cup sel = S)
  BY <1>2, <1>3
<1> QED
  BY <1>1, <1>4 DEF IsFirst, past

\* A page that has a next one shows the first rows of the rest and nothing else.
LEMMA FullPage ==
  ASSUME NEW rest \in SUBSET Codes, NEW fetched \in SUBSET rest, NEW limit \in Nat,
         IsFirst(fetched, rest, limit + 1) \/ (fetched = rest /\ rest \subseteq ValidCodes),
         Cardinality(Sanitized(fetched)) > limit,
         NEW sel, IsFirst(sel, Sanitized(fetched), limit)
  PROVE  IsFirst(sel, rest, limit) /\ Cardinality(sel) = limit
<1> DEFINE entries == Sanitized(fetched)
<1>1. /\ entries \in SUBSET fetched /\ fetched \in SUBSET Codes
      /\ IsFiniteSet(fetched) /\ Cardinality(fetched) \in Nat /\ Cardinality(entries) \in Nat
  BY Finite DEF Sanitized
<1>2. /\ Cardinality(entries) <= Cardinality(fetched)
      /\ Cardinality(entries) = Cardinality(fetched) => entries = fetched
  BY <1>1, FS_Subset
<1>3. CASE IsFirst(fetched, rest, limit + 1)
  <2>1. Cardinality(fetched) <= limit + 1
    BY <1>1, <1>3 DEF IsFirst
  <2> QED
    <3>1. entries = fetched
      <4> HIDE DEF entries
      <4> QED
        BY <1>1, <1>2, <2>1 DEF entries
    <3>2. Cardinality(sel) = limit /\ sel \subseteq fetched
      BY <1>1, <3>1 DEF IsFirst
    <3>3. \A c \in sel, d \in rest \ sel : c < d
      BY <1>3, <3>1, <3>2 DEF IsFirst
    <3> QED
      BY <3>2, <3>3 DEF IsFirst
<1>4. CASE fetched = rest /\ rest \subseteq ValidCodes
  <2>1. entries = rest
    BY <1>4 DEF Sanitized
  <2> QED
    BY <1>1, <2>1 DEF IsFirst
<1> QED
  BY <1>3, <1>4

\* A page gives again only what had been pushed behind the pages before, and the
\* last one leaves only those out that had been pulled into them.
LEMMA DriftAnswer ==
  ASSUME LInv, DInv, status = "open", walk.mode = "page",
         NEW rest \in SUBSET Listed(table, walk), NEW fetched \in SUBSET rest,
         IsRest(rest, Listed(table, walk)),
         \/ IsFirst(fetched, rest, walk.limit + 1)
         \/ fetched = rest /\ rest \subseteq ValidCodes,
         Answer(fetched, rest)
  PROVE  DInv'
<1> DEFINE all == Listed(table, walk)
           off == (walk.page - 1) * walk.limit
           entries == Sanitized(fetched)
           next == Cardinality(entries) > walk.limit
<1>1. PICK sel \in SUBSET entries :
        /\ IsFirst(sel, entries, walk.limit)
        /\ seen' = seen \cup sel
        /\ repeated' = repeated + Cardinality(sel \cap seen)
        /\ status' = IF next THEN "open" ELSE "done"
        /\ walk' \in IF next THEN NextLink(sel, entries) ELSE {walk}
        /\ cut' = (~next /\ fetched # rest)
        /\ UNCHANGED <<table, stable, inserted, deleted>>
  BY DEF Answer
<1>2. /\ walk \in Walk /\ walk.limit \in Nat /\ walk.page \in Nat /\ walk.page >= 1
      /\ repeated \in Nat /\ inserted \in Nat /\ deleted \in Nat
      /\ stable \subseteq all /\ stable \subseteq ValidCodes
      /\ all \in SUBSET Codes /\ seen \in SUBSET Codes
  BY ListedType, ListingAssumption DEF LInv, DInv, TypeOK, PageFits, Walk
<1>3. off \in Nat
  BY <1>2, PageOffset
<1>4. PICK past : Drifted(past, all, off, seen, stable, repeated, inserted, deleted)
  BY DEF DInv, PageFits
<1>5. past = all \ rest
  <2>1. IsFirst(all \ rest, all, off) /\ IsFirst(past, all, off)
    BY <1>4 DEF IsRest, Drifted
  <2> HIDE DEF all, off
  <2> QED
    BY <1>2, <1>3, <2>1, FirstIsOne
<1>6. /\ repeated + Cardinality((seen \cap all) \ past) <= inserted
      /\ Cardinality((stable \cap past) \ seen) <= deleted
  BY <1>4 DEF Drifted
<1>7. sel \in SUBSET rest /\ sel \in SUBSET Codes /\ rest \in SUBSET Codes
  BY <1>2 DEF Sanitized
<1> DEFINE Again == (seen \cap all) \ past
           Missed == (stable \cap past) \ seen
           now == past \cup sel
           AgainNow == (seen' \cap all) \ now
           MissedNow == (stable \cap now) \ seen'
<1>8. /\ Cardinality(sel \cap seen) \in Nat /\ Cardinality(AgainNow) \in Nat
      /\ Cardinality(Again) = Cardinality(sel \cap seen) + Cardinality(AgainNow)
  <2>1. Again = (sel \cap seen) \cup AgainNow /\ (sel \cap seen) \cap AgainNow = {}
    BY <1>1, <1>5, <1>7
  <2>2. PICK x, y : x = sel \cap seen /\ y = AgainNow
    OBVIOUS
  <2>3. x \in SUBSET Codes /\ y \in SUBSET Codes /\ x \cap y = {} /\ Again = x \cup y
    BY <1>2, <1>7, <2>1, <2>2
  <2> HIDE DEF Again, AgainNow
  <2>4. Cardinality(x) \in Nat /\ Cardinality(y) \in Nat
        /\ Cardinality(x \cup y) = Cardinality(x) + Cardinality(y)
    BY <2>3, SizesAdd
  <2> QED
    BY <2>2, <2>3, <2>4
<1>9. Cardinality(Missed) \in Nat
  BY <1>2, Finite
<1>10. repeated' + Cardinality(AgainNow) <= inserted' /\ repeated' <= inserted'
  <2> HIDE DEF Again, AgainNow
  <2> QED
    BY <1>1, <1>2, <1>6, <1>8 DEF Again
<1>11. CASE next
  <2>1. walk' = [walk EXCEPT !.page = @ + 1] /\ status' = "open"
    BY <1>1, <1>11 DEF NextLink
  <2>2. /\ walk'.page = walk.page + 1 /\ walk'.limit = walk.limit
        /\ walk'.search = walk.search /\ walk'.mode = "page"
    BY <1>2, <2>1 DEF Walk
  <2>3. Listed(table, walk)' = all
    BY <1>1, <2>2 DEF Listed
  <2>4. ((walk.page - 1) * walk.limit)' = off + walk.limit
    BY <1>2, <2>2, PageOffset
  <2>5. IsFirst(sel, rest, walk.limit) /\ Cardinality(sel) = walk.limit
    BY <1>1, <1>2, <1>7, <1>11, FullPage
  <2>6. IsFirst(now, all, off + walk.limit)
    <3>1. IsFirst(all \ rest, all, off) /\ rest \in SUBSET all
      BY <1>4, <1>5 DEF Drifted
    <3> HIDE DEF all, off
    <3>2. IsFirst((all \ rest) \cup sel, all, off + walk.limit)
      BY <1>2, <1>3, <1>7, <2>5, <3>1, FirstPages
    <3> QED
      BY <1>5, <3>2
  <2>7. Cardinality(MissedNow) <= deleted'
    <3>1. MissedNow \in SUBSET Missed /\ Missed \in SUBSET Codes
      BY <1>1, <1>2
    <3>2. PICK x : x = MissedNow
      OBVIOUS
    <3> HIDE DEF Missed, MissedNow
    <3>3. Cardinality(x) \in Nat /\ Cardinality(x) <= Cardinality(Missed)
      BY <3>1, <3>2, NoMore
    <3> QED
      BY <1>1, <1>2, <1>6, <1>9, <3>2, <3>3 DEF Missed
  <2>8. Drifted(now, all, off + walk.limit, seen', stable', repeated', inserted', deleted')
    BY <1>1, <1>10, <1>7, <1>5, <2>6, <2>7 DEF Drifted
  <2>9. PageFits'
    <3> HIDE DEF all, off, now
    <3> QED
      BY <1>1, <1>2, <2>2, <2>3, <2>4, <2>8 DEF PageFits
  <2> QED
    BY <1>10, <2>1, <2>9 DEF DInv, PageDrift
<1>12. CASE ~next
  <2>1. walk' = walk /\ status' = "done" /\ (~cut' => fetched = rest)
    BY <1>1, <1>12
  <2>2. sel = entries
    <3>1. entries \in SUBSET Codes /\ Cardinality(entries) \in Nat
      BY <1>7, Finite DEF Sanitized
    <3>2. Cardinality(entries) <= walk.limit
      BY <3>1, <1>2, <1>12
    <3> HIDE DEF entries
    <3> QED
      BY <1>1, <1>2, <3>1, <3>2, AllFit
  <2>3. ASSUME ~cut' PROVE Cardinality(stable' \ seen') <= deleted'
    <3>1. (stable \ seen') \in SUBSET Missed /\ Missed \in SUBSET Codes
      BY <1>1, <1>2, <1>5, <2>1, <2>2, <2>3 DEF Sanitized
    <3>2. PICK x : x = stable \ seen'
      OBVIOUS
    <3> HIDE DEF Missed
    <3>3. Cardinality(x) \in Nat /\ Cardinality(x) <= Cardinality(Missed)
      BY <3>1, <3>2, NoMore
    <3> QED
      BY <1>1, <1>2, <1>6, <1>9, <3>2, <3>3 DEF Missed
  <2> QED
    BY <1>10, <2>1, <2>3 DEF DInv, PageFits, PageDrift
<1> QED
  BY <1>11, <1>12

\* One row changes: at most its code comes into the list or leaves it.
LEMMA ListedChange ==
  ASSUME TypeOK, NEW c \in Codes, NEW v, NEW w
  PROVE  LET was == Listed(table, w)
             is == Listed([table EXCEPT ![c] = v], w) IN
         is = was \/ is = was \cup {c} \/ is = was \ {c}
<1> DEFINE t == [table EXCEPT ![c] = v]
           was == Listed(table, w)
           is == Listed(t, w)
<1>1. \A d \in Codes : d # c => t[d] = table[d]
  BY DEF TypeOK
<1>2. was \subseteq Codes /\ is \subseteq Codes
  BY ListedType
<1>3. \A d \in Codes : d # c => (d \in was <=> d \in is)
  <2> HIDE DEF t
  <2> QED
    BY <1>1 DEF Listed, Collected
<1> HIDE DEF was, is
<1>4. is = was \/ is = was \cup {c} \/ is = was \ {c}
  BY <1>2, <1>3
<1> QED
  BY <1>4 DEF was, is, t

LEMMA DriftWriteStep ==
  ASSUME LInv, DInv, NEW c \in Codes, NEW v, Write([table EXCEPT ![c] = v])
  PROVE  DInv'
<1>1. CASE status = "open" /\ walk.mode = "page"
  <2> DEFINE t == [table EXCEPT ![c] = v]
             all == Listed(table, walk)
             is == Listed(t, walk)
             off == (walk.page - 1) * walk.limit
  <2>1. /\ stable' = stable \cap is
        /\ inserted' = inserted + Cardinality(is \ all)
        /\ deleted' = deleted + Cardinality(all \ is)
        /\ UNCHANGED <<walk, status, seen, repeated, cut>>
        /\ table' = t
    BY <1>1 DEF Write
  <2>2. /\ walk \in Walk /\ walk.limit \in Nat /\ walk.page \in Nat /\ walk.page >= 1
        /\ repeated \in Nat /\ inserted \in Nat /\ deleted \in Nat
        /\ stable \in SUBSET all /\ stable \subseteq ValidCodes
        /\ all \in SUBSET Codes /\ is \in SUBSET Codes /\ seen \in SUBSET Codes
    BY <1>1, ListedType, ListingAssumption DEF LInv, DInv, TypeOK, PageFits, Walk
  <2>3. off \in Nat
    BY <2>2, PageOffset
  <2>4. PICK past : Drifted(past, all, off, seen, stable, repeated, inserted, deleted)
    BY <1>1 DEF DInv, PageFits
  <2>5. is = all \/ is = all \cup {c} \/ is = all \ {c}
    BY ListedChange DEF LInv
  <2>6. Listed(table, walk)' = is /\ off' = off
    BY <2>1 DEF Listed
  <2> HIDE DEF all, is, off
  <2>7. \E new : Drifted(new, is, off, seen, stable \cap is, repeated,
                         inserted + Cardinality(is \ all), deleted + Cardinality(all \ is))
    BY <2>2, <2>3, <2>4, <2>5, DriftWrite
  <2>8. \E new : Drifted(new, is, off', seen', stable', repeated', inserted', deleted')
    BY <2>1, <2>6, <2>7
  <2>9. stable' \subseteq is /\ stable' \subseteq ValidCodes /\ walk'.page >= 1
    BY <2>1, <2>2
  <2>10. PageFits'
    BY <2>6, <2>8, <2>9 DEF PageFits, off
  <2>11. repeated' <= inserted'
    <3>1. PICK new : Drifted(new, is, off, seen, stable \cap is, repeated,
                             inserted + Cardinality(is \ all), deleted + Cardinality(all \ is))
      BY <2>7
    <3>2. Cardinality((seen \cap is) \ new) \in Nat /\ Cardinality(is \ all) \in Nat
      BY <2>2, Finite
    <3> QED
      BY <2>1, <2>2, <3>1, <3>2 DEF Drifted
  <2> QED
    BY <1>1, <2>1, <2>10, <2>11 DEF DInv, PageDrift
<1>2. CASE status = "open" /\ walk.mode # "page"
  BY <1>2 DEF Write, DInv, PageFits, PageDrift
<1>3. CASE status # "open"
  BY <1>3 DEF Write, Forget, DInv, PageFits, PageDrift
<1> QED
  BY <1>1, <1>2, <1>3

\* A walk begins before the first page.
LEMMA DriftStart ==
  ASSUME LInv, NEW type, NEW offer, NEW of \in Listings,
         NEW search \in WalkSearches \cup {Null}, NEW limit \in Limits,
         Start(type, offer, of, search, limit)
  PROVE  DInv'
<1> DEFINE mode == ResolvePaginationType(type, offer)
           first == [of |-> of, mode |-> mode, search |-> search, limit |-> limit,
                     page |-> 1, after |-> Null]
<1>1. /\ seen' = {} /\ repeated' = 0 /\ inserted' = 0 /\ deleted' = 0 /\ cut' = FALSE
      /\ table' = table
  BY DEF Start, Forget
<1>2. CASE mode = Null \/ ~ValidLimit(limit)
  BY <1>2 DEF Start, DInv, PageFits, PageDrift
<1>3. CASE mode # Null /\ ValidLimit(limit)
  <2>1. walk' = first /\ status' = "open" /\ stable' = Sanitized(Listed(table, first))
    BY <1>3 DEF Start
  <2> DEFINE all == Listed(table, first)
  <2>2. Listed(table, walk)' = all /\ walk'.page = 1 /\ walk'.limit = limit
    BY <1>1, <2>1
  <2>3. limit \in Nat
    BY <1>3, ListingAssumption DEF ValidLimit
  <2>4. (1 - 1) * limit = 0
    BY <2>3
  <2>5. all \in SUBSET Codes /\ stable' \subseteq all /\ stable' \subseteq ValidCodes
    BY <2>1, ListedType DEF Sanitized
  <2> HIDE DEF first, all
  <2>6. Drifted({}, all, 0, {}, stable', 0, 0, 0)
    BY FS_EmptySet DEF Drifted, IsFirst
  <2>7. Drifted({}, all, ((walk.page - 1) * walk.limit)', seen', stable', repeated',
                inserted', deleted')
    BY <1>1, <2>2, <2>4, <2>6
  <2>8. PageFits'
    BY <2>2, <2>5, <2>7 DEF PageFits
  <2> QED
    BY <1>1, <2>1, <2>8 DEF DInv, PageDrift
<1> QED
  BY <1>2, <1>3

\* Every step preserves how far pages drift.
LEMMA DInvStep == LInv /\ DInv /\ [Next]_vars => DInv'
<1> SUFFICES ASSUME LInv, DInv, [Next]_vars PROVE DInv'
  OBVIOUS
<1>1. ASSUME NEW c \in Codes, NEW e \in Entities, StoreRow(c, e) PROVE DInv'
  BY <1>1, DriftWriteStep DEF StoreRow
<1>2. ASSUME NEW c \in Codes, DeleteRow(c) PROVE DInv'
  BY <1>2, DriftWriteStep DEF DeleteRow
<1>3. ASSUME NEW type \in Types, NEW offer \in Offers, NEW of \in Listings,
             NEW search \in WalkSearches \cup {Null}, NEW limit \in Limits,
             Start(type, offer, of, search, limit)
      PROVE  DInv'
  BY <1>3, DriftStart
<1>4. ASSUME status = "open",
             NEW rest \in SUBSET Listed(table, walk), NEW fetched \in SUBSET rest,
             IsRest(rest, Listed(table, walk)),
             \/ IsFirst(fetched, rest, walk.limit + 1)
             \/ fetched = rest /\ rest \subseteq ValidCodes,
             Answer(fetched, rest)
      PROVE  DInv'
  <2>1. CASE walk.mode = "page"
    BY <1>4, <2>1, DriftAnswer
  <2>2. CASE walk.mode # "page"
    <3>1. fetched \in SUBSET Codes
      BY ListedType
    <3>2. walk'.mode = walk.mode
      BY <1>4, <3>1, AnswerType DEF LInv
    <3> QED
      BY <2>2, <3>2 DEF DInv, PageFits, PageDrift
  <2> QED
    BY <2>1, <2>2
<1>5. CASE GetItems \/ GetSubItems
  <2>1. status = "open" /\ walk.search = Null /\ SqlPage
    BY <1>5 DEF GetItems, GetSubItems, LInv, WalkFits
  <2>2. Rows = Listed(table, walk)
    BY <2>1 DEF Rows, Listed
  <2>3. PICK rest \in SUBSET Listed(table, walk) :
          /\ IsRest(rest, Listed(table, walk))
          /\ \E fetched \in SUBSET rest :
               IsFirst(fetched, rest, walk.limit + 1) /\ Answer(fetched, rest)
    BY <2>1, <2>2 DEF SqlPage
  <2>4. PICK fetched \in SUBSET rest :
          IsFirst(fetched, rest, walk.limit + 1) /\ Answer(fetched, rest)
    BY <2>3
  <2> QED
    BY <1>4, <2>1, <2>3, <2>4
<1>6. CASE GetFilteredItems
  <2>1. Listed(table, walk) = Collected(table, walk.search) /\ status = "open"
    BY <1>6 DEF GetFilteredItems, Listed
  <2>2. PICK rest \in SUBSET Listed(table, walk) :
          IsRest(rest, Listed(table, walk)) /\ Answer(rest, rest)
    BY <1>6, <2>1 DEF GetFilteredItems
  <2>3. rest \subseteq ValidCodes
    BY <2>1 DEF Collected
  <2> QED
    BY <1>4, <2>1, <2>2, <2>3
<1>7. CASE SearchFails
  BY <1>7 DEF SearchFails, DInv, PageFits, PageDrift
<1>8. ASSUME NEW search, NEW limit, SearchProductsUuid(search, limit) PROVE DInv'
  <2>1. UNCHANGED <<table, walk, status, seen, repeated, stable, inserted, deleted, cut>>
    BY <1>8 DEF SearchProductsUuid, history
  <2>2. Listed(table, walk)' = Listed(table, walk)
    BY <2>1
  <2> QED
    BY <2>1, <2>2 DEF DInv, PageFits, PageDrift
<1>9. CASE UNCHANGED vars
  <2>1. Listed(table, walk)' = Listed(table, walk)
    BY <1>9 DEF vars
  <2> QED
    BY <1>9, <2>1 DEF vars, DInv, PageFits, PageDrift
<1> QED
  BY <1>1, <1>2, <1>3, <1>5, <1>6, <1>7, <1>8, <1>9 DEF Next

\* With page numbers a client is given no more rows again than have come in since it
\* began, and misses no more of those that stayed than have left, for any table,
\* limit, search and writes meanwhile.
THEOREM PagesDriftByWrites == Spec => []PageDrift
<1>1. Init => DInv
  BY DEF Init, DInv, PageFits, PageDrift
<1> QED
  BY <1>1, DInvStep, LInvAlways, PTL DEF Spec, DInv

----------------------------------------------------------------------------
(* A search with a limit. *)

\* It finds as many items as there are up to the limit, or LIMIT was spent in vain.
LEMMA LimitedStep ==
  ASSUME NEW search, NEW limit \in Int, SearchProductsUuid(search, limit)
  PROVE  LimitedSearchIsFull'
<1> DEFINE all == Collected(table, search)
           selected == {c \in Rows : Prefiltered(table[c], search)}
<1>1. PICK fetched \in Fetched(search, selected, limit) :
        \E items \in SUBSET (all \cap fetched) :
          /\ \/ Cardinality(items) = limit
             \/ Cardinality(items) < limit /\ items = all \cap fetched
          /\ found' = [items |-> items, search |-> search, limit |-> limit]
  BY DEF SearchProductsUuid
<1>2. PICK items \in SUBSET (all \cap fetched) :
        /\ \/ Cardinality(items) = limit
           \/ Cardinality(items) < limit /\ items = all \cap fetched
        /\ found' = [items |-> items, search |-> search, limit |-> limit]
  BY <1>1
<1>3. table' = table
  BY DEF SearchProductsUuid
<1>4. /\ found'.items = items /\ found'.limit = limit /\ found'.search = search
      /\ Collected(table, found.search)' = all
      /\ {c \in Rows : Prefiltered(table[c], found.search)}' = selected
  BY <1>2, <1>3 DEF Rows
<1>5. all \subseteq selected
  BY ListingAssumption DEF Collected, Rows
<1>6. \/ Cardinality(items) = limit
      \/ Cardinality(items) < limit /\ items = all
      \/ ~HasPostSqlFilters(search) /\ ~(selected \subseteq all)
  <2>1. CASE HasPostSqlFilters(search)
    <3>1. fetched = selected
      BY <1>1, <2>1 DEF Fetched
    <3> HIDE DEF all, selected
    <3> QED
      BY <1>2, <1>5, <3>1
  <2>2. CASE ~HasPostSqlFilters(search) /\ selected \subseteq all
    <3> HIDE DEF all, selected
    <3>1. /\ fetched \subseteq selected
          /\ Cardinality(fetched) = limit \/ (Cardinality(fetched) < limit /\ fetched = selected)
      BY <1>1, <2>2 DEF Fetched
    <3>2. all \cap fetched = fetched
      BY <2>2, <3>1
    <3> QED
      BY <1>2, <1>5, <2>2, <3>1, <3>2
  <2> QED
    BY <1>2, <2>1, <2>2
<1> HIDE DEF all, selected
<1> QED
  BY <1>4, <1>6 DEF LimitedSearchIsFull

\* A search with a limit comes back full, unless LIMIT was spent on rows that the rules
\* then refuse, for any table and any rules.
THEOREM LimitedSearches == Spec => []LimitedSearchIsFull
<1>1. Init => LimitedSearchIsFull
  BY DEF Init, LimitedSearchIsFull
<1>2. LimitedSearchIsFull /\ [Next]_vars => LimitedSearchIsFull'
  <2> SUFFICES ASSUME LimitedSearchIsFull, [Next]_vars PROVE LimitedSearchIsFull'
    OBVIOUS
  <2>1. ASSUME NEW search \in Searches, NEW limit \in Limits,
               SearchProductsUuid(search, limit)
        PROVE  LimitedSearchIsFull'
    BY <2>1, LimitedStep, ListingAssumption
  <2>2. CASE found' = Null
    BY <2>2 DEF LimitedSearchIsFull
  <2>3. ASSUME NEW t, Write(t) PROVE found' = Null
    BY <2>3 DEF Write
  <2>4. CASE GetItems \/ GetSubItems \/ GetFilteredItems \/ SearchFails
    <3>1. found' = Null
      BY <2>4 DEF GetItems, GetSubItems, GetFilteredItems, SearchFails, SqlPage, Answer
    <3> QED
      BY <2>2, <3>1
  <2>5. ASSUME NEW type, NEW offer, NEW of, NEW search, NEW limit,
               Start(type, offer, of, search, limit)
        PROVE  found' = Null
    BY <2>5 DEF Start
  <2>6. CASE UNCHANGED vars
    <3>1. /\ found' = found /\ table' = table /\ Rows' = Rows
      BY <2>6 DEF vars, Rows
    <3> QED
      BY <3>1 DEF LimitedSearchIsFull
  <2> QED
    BY <2>1, <2>2, <2>3, <2>4, <2>5, <2>6 DEF Next, StoreRow, DeleteRow
<1> QED
  BY <1>1, <1>2, PTL DEF Spec

----------------------------------------------------------------------------
(* The WHERE clause of a search. *)

\* A set of natural numbers has a least.
LEMMA LeastNat ==
  ASSUME NEW S \in SUBSET Nat, S # {}
  PROVE  \E m \in S : \A k \in S : m <= k
<1> DEFINE T == {0..c : c \in S}
<1>1. T \subseteq FiniteSubsetsOf(Nat) /\ T # {}
  <2>1. \A c \in S : IsFiniteSet(0..c) /\ 0..c \in SUBSET Nat
    BY FS_Interval
  <2> QED
    BY <2>1 DEF FiniteSubsetsOf
<1>2. PICK x \in T : \A y \in T : <<y, x>> \notin StrictSubsetOrdering(Nat)
  BY <1>1, FS_StrictSubsetOrderingWellFounded, WFMin
<1>3. PICK m \in S : x = 0..m
  OBVIOUS
<1>4. ASSUME NEW k \in S, k < m PROVE FALSE
  <2>1. 0..k \subseteq x /\ m \in x /\ m \notin 0..k
    BY <1>3, <1>4
  <2>2. 0..k \in SUBSET Nat /\ x \in SUBSET Nat
    BY <1>3
  <2>3. <<0..k, x>> \in StrictSubsetOrdering(Nat)
    BY <2>1, <2>2 DEF StrictSubsetOrdering
  <2> QED
    BY <1>2, <2>3
<1> QED
  BY <1>4

\* A string is LIKE a pattern when its letters can be dealt out to the tokens: the
\* first j tokens take the first at[j] letters.
LEMMA LikeWhenDealt ==
  ASSUME NEW s, Len(s) \in Nat, NEW pattern, Len(pattern) \in Nat,
         NEW at \in [0..Len(pattern) -> Nat],
         at[0] = 0, at[Len(pattern)] = Len(s),
         \A j \in 1..Len(pattern) : at[j] \in Ends(s, pattern[j], at[j - 1])
  PROVE  Like(s, pattern)
<1> DEFINE n == Len(pattern)
           Next1(j, R) == UNION {Ends(s, pattern[j], i) : i \in R}
           Solves(g, m) == g = [j \in 0..m |-> IF j = 0 THEN {0} ELSE Next1(j, g[j - 1])]
           reach == CHOOSE g : Solves(g, n)
<1>0. n \in Nat
  OBVIOUS
<1>1. \A m \in 0..n : \E g : Solves(g, m)
  <2> DEFINE Solvable(m) == \E g : Solves(g, m)
             Bad == {m \in 0..n : ~Solvable(m)}
  <2> HIDE DEF n, Solvable
  <2>0. Bad \in SUBSET Nat
    BY <1>0
  <2>1. SUFFICES ASSUME Bad # {} PROVE FALSE
    BY DEF Solvable
  <2>2. PICK m \in Bad : \A k \in Bad : m <= k
    BY <2>0, <2>1, LeastNat
  <2>3. CASE m = 0
    <3> DEFINE g == [j \in 0..0 |-> {0}]
    <3>1. Solves(g, 0)
      OBVIOUS
    <3> QED
      BY <2>2, <2>3, <3>1 DEF Solvable
  <2>4. CASE m # 0
    <3>1. m - 1 \in 0..n /\ m - 1 \notin Bad
      BY <1>0, <2>2, <2>4
    <3>2. PICK g : Solves(g, m - 1)
      BY <3>1 DEF Solvable
    <3> DEFINE h == [j \in 0..m |-> IF j = m THEN Next1(m, g[m - 1]) ELSE g[j]]
    <3>3. \A j \in 0..m : h[j] = IF j = 0 THEN {0} ELSE Next1(j, h[j - 1])
      <4> SUFFICES ASSUME NEW j \in 0..m
                   PROVE  h[j] = IF j = 0 THEN {0} ELSE Next1(j, h[j - 1])
        OBVIOUS
      <4> HIDE DEF Next1
      <4>1. j # 0 => j - 1 \in 0..m /\ j - 1 # m
        BY <1>0, <2>2
      <4>2. CASE j = m
        BY <2>4, <4>1, <4>2
      <4>3. CASE j # m
        <5>1. j \in 0..m - 1
          BY <1>0, <2>2, <4>3
        <5>2. g[j] = IF j = 0 THEN {0} ELSE Next1(j, g[j - 1])
          BY <3>2, <5>1
        <5> QED
          BY <4>1, <4>3, <5>2
      <4> QED
        BY <4>2, <4>3
    <3>4. Solves(h, m)
      <4> DEFINE F == [j \in 0..m |-> IF j = 0 THEN {0} ELSE Next1(j, h[j - 1])]
      <4>1. \A j \in 0..m : h[j] = F[j]
        BY <3>3
      <4> HIDE DEF Next1
      <4> QED
        BY <4>1
    <3> QED
      BY <2>2, <3>4 DEF Solvable
  <2> QED
    BY <2>3, <2>4 DEF Solvable
<1>2. Solves(reach, n)
  <2>1. n \in 0..n
    OBVIOUS
  <2>2. \E g : Solves(g, n)
    BY <1>1, <2>1
  <2> QED
    BY <2>2
<1>3. \A j \in 0..n : at[j] \in reach[j]
  <2> DEFINE Bad == {j \in 0..n : at[j] \notin reach[j]}
  <2> HIDE DEF reach
  <2>0. Bad \in SUBSET Nat
    OBVIOUS
  <2>1. SUFFICES ASSUME Bad # {} PROVE FALSE
    OBVIOUS
  <2>2. PICK j \in Bad : \A k \in Bad : j <= k
    BY <2>0, <2>1, LeastNat
  <2>3. j # 0 /\ j - 1 \in 0..n /\ at[j - 1] \in reach[j - 1]
    <3>1. reach[0] = {0}
      BY <1>2
    <3>2. j # 0
      BY <2>2, <3>1
    <3> QED
      BY <2>2, <3>2
  <2>4. reach[j] = Next1(j, reach[j - 1])
    BY <1>2, <2>2, <2>3
  <2>5. at[j] \in Ends(s, pattern[j], at[j - 1])
    BY <2>2, <2>3
  <2> QED
    BY <2>2, <2>3, <2>4, <2>5
<1>4. Len(s) \in reach[n]
  <2> HIDE DEF reach
  <2> QED
    BY <1>0, <1>3
<1> QED
  BY <1>4 DEF Like

NoBackslash(s) == \A i \in DOMAIN s : s[i] # "\\"

\* Without a backslash each character stands for itself or is a wildcard.
LEMMA PlainToken ==
  ASSUME NEW s \in Seq(Letters), NoBackslash(s), NEW i \in DOMAIN s
  PROVE  /\ Pattern(s)[i] = CASE s[i] = "%" -> "many" [] s[i] = "_" -> "one" [] OTHER -> s[i]
         /\ s[i] \notin {"many", "one", "nothing"}
<1>1. DOMAIN s = 1..Len(s) /\ i \in 1..Len(s) /\ Len(s) \in Nat
  OBVIOUS
<1>2. ASSUME NEW j \in {i, i - 1} PROVE ~Escapes(s, j)
  <2> SUFFICES ASSUME NEW n \in 1..j, \A k \in j - n + 1..j : s[k] = "\\" PROVE FALSE
    BY DEF Escapes
  <2>1. j \in Int /\ n \in Int /\ j \in j - n + 1..j /\ j \in DOMAIN s
    BY <1>1
  <2> QED
    BY <2>1 DEF NoBackslash
<1>3. Pattern(s)[i] = CASE s[i] = "%" -> "many" [] s[i] = "_" -> "one" [] OTHER -> s[i]
  BY <1>2 DEF Pattern
<1>4. s[i] \in Letters /\ s[i] \notin {"many", "one", "nothing"}
  <2>1. s[i] \in Letters
    BY <1>1
  <2> QED
    BY <2>1, SearchAssumption, Zenon
<1> QED
  BY <1>3, <1>4

\* Either way it takes a letter like itself.
LEMMA TakesLetter ==
  ASSUME NEW s \in Seq(Letters), NoBackslash(s), NEW i \in DOMAIN s,
         NEW t \in Seq(Letters), NEW k \in 1..Len(t), t[k] = s[i]
  PROVE  k \in Ends(t, Pattern(s)[i], k - 1)
<1>1. k \in k - 1..Len(t) /\ k = k - 1 + 1
  OBVIOUS
<1> QED
  BY <1>1, PlainToken DEF Ends

\* A "%" takes any number of letters.
LEMMA PercentTakes ==
  ASSUME NEW s \in Seq(Letters), NoBackslash(s), NEW i \in DOMAIN s, s[i] = "%",
         NEW t, NEW j, NEW k \in j..Len(t)
  PROVE  k \in Ends(t, Pattern(s)[i], j)
BY PlainToken DEF Ends

\* Lower case has a letter for a letter, and leaves "%" and the backslash alone.
LEMMA LowerCase ==
  ASSUME NEW s \in Seq(Letters)
  PROVE  /\ Lower(s) \in Seq(Letters) /\ Len(Lower(s)) = Len(s)
         /\ NoBackslash(s) => NoBackslash(Lower(s))
         /\ \A i \in 1..Len(s) : Lower(s)[i] = IF s[i] = "A" THEN "a" ELSE s[i]
<1>1. DOMAIN s = 1..Len(s) /\ Len(s) \in Nat
  OBVIOUS
<1>0. "a" \in Letters
  BY SearchAssumption, Zenon
<1>2. Lower(s) \in [1..Len(s) -> Letters]
  BY <1>0, <1>1 DEF Lower
<1>3. Lower(s) \in Seq(Letters) /\ Len(Lower(s)) = Len(s)
  BY <1>1, <1>2
<1>4. NoBackslash(s) => NoBackslash(Lower(s))
  BY <1>1 DEF NoBackslash, Lower
<1> QED
  BY <1>1, <1>3, <1>4 DEF Lower

\* What the prefixes, the suffixes and the infixes of a string are, letter by letter.
LEMMA PrefixMeans ==
  ASSUME NEW S, NEW s \in Seq(S), NEW t \in Seq(S), IsPrefix(s, t)
  PROVE  Len(s) <= Len(t) /\ \A i \in 1..Len(s) : t[i] = s[i]
<1>1. Len(s) <= Len(t) /\ SubSeq(s, 1, Len(s)) = SubSeq(t, 1, Len(s))
  BY DEF IsPrefix
<1>2. ASSUME NEW i \in 1..Len(s) PROVE t[i] = s[i]
  BY <1>1, <1>2
<1> QED
  BY <1>1, <1>2

LEMMA SuffixMeans ==
  ASSUME NEW S, NEW s \in Seq(S), NEW t \in Seq(S), IsSuffix(s, t)
  PROVE  Len(s) <= Len(t) /\ \A i \in 1..Len(s) : t[Len(t) - Len(s) + i] = s[i]
<1> DEFINE rs == Reverse(s)
           rt == Reverse(t)
<1>1. /\ rs \in Seq(S) /\ Len(rs) = Len(s) /\ rt \in Seq(S) /\ Len(rt) = Len(t)
      /\ \A i \in 1..Len(s) : rs[i] = s[Len(s) - i + 1]
      /\ \A i \in 1..Len(t) : rt[i] = t[Len(t) - i + 1]
  BY DEF Reverse
<1> HIDE DEF rs, rt
<1>2. IsPrefix(rs, rt)
  BY DEF IsSuffix, rs, rt
<1>3. Len(s) <= Len(t) /\ \A i \in 1..Len(s) : rt[i] = rs[i]
  BY <1>1, <1>2, PrefixMeans
<1>4. ASSUME NEW i \in 1..Len(s) PROVE t[Len(t) - Len(s) + i] = s[i]
  <2> DEFINE k == Len(s) - i + 1
  <2>1. k \in 1..Len(s) /\ k \in 1..Len(t)
    BY <1>3
  <2>2. Len(s) - k + 1 = i /\ Len(t) - k + 1 = Len(t) - Len(s) + i
    OBVIOUS
  <2> QED
    BY <1>1, <1>3, <2>1, <2>2
<1> QED
  BY <1>3, <1>4

IsAt(s, t, n) == \A i \in 1..Len(s) : t[n + i] = s[i]
LEMMA InfixMeans ==
  ASSUME NEW S, NEW s \in Seq(S), NEW t \in Seq(S), IsInfix(s, t)
  PROVE  \E n \in 0..Len(t) - Len(s) : IsAt(s, t, n)
<1>1. PICK k \in 1..Len(t) + 1 : IsPrefix(s, SubSeq(t, k, Len(t)))
  BY DEF IsInfix
<1> DEFINE rest == SubSeq(t, k, Len(t))
<1>2. /\ rest \in Seq(S) /\ Len(rest) = Len(t) - k + 1
      /\ \A i \in 1..Len(rest) : rest[i] = t[k + i - 1]
  OBVIOUS
<1> HIDE DEF rest
<1>3. Len(s) <= Len(rest) /\ \A i \in 1..Len(s) : rest[i] = s[i]
  BY <1>1, <1>2, PrefixMeans DEF rest
<1>4. k - 1 \in 0..Len(t) - Len(s)
  BY <1>2, <1>3
<1>5. ASSUME NEW i \in 1..Len(s) PROVE t[k - 1 + i] = s[i]
  <2>1. i \in 1..Len(rest) /\ k + i - 1 = k - 1 + i
    BY <1>2, <1>3
  <2> QED
    BY <1>2, <1>3, <2>1
<1> QED
  BY <1>4, <1>5 DEF IsAt

\* A pattern without a backslash, made of a text and a "%" before or behind it, matches
\* a string with this text k letters from its beginning.
LEMMA LikeShifted ==
  ASSUME NEW n \in Nat, NEW m \in Nat, NEW before \in {0, 1}, NEW behind \in {0, 1},
         NEW x \in Seq(Letters), NoBackslash(x), Len(x) = m, m = before + n + behind,
         before = 1 => x[1] = "%", behind = 1 => x[m] = "%",
         NEW t \in Seq(Letters), NEW k \in Nat, k + n <= Len(t),
         \A i \in 1..n : t[k + i] = x[before + i],
         before = 0 => k = 0, behind = 0 => k + n = Len(t)
  PROVE  Like(t, Pattern(x))
<1>0. Len(t) \in Nat /\ DOMAIN x = 1..m
  OBVIOUS
<1> DEFINE at == [j \in 0..m |-> IF j < before THEN 0
                                 ELSE IF j <= before + n THEN k + (j - before)
                                 ELSE Len(t)]
<1>1. at \in [0..m -> Nat] /\ at[0] = 0 /\ at[m] = Len(t)
  BY <1>0
<1>2. Len(Pattern(x)) = m
  BY <1>0 DEF Pattern
<1>3. ASSUME NEW j \in 1..m PROVE at[j] \in Ends(t, Pattern(x)[j], at[j - 1])
  <2>0. j \in DOMAIN x /\ j - 1 \in 0..m
    BY <1>0
  <2>1. CASE j <= before
    <3>1. j = 1 /\ before = 1
      BY <2>1
    <3>2. at[j] = k /\ at[j - 1] = 0 /\ x[j] = "%"
      BY <3>1
    <3>3. 0 \in 0..Len(t) /\ k \in 0..Len(t)
      BY <1>0
    <3>4. k \in Ends(t, Pattern(x)[j], 0)
      BY <2>0, <3>2, <3>3, PercentTakes
    <3> QED
      BY <3>2, <3>4
  <2>2. CASE j - before \in 1..n
    <3>1. at[j] = k + (j - before) /\ at[j - 1] = k + (j - before) - 1
      BY <2>0, <2>2
    <3>2. x[j] = t[k + (j - before)]
      <4>1. t[k + (j - before)] = x[before + (j - before)]
        BY <2>2
      <4>2. before + (j - before) = j
        OBVIOUS
      <4> QED
        BY <4>1, <4>2
    <3>3. k + (j - before) \in 1..Len(t)
      BY <1>0, <2>2
    <3> HIDE DEF at
    <3> QED
      BY <2>0, <3>1, <3>2, <3>3, TakesLetter
  <2>3. CASE j > before + n
    <3>1. j = m /\ behind = 1 /\ j - 1 = before + n
      BY <2>3
    <3>2. at[j] = Len(t) /\ at[j - 1] = k + n /\ x[j] = "%"
      BY <2>0, <3>1
    <3>3. k + n \in 0..Len(t) /\ Len(t) \in k + n..Len(t)
      BY <1>0
    <3> HIDE DEF at
    <3> QED
      BY <2>0, <3>2, <3>3, PercentTakes
  <2> QED
    BY <2>1, <2>2, <2>3
<1> HIDE DEF at
<1> QED
  BY <1>0, <1>1, <1>2, <1>3, LikeWhenDealt

\* What Python finds in a string, ignoring case, LIKE finds as well, unless there is a
\* backslash in what is looked for.
LEMMA LikeWhenFound ==
  ASSUME NEW op \in {"CONTAINS", "STARTS_WITH", "ENDS_WITH"},
         NEW s \in Seq(Letters), NoBackslash(s), NEW t \in Seq(Letters),
         op = "STARTS_WITH" => IsPrefix(Lower(s), Lower(t)),
         op = "ENDS_WITH" => IsSuffix(Lower(s), Lower(t)),
         op = "CONTAINS" => IsInfix(Lower(s), Lower(t))
  PROVE  Like(Lower(t), LikePattern(op, s))
<1>0. "%" \in Letters /\ "%" # "\\" /\ "%" # "A"
  BY SearchAssumption, Zenon
<1>1. PICK ls : ls = Lower(s)
  OBVIOUS
<1>2. PICK lt : lt = Lower(t)
  OBVIOUS
<1>3. PICK n \in Nat : n = Len(s)
  OBVIOUS
<1>4. /\ ls \in Seq(Letters) /\ Len(ls) = n
      /\ lt \in Seq(Letters) /\ Len(lt) \in Nat
      /\ \A i \in 1..n : ls[i] = IF s[i] = "A" THEN "a" ELSE s[i]
  BY <1>1, <1>2, <1>3, LowerCase
<1> DEFINE Around(text, before, behind, k) ==
             /\ Len(text) = before + n + behind
             /\ \A i \in 1..n : text[before + i] = s[i]
             /\ before = 1 => text[1] = "%"
             /\ behind = 1 => text[before + n + behind] = "%"
             /\ k + n <= Len(lt) /\ \A i \in 1..n : lt[k + i] = ls[i]
             /\ before = 0 => k = 0
             /\ behind = 0 => k + n = Len(lt)
<1>5. ASSUME NEW text \in Seq(Letters), NEW before \in {0, 1}, NEW behind \in {0, 1},
             NEW k \in Nat, Around(text, before, behind, k)
      PROVE  Like(lt, Pattern(Lower(text)))
  <2>0. before + n + behind \in Nat
    OBVIOUS
  <2>1. PICK m \in Nat : m = before + n + behind
    BY <2>0
  <2>2. NoBackslash(text)
    <3> SUFFICES ASSUME NEW j \in 1..m PROVE text[j] # "\\"
      BY <1>5, <2>1 DEF NoBackslash
    <3>1. CASE j - before \in 1..n
      <4>1. text[before + (j - before)] = s[j - before]
        BY <1>5, <3>1
      <4>2. before + (j - before) = j /\ j - before \in DOMAIN s
        BY <1>3, <3>1
      <4> QED
        BY <4>1, <4>2 DEF NoBackslash
    <3>2. CASE j - before \notin 1..n
      <4>1. (j = 1 /\ before = 1) \/ (j = before + n + behind /\ behind = 1)
        BY <2>1, <3>2
      <4> QED
        BY <1>0, <1>5, <4>1
    <3> QED
      BY <3>1, <3>2
  <2>3. PICK x : x = Lower(text)
    OBVIOUS
  <2>4. /\ x \in Seq(Letters) /\ Len(x) = m /\ NoBackslash(x)
        /\ \A i \in 1..m : x[i] = IF text[i] = "A" THEN "a" ELSE text[i]
    BY <1>5, <2>1, <2>2, <2>3, LowerCase
  <2>5. ASSUME NEW i \in 1..n PROVE lt[k + i] = x[before + i]
    <3>1. before + i \in 1..m
      BY <2>1
    <3>2. text[before + i] = s[i] /\ lt[k + i] = ls[i]
      BY <1>5
    <3> QED
      BY <1>4, <2>4, <3>1, <3>2
  <2>6. (before = 1 => x[1] = "%") /\ (behind = 1 => x[m] = "%")
    <3>1. (before = 1 => 1 \in 1..m) /\ (behind = 1 => m \in 1..m)
      BY <2>1
    <3> QED
      BY <1>0, <1>5, <2>1, <2>4, <3>1
  <2>7. Like(lt, Pattern(x))
    <3>1. k + n <= Len(lt) /\ (before = 0 => k = 0) /\ (behind = 0 => k + n = Len(lt))
      BY <1>5
    <3>2. \A i \in 1..n : lt[k + i] = x[before + i]
      BY <2>5
    <3>3. /\ before \in {0, 1} /\ behind \in {0, 1} /\ k \in Nat
          /\ n \in Nat /\ m \in Nat /\ m = before + n + behind
      BY <1>3, <1>5, <2>1
    <3> HIDE DEF Around
    <3> QED
      BY <1>4, <2>4, <2>6, <3>1, <3>2, <3>3, LikeShifted, ZenonT(30)
  <2> QED
    BY <2>3, <2>7
<1> HIDE DEF Around
<1>6. CASE op = "STARTS_WITH"
  <2> DEFINE text == s \o <<"%">>
  <2>1. /\ text \in Seq(Letters) /\ Len(text) = 0 + n + 1
        /\ \A i \in 1..n : text[0 + i] = s[i]
        /\ text[0 + n + 1] = "%"
    BY <1>0, <1>3
  <2>2. 0 + n <= Len(lt) /\ \A i \in 1..n : lt[0 + i] = ls[i]
    BY <1>1, <1>2, <1>4, <1>6, PrefixMeans
  <2>3. LikePattern(op, s) = Pattern(Lower(text))
    BY <1>6 DEF LikePattern
  <2> HIDE DEF text
  <2>4. Around(text, 0, 1, 0)
    BY <2>1, <2>2 DEF Around
  <2>5. Like(lt, Pattern(Lower(text)))
    BY <1>5, <2>1, <2>4
  <2> QED
    BY <1>2, <2>3, <2>5
<1>7. CASE op = "ENDS_WITH"
  <2> DEFINE text == <<"%">> \o s
  <2>1. /\ text \in Seq(Letters) /\ Len(text) = 1 + n + 0
        /\ \A i \in 1..n : text[1 + i] = s[i]
        /\ text[1] = "%"
    BY <1>0, <1>3
  <2>2. n <= Len(lt) /\ \A i \in 1..n : lt[Len(lt) - n + i] = ls[i]
    <3>1. IsSuffix(ls, lt)
      BY <1>1, <1>2, <1>7
    <3>2. Len(ls) <= Len(lt) /\ \A i \in 1..Len(ls) : lt[Len(lt) - Len(ls) + i] = ls[i]
      BY <1>4, <3>1, SuffixMeans
    <3> QED
      BY <1>4, <3>2
  <2>3. LikePattern(op, s) = Pattern(Lower(text))
    BY <1>7 DEF LikePattern
  <2> HIDE DEF text
  <2>0. Len(lt) - n \in Nat
    BY <1>4, <2>2
  <2>4. PICK k \in Nat : k = Len(lt) - n
    BY <2>0
  <2>5. k + n <= Len(lt) /\ k + n = Len(lt) /\ \A i \in 1..n : lt[k + i] = ls[i]
    BY <1>4, <2>2, <2>4
  <2>6. Around(text, 1, 0, k)
    BY <2>1, <2>5 DEF Around
  <2>7. Like(lt, Pattern(Lower(text)))
    BY <1>5, <2>1, <2>6
  <2> QED
    BY <1>2, <2>3, <2>7
<1>8. CASE op = "CONTAINS"
  <2> DEFINE text == <<"%">> \o s \o <<"%">>
  <2>1. /\ text \in Seq(Letters) /\ Len(text) = 1 + n + 1
        /\ \A i \in 1..n : text[1 + i] = s[i]
        /\ text[1] = "%" /\ text[1 + n + 1] = "%"
    BY <1>0, <1>3
  <2>2. PICK k \in 0..Len(lt) - n : \A i \in 1..n : lt[k + i] = ls[i]
    <3>1. IsInfix(ls, lt)
      BY <1>1, <1>2, <1>8
    <3>2. PICK k \in 0..Len(lt) - Len(ls) : IsAt(ls, lt, k)
      BY <1>4, <3>1, InfixMeans
    <3> QED
      BY <1>4, <3>2 DEF IsAt
  <2>3. LikePattern(op, s) = Pattern(Lower(text))
    BY <1>8 DEF LikePattern
  <2>4. k \in Nat /\ k + n <= Len(lt)
    BY <1>4, <2>2
  <2> HIDE DEF text
  <2>5. Around(text, 1, 1, k)
    BY <2>1, <2>2, <2>4 DEF Around
  <2>6. Like(lt, Pattern(Lower(text)))
    BY <1>5, <2>1, <2>4, <2>5
  <2> QED
    BY <1>2, <2>3, <2>6
<1> QED
  BY <1>6, <1>7, <1>8

\* PostgreSQL takes a cell for equal to a literal that it can compare it with just when
\* Python does, but for a boolean and a string.
LEMMA EqualsAgree ==
  ASSUME NEW e \in Entities, NEW f \in SQL_FILTERABLE_FIELDS,
         NEW search \in Searches, NEW rule \in search, NEW v \in Literals(rule),
         IsScalar(v), Comparable(Kind[f], v), e.fields[f] \notin {Absent, Null}
  PROVE  /\ Equals(e.fields[f], v) => SqlEquals(e.fields[f], v)
         /\ SqlEquals(e.fields[f], v) =>
              Equals(e.fields[f], v) \/ (Kind[f] = "boolean" /\ IsStr(v))
<1>0. PICK cell : cell = e.fields[f]
  OBVIOUS
<1>1. cell \in Cells(e) /\ WellFormed(cell) /\ FitsColumn(cell, Kind[f]) /\ WellFormed(v)
  BY <1>0, EntitiesAssumption DEF Cells
<1>2. IsStr(cell) /\ IsStr(v) /\ cell.str = v.str => cell = v
  BY <1>1, EntitiesAssumption
<1>3. Kind[f] \in {"text", "boolean", "json", "none"}
  BY SearchAssumption
<1>4. CASE Kind[f] = "boolean"
  <2>1. IsNum(cell) /\ "bool" \in DOMAIN cell /\ cell.bool \in BOOLEAN
        /\ cell.num = IF cell.bool THEN 1 ELSE 0
    BY <1>0, <1>1, <1>4 DEF FitsColumn, WellFormed
  <2>2. CASE IsNum(v)
    <3>1. v.bool \in BOOLEAN /\ v.num = IF v.bool THEN 1 ELSE 0
      BY <1>1, <1>4, <2>2 DEF Comparable, ReadsAsBoolean, WellFormed
    <3> QED
      BY <1>0, <2>1, <2>2, <3>1 DEF Equals, SqlEquals, TruthOf
  <2>3. CASE ~IsNum(v)
    <3>1. cell # v
      BY <2>1, <2>3
    <3>2. IsStr(v)
      BY <2>3 DEF IsScalar
    <3> QED
      BY <1>0, <1>4, <2>1, <2>3, <3>1, <3>2 DEF Equals
  <2> QED
    BY <2>2, <2>3
<1>5. CASE Kind[f] \in {"text", "json"}
  <2>1. IsStr(cell) /\ ~IsNum(cell) /\ IsStr(v)
    BY <1>0, <1>1, <1>5 DEF FitsColumn, WellFormed, Comparable
  <2> QED
    BY <1>0, <1>2, <2>1 DEF Equals, SqlEquals
<1> QED
  BY <1>3, <1>4, <1>5 DEF Comparable

SqlOperators == {"=", "!=", "IN", "NOT_IN", "CONTAINS", "STARTS_WITH", "ENDS_WITH"}

\* A condition of the WHERE clause holds of every row of which the rule holds, but for
\* what it may lose.
LEMMA ClauseIsSound ==
  ASSUME NEW e \in Entities, NEW search \in Searches, NEW rule \in search,
         HasSqlClause(rule), ~ClauseFails(rule),
         MatchesFieldRule(e, rule, Null, Null), ~MayLose(e, rule)
  PROVE  SqlClause(e, rule)
<1>0. PICK f, op, value, cell :
        /\ f = rule.field /\ op = rule.operator /\ value = rule.value
        /\ cell = e.fields[rule.field]
  OBVIOUS
<1>1. f \in SQL_FILTERABLE_FIELDS /\ op \in SqlOperators
  BY <1>0 DEF HasSqlClause, SqlOperators
<1>2. DOMAIN e.fields = SQL_FILTERABLE_FIELDS /\ WellFormed(cell) /\ FitsColumn(cell, Kind[f])
      /\ WellFormed(value)
  BY <1>0, <1>1, EntitiesAssumption
<1>3. op # Null /\ op \notin {"UNCLASSIFIED", "EMPTY"}
  BY <1>0, <1>1 DEF MatchesFieldRule, SqlOperators
<1> DEFINE at == NormalizeLocaleAndScope(rule, Null, Null)
           values == ResolveFieldValues(e, f, at.locale, at.scope)
<1>4. PICK i \in DOMAIN values : MatchesOperator(values[i], op, value)
  BY <1>0, <1>3 DEF MatchesFieldRule
<1>5. cell # Absent
  <2> SUFFICES ASSUME cell = Absent PROVE FALSE
    OBVIOUS
  <2>1. f \notin DOMAIN e.values
    BY <1>0 DEF MayLose
  <2>2. DOMAIN values = {}
    BY <1>0, <2>1 DEF ResolveFieldValues
  <2> QED
    BY <1>4, <2>2
<1>6. MatchesOperator(cell, op, value)
  <2>1. values = <<cell>>
    BY <1>0, <1>1, <1>2, <1>5 DEF ResolveFieldValues
  <2>2. DOMAIN <<cell>> = {1} /\ <<cell>>[1] = cell
    OBVIOUS
  <2>3. i = 1
    BY <1>4, <2>1, <2>2
  <2> QED
    BY <1>4, <2>1, <2>2, <2>3
<1>7. CASE op \in {"=", "!="}
  <2>1. IsScalar(value) /\ Comparable(Kind[f], value)
    BY <1>0, <1>7 DEF HasSqlClause, ClauseFails
  <2>2. value \in Literals(rule)
    BY <1>0, <1>2, <2>1 DEF Literals, WellFormed, IsScalar
  <2>3. IF op = "=" THEN Equals(cell, value) ELSE ~Equals(cell, value)
    BY <1>6, <1>7 DEF MatchesOperator, ItemOperators
  <2>4. cell # Null
    BY <1>0, <1>7, <2>1, <2>3 DEF MayLose, Equals, IsScalar, IsStr, IsNum
  <2>5. op = "!=" => ~(Kind[f] = "boolean" /\ IsStr(value))
    BY <1>0, <1>7, <2>2 DEF MayLose
  <2>6. IF op = "=" THEN SqlEquals(cell, value) ELSE ~SqlEquals(cell, value)
    <3>1. cell = e.fields[f] /\ cell \notin {Absent, Null}
      BY <1>0, <1>5, <2>4
    <3>2. /\ Equals(cell, value) => SqlEquals(cell, value)
          /\ SqlEquals(cell, value) =>
               Equals(cell, value) \/ (Kind[f] = "boolean" /\ IsStr(value))
      BY <1>1, <2>1, <2>2, <3>1, EqualsAgree
    <3> QED
      BY <1>7, <2>3, <2>5, <3>2
  <2> QED
    BY <1>0, <1>5, <1>7, <2>4, <2>6 DEF SqlClause
<1>8. CASE op \in {"IN", "NOT_IN"}
  <2>1. /\ IsList(value) /\ DOMAIN value.list # {}
        /\ \A k \in DOMAIN value.list :
             IsScalar(value.list[k]) /\ Comparable(Kind[f], value.list[k])
    BY <1>0, <1>8 DEF HasSqlClause, ClauseFails
  <2>2. \A k \in DOMAIN value.list : value.list[k] \in Literals(rule)
    BY <1>0, <2>1 DEF Literals
  <2>3. ~IsList(cell)
    <3>1. Kind[f] # "none"
      BY <2>1 DEF Comparable
    <3>2. Kind[f] \in {"text", "boolean", "json"}
      BY <1>1, <3>1, SearchAssumption
    <3>3. IsStr(cell) \/ IsNum(cell) \/ cell = Null
      BY <1>2, <1>5, <3>2 DEF FitsColumn
    <3> QED
      BY <1>2, <3>3 DEF WellFormed, IsList
  <2>4. IF op = "IN" THEN ListedIn(cell, value) ELSE ~ListedIn(cell, value)
    BY <1>6, <1>8, <2>3 DEF MatchesOperator, ItemOperators
  <2>5. cell # Null
    BY <1>0, <1>8, <2>1, <2>4 DEF MayLose, ListedIn, Equals, IsScalar, IsStr, IsNum
  <2>6. op = "NOT_IN" => \A k \in DOMAIN value.list : ~(Kind[f] = "boolean" /\ IsStr(value.list[k]))
    BY <1>0, <1>8, <2>2 DEF MayLose
  <2>7. \A k \in DOMAIN value.list :
          /\ Equals(cell, value.list[k]) => SqlEquals(cell, value.list[k])
          /\ op = "NOT_IN" /\ SqlEquals(cell, value.list[k]) => Equals(cell, value.list[k])
    BY <1>0, <1>1, <1>5, <2>1, <2>2, <2>5, <2>6, EqualsAgree
  <2>8. IF op = "IN" THEN \E k \in DOMAIN value.list : SqlEquals(cell, value.list[k])
        ELSE ~\E k \in DOMAIN value.list : SqlEquals(cell, value.list[k])
    BY <1>8, <2>1, <2>4, <2>7 DEF ListedIn
  <2> QED
    BY <1>0, <1>5, <1>8, <2>5, <2>8 DEF SqlClause
<1>9. CASE op \in {"CONTAINS", "STARTS_WITH", "ENDS_WITH"}
  <2>1. IsStr(value) /\ value.str \in Seq(Letters)
    BY <1>0, <1>2, <1>9 DEF HasSqlClause, WellFormed
  <2>2. MatchesText(cell, op, value)
    BY <1>6, <1>9 DEF MatchesOperator, ItemOperators
  <2>3. IsStr(cell) /\ cell.str \in Seq(Letters)
    BY <1>2, <2>2 DEF MatchesText, WellFormed
  <2>4. NoBackslash(value.str)
    BY <1>0, <1>9 DEF MayLose, NoBackslash
  <2>5. /\ op = "STARTS_WITH" => IsPrefix(Lower(value.str), Lower(cell.str))
        /\ op = "ENDS_WITH" => IsSuffix(Lower(value.str), Lower(cell.str))
        /\ op = "CONTAINS" => IsInfix(Lower(value.str), Lower(cell.str))
    BY <1>9, <2>2 DEF MatchesText
  <2>6. Like(Lower(cell.str), LikePattern(op, value.str))
    BY <1>9, <2>1, <2>3, <2>4, <2>5, LikeWhenFound
  <2> QED
    BY <1>0, <1>5, <1>9, <2>3, <2>6 DEF SqlClause, IsStr
<1> QED
  BY <1>1, <1>7, <1>8, <1>9 DEF SqlOperators

\* The WHERE clause of a search takes away no row that the rules alone find, but for
\* those that a condition may lose, for any rows and any rules.
THEOREM PrefilterSound == Spec => []PrefilterIsSound
<1>1. TypeOK => PrefilterIsSound
  <2> SUFFICES ASSUME TypeOK, NEW c \in Rows, NEW search \in Searches,
                      ~SqlFails(search), MatchesSearch(table[c], search, Null, Null),
                      NEW rule \in SqlRules(search), ~MayLose(table[c], rule)
               PROVE  SqlClause(table[c], rule)
    BY DEF PrefilterIsSound
  <2>1. PICK e : e = table[c]
    OBVIOUS
  <2>2. e \in Entities
    BY <2>1 DEF TypeOK, Rows
  <2>3. rule \in search /\ HasSqlClause(rule) /\ ~ClauseFails(rule)
    BY DEF SqlRules, SqlFails
  <2>4. MatchesFieldRule(e, rule, Null, Null)
    BY <2>1, <2>3 DEF MatchesSearch
  <2> QED
    BY <2>1, <2>2, <2>3, <2>4, ClauseIsSound
<1> QED
  BY <1>1, ListingTypeCorrect, PTL

=============================================================================
