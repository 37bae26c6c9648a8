----------------------------- MODULE TxListProofs ------------------------------
(***************************************************************************)
(* Proofs about TxList, for any transactions, any number of windows of one  *)
(* session, requests under way at once and choices of the filter: the       *)
(* types, and that every table a window shows was true at one moment.       *)
(***************************************************************************)
EXTENDS TxList, TLAPS

-----------------------------------------------------------------------------
(* Requests.                                                                *)

\* The stages in which the server has a request of either kind.
Served == {"check", "all", "some", "queried", "list", "answered"}

\* What is under way has the shape of its stage.
LEMMA RequestShape ==
  ASSUME NEW r \in {None} \cup Poll \cup Choice
  PROVE  /\ r.stage = "none" => r = None
         /\ r.stage = "poll" => r \in Poll
         /\ r.stage = "choice" => r \in Choice
         /\ r.stage \in Served => r \in Poll \cup Choice
         /\ r \in Poll \cup Choice => r # None
<1>1. CASE r = None
  <2>1. r.stage = "none"
    BY <1>1 DEF None
  <2>2. r \notin Poll /\ r \notin Choice
    BY <2>1 DEF Poll, Choice
  <2> QED
    BY <1>1, <2>1, <2>2 DEF Served
<1>2. CASE r \in Poll
  <2>1. r.stage \in {"poll"} \cup Served
    BY <1>2 DEF Poll, Served
  <2>2. r # None
    BY <2>1 DEF None, Served
  <2> QED
    BY <1>2, <2>1, <2>2 DEF Served
<1>3. CASE r \in Choice
  <2>1. r.stage \in {"choice"} \cup Served
    BY <1>3 DEF Choice, Served
  <2>2. r # None
    BY <2>1 DEF None, Served
  <2> QED
    BY <1>3, <2>1, <2>2 DEF Served
<1> QED
  BY <1>1, <1>2, <1>3

\* A request that goes on stays what it is, with its table.
LEMMA RequestGoes ==
  ASSUME NEW r \in Poll \cup Choice, NEW s \in Served
  PROVE  /\ [r EXCEPT !.stage = s] \in Poll \cup Choice
         /\ [r EXCEPT !.stage = s].table = r.table
<1>1. CASE r \in Poll
  BY <1>1 DEF Poll, Served
<1>2. CASE r \in Choice
  BY <1>2 DEF Choice, Served
<1> QED
  BY <1>1, <1>2

-----------------------------------------------------------------------------
(* The invariant.                                                           *)

\* Every table on its way to a window was true: the list of the bean, what is
\* rendered of a request, and what the windows show.
TInv ==
  /\ TypeOK
  /\ WasTrue(transactionsList)
  /\ \A w \in Window : \A c \in Connection :
       request[w][c] # None => WasTrue(request[w][c].table)
  /\ TablesWereTrue

\* What a query finds is true, and no table at all is.
LEMMA QueriesTrue ==
  ASSUME recorded \in [Tx -> Status \cup {"none", "subordinate"}]
  PROVE  /\ AllTopLevel \in SUBSET Row /\ WasTrue(AllTopLevel)
         /\ \A s : WithStatus(s) \in SUBSET Row /\ WasTrue(WithStatus(s))
         /\ WasTrue({})
<1>1. ASSUME NEW r \in AllTopLevel
      PROVE  /\ r \in Row /\ r.tx \in Tx /\ r.status = recorded[r.tx] /\ r.status \in Had(r.status)
             /\ \A q \in AllTopLevel : q.tx = r.tx => q = r
  BY DEF AllTopLevel, Row, Status, Had
<1>2. AllTopLevel \in SUBSET Row /\ WasTrue(AllTopLevel)
  BY <1>1 DEF WasTrue
<1>3. \A s : WithStatus(s) \subseteq AllTopLevel
  BY DEF WithStatus
<1> QED
  BY <1>2, <1>3 DEF WasTrue

\* What was true stays so when the monitors go on.
LEMMA RecordKeeps ==
  ASSUME recorded \in [Tx -> Status \cup {"none", "subordinate"}],
         NEW t \in Tx, Record(t), NEW table \in SUBSET Row, WasTrue(table)
  PROVE  WasTrue(table)'
<1>1. ASSUME NEW x \in Tx PROVE Had(recorded[x]) \subseteq Had(recorded'[x])
  BY DEF Record, Status, Had
<1>2. \A r \in table : r.tx \in Tx
  BY DEF Row
<1> QED
  BY <1>1, <1>2 DEF WasTrue

\* The other steps leave what is recorded as it is.
LEMMA SameRecorded ==
  ASSUME UNCHANGED recorded, NEW table, WasTrue(table)
  PROVE  WasTrue(table)'
BY DEF WasTrue

\* One request changes, no other.
LEMMA OneRequest ==
  ASSUME TInv, UNCHANGED recorded, NEW w \in Window, NEW c \in Connection,
         NEW r \in {None} \cup Poll \cup Choice, r # None => WasTrue(r.table),
         request' = [request EXCEPT ![w][c] = r]
  PROVE  /\ request' \in [Window -> [Connection -> {None} \cup Poll \cup Choice]]
         /\ \A v \in Window : \A d \in Connection :
              request'[v][d] # None => WasTrue(request[v][d].table)'
<1>1. request \in [Window -> [Connection -> {None} \cup Poll \cup Choice]]
  BY DEF TInv, TypeOK
<1>2. request' \in [Window -> [Connection -> {None} \cup Poll \cup Choice]]
  BY <1>1
<1>3. ASSUME NEW v \in Window, NEW d \in Connection, request'[v][d] # None
      PROVE  WasTrue(request[v][d].table)'
  <2>1. request'[v][d] = IF v = w /\ d = c THEN r ELSE request[v][d]
    BY <1>1
  <2>2. PICK table : table = request'[v][d].table
    OBVIOUS
  <2>3. WasTrue(table)
    BY <1>3, <2>1, <2>2 DEF TInv
  <2>4. WasTrue(table)'
    BY <2>3, SameRecorded
  <2> QED
    BY <2>2, <2>4 DEF WasTrue
<1> QED
  BY <1>2, <1>3

\* Every step of the server keeps the invariant.
LEMMA ServeT ==
  ASSUME TInv, NEW w \in Window, NEW c \in Connection, Serve(w, c)
  PROVE  TInv'
<1>1. UNCHANGED <<recorded, page, choices>>
  BY DEF Serve, GetFilter, SetFilterByStatus, CheckFilter, QueryTransactions,
         SetTransactionsList, Rendered, GetTransactionsList
<1>2. PICK r : r = request[w][c]
  OBVIOUS
<1>3. /\ r \in {None} \cup Poll \cup Choice
      /\ request \in [Window -> [Connection -> {None} \cup Poll \cup Choice]]
      /\ filterByStatus \in Filter /\ transactionsList \in SUBSET Row
      /\ page \in [Window -> Content]
      /\ r # None => WasTrue(r.table)
      /\ WasTrue(transactionsList)
  BY <1>2 DEF TInv, TypeOK
<1>4. /\ AllTopLevel \in SUBSET Row /\ WasTrue(AllTopLevel)
      /\ \A s : WithStatus(s) \in SUBSET Row /\ WasTrue(WithStatus(s))
  BY QueriesTrue DEF TInv, TypeOK
<1>5. TablesWereTrue'
  BY <1>1 DEF TInv, TablesWereTrue, WasTrue
<1>6. ASSUME NEW s \in Poll \cup Choice, WasTrue(s.table),
             request' = [request EXCEPT ![w][c] = s],
             filterByStatus' \in Filter, transactionsList' \in SUBSET Row,
             WasTrue(transactionsList)'
      PROVE  TInv'
  <2>1. /\ request' \in [Window -> [Connection -> {None} \cup Poll \cup Choice]]
        /\ \A v \in Window : \A d \in Connection :
             request'[v][d] # None => WasTrue(request[v][d].table)'
    <3>1. UNCHANGED recorded
      BY <1>1
    <3>2. s \in {None} \cup Poll \cup Choice
      OBVIOUS
    <3> QED
      BY <1>6, <3>1, <3>2, OneRequest
  <2>2. TypeOK'
    BY <1>1, <1>6, <2>1 DEF TInv, TypeOK
  <2> QED
    BY <1>5, <1>6, <2>1, <2>2 DEF TInv
<1>7. UNCHANGED transactionsList => transactionsList' \in SUBSET Row /\ WasTrue(transactionsList)'
  BY <1>1, <1>3 DEF WasTrue
<1>8. r.stage \in Served \cup {"poll", "choice"} => r \in Poll \cup Choice /\ WasTrue(r.table)
  BY <1>3, RequestShape
<1>9. CASE GetFilter(w, c)
  <2>1. /\ r.stage = "poll" /\ UNCHANGED <<filterByStatus, transactionsList>>
        /\ request' = [request EXCEPT ![w][c] = [r EXCEPT !.stage = "check",
                                                         !.menu = filterByStatus]]
    BY <1>2, <1>3, <1>9 DEF GetFilter, At
  <2>2. r \in Poll /\ WasTrue(r.table)
    BY <1>3, <1>8, <2>1, RequestShape
  <2> DEFINE s == [r EXCEPT !.stage = "check", !.menu = filterByStatus]
  <2>3. s \in Poll /\ s.table = r.table
    BY <1>3, <2>2 DEF Poll
  <2>4. WasTrue(s.table)
    BY <2>2, <2>3
  <2>5. request' = [request EXCEPT ![w][c] = s]
    BY <2>1
  <2> HIDE DEF s
  <2> QED
    BY <1>3, <1>6, <1>7, <2>1, <2>3, <2>4, <2>5
<1>10. ASSUME NEW s \in Served, r \in Poll \cup Choice, WasTrue(r.table), Go(w, c, s),
              filterByStatus' \in Filter, transactionsList' \in SUBSET Row,
              WasTrue(transactionsList)'
       PROVE  TInv'
  <2> DEFINE t == [r EXCEPT !.stage = s]
  <2>1. request' = [request EXCEPT ![w][c] = t]
    BY <1>2, <1>3, <1>10 DEF Go
  <2>2. t \in Poll \cup Choice /\ t.table = r.table
    BY <1>10, RequestGoes
  <2>3. WasTrue(t.table)
    BY <1>10, <2>2
  <2> HIDE DEF t
  <2> QED
    BY <1>6, <1>10, <2>1, <2>2, <2>3
<1>11. CASE SetFilterByStatus(w, c)
  <2>1. /\ r.stage = "choice" /\ UNCHANGED transactionsList
        /\ filterByStatus' = r.choice /\ Go(w, c, "check")
    BY <1>2, <1>11 DEF SetFilterByStatus, At
  <2>2. r \in Choice /\ r.choice \in Filter
    BY <1>3, <2>1, RequestShape DEF Choice
  <2> QED
    BY <1>7, <1>8, <1>10, <2>1, <2>2 DEF Served
<1>12. CASE CheckFilter(w, c)
  <2>1. /\ r.stage = "check" /\ UNCHANGED <<filterByStatus, transactionsList>>
        /\ Go(w, c, "all") \/ Go(w, c, "some")
    BY <1>2, <1>12 DEF CheckFilter, At
  <2> QED
    BY <1>3, <1>7, <1>8, <1>10, <2>1 DEF Served
<1>13. ASSUME NEW s \in Served, r \in Poll \cup Choice, NEW table \in SUBSET Row, WasTrue(table),
              request' = [request EXCEPT ![w][c] = [r EXCEPT !.stage = s, !.table = table]],
              UNCHANGED <<filterByStatus, transactionsList>>
       PROVE  TInv'
  <2> DEFINE t == [r EXCEPT !.stage = s, !.table = table]
  <2>1. t \in Poll \cup Choice /\ t.table = table
    <3>1. CASE r \in Poll
      BY <1>13, <3>1 DEF Poll, Served
    <3>2. CASE r \in Choice
      BY <1>13, <3>2 DEF Choice, Served
    <3> QED
      BY <1>13, <3>1, <3>2
  <2>2. request' = [request EXCEPT ![w][c] = t] /\ WasTrue(t.table)
    BY <1>13, <2>1
  <2> HIDE DEF t
  <2>3. WasTrue(transactionsList)' /\ filterByStatus' \in Filter /\ transactionsList' \in SUBSET Row
    BY <1>3, <1>7, <1>13
  <2>4. WasTrue(t.table)
    BY <2>2
  <2> QED
    BY <1>6, <2>1, <2>2, <2>3, <2>4
<1>14. CASE QueryTransactions(w, c)
  <2>1. /\ r.stage \in Served /\ UNCHANGED <<filterByStatus, transactionsList>>
        /\ \E table \in {AllTopLevel, WithStatus(filterByStatus)} :
             request' = [request EXCEPT ![w][c] = [r EXCEPT !.stage = "queried", !.table = table]]
    <3>1. CASE /\ At(w, c, "all")
               /\ request' = [request EXCEPT ![w][c].stage = "queried",
                                             ![w][c].table = AllTopLevel]
      <4>1. request' = [request EXCEPT ![w][c] =
                          [r EXCEPT !.stage = "queried", !.table = AllTopLevel]]
        BY <1>2, <1>3, <3>1
      <4> QED
        BY <1>2, <1>14, <3>1, <4>1 DEF QueryTransactions, At, Served
    <3>2. CASE /\ At(w, c, "some")
               /\ request' = [request EXCEPT ![w][c].stage = "queried",
                                             ![w][c].table = WithStatus(filterByStatus)]
      <4>1. request' = [request EXCEPT ![w][c] =
                          [r EXCEPT !.stage = "queried",
                                    !.table = WithStatus(filterByStatus)]]
        BY <1>2, <1>3, <3>2
      <4> QED
        BY <1>2, <1>14, <3>2, <4>1 DEF QueryTransactions, At, Served
    <3> QED
      BY <1>14, <3>1, <3>2 DEF QueryTransactions
  <2>2. PICK table \in {AllTopLevel, WithStatus(filterByStatus)} :
          request' = [request EXCEPT ![w][c] = [r EXCEPT !.stage = "queried", !.table = table]]
    BY <2>1
  <2>3. table \in SUBSET Row /\ WasTrue(table)
    BY <1>4
  <2>4. "queried" \in Served
    BY DEF Served
  <2> QED
    BY <1>8, <1>13, <2>1, <2>2, <2>3, <2>4
<1>15. CASE SetTransactionsList(w, c)
  <2>1. /\ r.stage = "queried" /\ UNCHANGED filterByStatus
        /\ transactionsList' = r.table /\ Go(w, c, "list")
    BY <1>2, <1>15 DEF SetTransactionsList, At
  <2>2. r \in Poll \cup Choice /\ WasTrue(r.table) /\ r.table \in SUBSET Row
    BY <1>8, <2>1 DEF Served, Poll, Choice
  <2>3. WasTrue(transactionsList)'
    BY <1>1, <2>1, <2>2 DEF WasTrue
  <2> QED
    BY <1>3, <1>10, <2>1, <2>2, <2>3 DEF Served
<1>16. CASE Rendered(w, c)
  <2>1. /\ r.stage = "list" /\ UNCHANGED <<filterByStatus, transactionsList>>
    BY <1>2, <1>16 DEF Rendered, At
  <2>2. {} \in SUBSET Row /\ WasTrue({})
    BY QueriesTrue DEF TInv, TypeOK
  <2>3. CASE request' = [request EXCEPT ![w][c].stage = "answered", ![w][c].table = {}]
    <3>1. request' = [request EXCEPT ![w][c] = [r EXCEPT !.stage = "answered", !.table = {}]]
      BY <1>2, <1>3, <2>3
    <3>2. "answered" \in Served /\ r \in Poll \cup Choice
      BY <1>8, <2>1 DEF Served
    <3> QED
      BY <1>13, <2>1, <2>2, <3>1, <3>2
  <2>4. CASE request' = [request EXCEPT ![w][c].stage = "check",
                                        ![w][c].rendered = TRUE, ![w][c].table = {}]
    <3> DEFINE t == [r EXCEPT !.stage = "check", !.rendered = TRUE, !.table = {}]
    <3>1. request' = [request EXCEPT ![w][c] = t]
      BY <1>2, <1>3, <2>4
    <3>2. r \in Poll \cup Choice
      BY <1>8, <2>1 DEF Served
    <3>3. t \in Poll \cup Choice /\ t.table = {}
      <4>1. CASE r \in Poll
        BY <4>1 DEF Poll
      <4>2. CASE r \in Choice
        BY <4>2 DEF Choice
      <4> QED
        BY <3>2, <4>1, <4>2
    <3> HIDE DEF t
    <3>4. WasTrue(t.table)
      BY <2>2, <3>3
    <3>5. WasTrue(transactionsList)' /\ filterByStatus' \in Filter
          /\ transactionsList' \in SUBSET Row
      BY <1>3, <1>7, <2>1
    <3> QED
      BY <1>6, <3>1, <3>3, <3>4, <3>5
  <2> QED
    BY <1>16, <2>3, <2>4 DEF Rendered
<1>17. CASE GetTransactionsList(w, c)
  <2>1. /\ r.stage = "list" /\ UNCHANGED <<filterByStatus, transactionsList>>
        /\ request' = [request EXCEPT ![w][c] =
                         [r EXCEPT !.stage = "answered", !.table = transactionsList]]
    BY <1>2, <1>3, <1>17 DEF GetTransactionsList, At
  <2>2. "answered" \in Served /\ r \in Poll \cup Choice
    BY <1>8, <2>1 DEF Served
  <2> QED
    BY <1>3, <1>13, <2>1, <2>2
<1> QED
  BY <1>9, <1>11, <1>12, <1>14, <1>15, <1>16, <1>17 DEF Serve

\* What is sent or has ended has no table yet, or none any more.
LEMMA SentT ==
  ASSUME TInv, NEW w \in Window, NEW c \in Connection,
         NEW r \in {None} \cup Poll \cup Choice, r # None => r.table = {},
         request' = [request EXCEPT ![w][c] = r],
         UNCHANGED <<recorded, filterByStatus, transactionsList>>,
         page' \in [Window -> Content],
         choices' \in 0 .. MaxChoices,
         \A v \in Window : WasTrue(page[v].table)'
  PROVE  TInv'
<1>1. WasTrue({})
  BY DEF WasTrue
<1>2. UNCHANGED recorded /\ (r # None => WasTrue(r.table))
  BY <1>1
<1>3. /\ request' \in [Window -> [Connection -> {None} \cup Poll \cup Choice]]
      /\ \A v \in Window : \A d \in Connection :
           request'[v][d] # None => WasTrue(request[v][d].table)'
  BY <1>2, OneRequest
<1>4. TypeOK'
  BY <1>3 DEF TInv, TypeOK
<1>5. WasTrue(transactionsList)'
  BY DEF TInv, WasTrue
<1> QED
  BY <1>3, <1>4, <1>5 DEF TInv, TablesWereTrue

\* So do the steps of the browser, and the answers, whether they arrive or not.
LEMMA BrowserT ==
  ASSUME TInv, NEW w \in Window, NEW c \in Connection,
         \/ Load(w, c) \/ \E f \in Filter : Choose(w, c, f)
         \/ Replace(w, c) \/ Update(w, c) \/ Fail(w, c)
  PROVE  TInv'
<1>1. /\ page \in [Window -> Content]
      /\ request \in [Window -> [Connection -> {None} \cup Poll \cup Choice]]
      /\ request[w][c] \in {None} \cup Poll \cup Choice
      /\ choices \in 0 .. MaxChoices /\ MaxChoices \in Nat
      /\ \A v \in Window : WasTrue(page[v].table)
      /\ request[w][c] # None => WasTrue(request[w][c].table)
  BY TxListAssumption DEF TInv, TypeOK, TablesWereTrue, TxListAssumption
<1>2. UNCHANGED <<recorded, filterByStatus, transactionsList>>
  BY DEF Load, Choose, Replace, Update, Fail
<1>3. None \in {None} \cup Poll \cup Choice
  OBVIOUS
<1>4. UNCHANGED page => /\ page' \in [Window -> Content]
                        /\ \A v \in Window : WasTrue(page[v].table)'
  BY <1>1, <1>2 DEF WasTrue
<1>5. CASE Load(w, c)
  <2> DEFINE r == [stage |-> "poll", menu |-> "ALL", rendered |-> FALSE, table |-> {}]
  <2>1. r \in Poll /\ r.table = {}
    BY DEF Poll, Filter
  <2>2. request' = [request EXCEPT ![w][c] = r] /\ UNCHANGED <<page, choices>>
    BY <1>5 DEF Load, Send
  <2> HIDE DEF r
  <2> QED
    BY <1>1, <1>2, <1>4, <2>1, <2>2, SentT
<1>6. ASSUME NEW f \in Filter, Choose(w, c, f) PROVE TInv'
  <2> DEFINE r == [stage |-> "choice", choice |-> f, rendered |-> FALSE, table |-> {}]
  <2>1. r \in Choice /\ r.table = {}
    BY DEF Choice
  <2>2. /\ request' = [request EXCEPT ![w][c] = r]
        /\ page' = [page EXCEPT ![w].menu = f]
        /\ choices' = choices + 1 /\ choices < MaxChoices
    BY <1>6 DEF Choose, Send
  <2> HIDE DEF r
  <2>3. page' \in [Window -> Content]
    BY <1>1, <2>2 DEF Content
  <2>4. \A v \in Window : page'[v].table = page[v].table
    BY <1>1, <2>2
  <2>5. \A v \in Window : WasTrue(page[v].table)'
    BY <1>1, <1>2, <2>4 DEF WasTrue
  <2>6. choices' \in 0 .. MaxChoices
    BY <1>1, <2>2
  <2> QED
    BY <1>2, <2>1, <2>2, <2>3, <2>5, <2>6, SentT
<1>7. ASSUME End(w, c), UNCHANGED choices,
             page' \in [Window -> Content],
             \A v \in Window : page'[v].table \in {page[v].table, request[w][c].table},
             request[w][c] # None
      PROVE  TInv'
  <2>1. request' = [request EXCEPT ![w][c] = None]
    BY <1>7 DEF End
  <2>2. \A v \in Window : WasTrue(page[v].table)'
    BY <1>1, <1>2, <1>7 DEF WasTrue
  <2>3. choices' \in 0 .. MaxChoices
    BY <1>1, <1>7
  <2> QED
    BY <1>2, <1>3, <1>7, <2>1, <2>2, <2>3, SentT
<1>8. At(w, c, "answered") =>
        request[w][c] \in Poll \cup Choice /\ request[w][c] # None
          /\ request[w][c].table \in SUBSET Row
  BY <1>1, RequestShape DEF At, Served, Poll, Choice
<1>9. CASE Replace(w, c)
  <2>1. /\ page' = [page EXCEPT ![w] = ContentOf(w, c)] /\ End(w, c) /\ UNCHANGED choices
        /\ At(w, c, "answered") /\ "menu" \in DOMAIN request[w][c]
    BY <1>9 DEF Replace
  <2>2. request[w][c].menu \in Filter /\ request[w][c].rendered \in BOOLEAN
    <3>1. ASSUME NEW r \in Choice PROVE "menu" \notin DOMAIN r
      BY DEF Choice
    <3>2. request[w][c] \in Poll
      BY <1>8, <2>1, <3>1
    <3> QED
      BY <3>2 DEF Poll
  <2>3. /\ ContentOf(w, c) \in Content
        /\ ContentOf(w, c).table = request[w][c].table
    BY <1>8, <2>1, <2>2 DEF ContentOf, Content
  <2>4. /\ page' \in [Window -> Content]
        /\ \A v \in Window : page'[v].table \in {page[v].table, request[w][c].table}
    BY <1>1, <2>1, <2>3
  <2> QED
    BY <1>7, <1>8, <2>1, <2>4
<1>10. CASE Update(w, c)
  <2> DEFINE t == IF page[w].rendered /\ request[w][c].rendered
                  THEN request[w][c].table ELSE page[w].table
  <2>1. /\ page' = [page EXCEPT ![w].table = t] /\ End(w, c) /\ UNCHANGED choices
        /\ At(w, c, "answered")
    BY <1>10 DEF Update
  <2>2. t \in SUBSET Row /\ t \in {page[w].table, request[w][c].table}
    BY <1>1, <1>8, <2>1 DEF Content
  <2> HIDE DEF t
  <2>3. /\ page' \in [Window -> Content]
        /\ \A v \in Window : page'[v].table \in {page[v].table, request[w][c].table}
    BY <1>1, <2>1, <2>2 DEF Content
  <2> QED
    BY <1>7, <1>8, <2>1, <2>3
<1>11. CASE Fail(w, c)
  <2>1. /\ End(w, c) /\ UNCHANGED <<page, choices>>
        /\ request[w][c].stage \in {"choice", "answered"}
    BY <1>11 DEF Fail
  <2>2. request[w][c] # None
    BY <1>1, <2>1, RequestShape DEF Served
  <2> QED
    BY <1>1, <1>7, <2>1, <2>2
<1> QED
  BY <1>5, <1>6, <1>9, <1>10, <1>11

\* The invariant holds.
LEMMA TInvariant == Spec => []TInv
<1>1. Init => TInv
  <2> SUFFICES ASSUME Init PROVE TInv
    OBVIOUS
  <2>1. TypeOK
    BY TxListAssumption DEF Init, TypeOK, Filter, Content, TxListAssumption
  <2> QED
    BY <2>1 DEF Init, TInv, TablesWereTrue, WasTrue
<1>2. TInv /\ [Next]_vars => TInv'
  <2> SUFFICES ASSUME TInv, [Next]_vars PROVE TInv'
    OBVIOUS
  <2>1. ASSUME NEW t \in Tx, Record(t) PROVE TInv'
    <3>1. UNCHANGED <<filterByStatus, transactionsList, request, page, choices>>
      BY <2>1 DEF Record
    <3>2. recorded \in [Tx -> Status \cup {"none", "subordinate"}]
          /\ request \in [Window -> [Connection -> {None} \cup Poll \cup Choice]]
          /\ page \in [Window -> Content]
          /\ transactionsList \in SUBSET Row
      BY DEF TInv, TypeOK
    <3>3. recorded' \in [Tx -> Status \cup {"none", "subordinate"}]
      BY <2>1, <3>2 DEF Record, Status
    <3>4. TypeOK'
      BY <3>1, <3>3 DEF TInv, TypeOK
    <3>5. ASSUME NEW table \in SUBSET Row, WasTrue(table) PROVE WasTrue(table)'
      BY <2>1, <3>2, <3>5, RecordKeeps
    <3>6. WasTrue(transactionsList)'
      <4>1. PICK table : table = transactionsList
        OBVIOUS
      <4>2. WasTrue(table)'
        BY <3>2, <3>5, <4>1 DEF TInv
      <4> QED
        BY <3>1, <4>1, <4>2 DEF WasTrue
    <3>7. ASSUME NEW v \in Window, NEW d \in Connection, request'[v][d] # None
          PROVE  WasTrue(request[v][d].table)'
      <4>1. PICK table : table = request[v][d].table
        OBVIOUS
      <4>2. table \in SUBSET Row
        <5>1. request[v][d] \in Poll \cup Choice
          BY <3>1, <3>2, <3>7
        <5> QED
          BY <4>1, <5>1 DEF Poll, Choice
      <4>3. WasTrue(table)
        BY <3>1, <3>7, <4>1 DEF TInv
      <4>4. WasTrue(table)'
        BY <3>5, <4>2, <4>3
      <4> QED
        BY <3>1, <4>1, <4>4 DEF WasTrue
    <3>8. ASSUME NEW v \in Window PROVE WasTrue(page[v].table)'
      <4>1. PICK table : table = page[v].table
        OBVIOUS
      <4>2. table \in SUBSET Row /\ WasTrue(table)
        BY <3>2, <4>1 DEF TInv, TablesWereTrue, Content
      <4>3. WasTrue(table)'
        BY <3>5, <4>2
      <4> QED
        BY <3>1, <4>1, <4>3 DEF WasTrue
    <3> QED
      BY <3>4, <3>6, <3>7, <3>8 DEF TInv, TablesWereTrue
  <2>2. ASSUME NEW w \in Window, NEW c \in Connection, Serve(w, c) PROVE TInv'
    BY <2>2, ServeT
  <2>3. ASSUME NEW w \in Window, NEW c \in Connection,
               \/ Load(w, c) \/ \E f \in Filter : Choose(w, c, f)
               \/ Replace(w, c) \/ Update(w, c) \/ Fail(w, c)
        PROVE  TInv'
    BY <2>3, BrowserT
  <2>4. CASE UNCHANGED vars
    BY <2>4 DEF vars, TInv, TypeOK, TablesWereTrue, WasTrue, AllTopLevel
  <2> QED
    BY <2>1, <2>2, <2>3, <2>4 DEF Next
<1> QED
  BY <1>1, <1>2, PTL DEF Spec

\* The fields of the bean, the requests and the windows keep their types,
\* however the requests of a session interleave.
THEOREM TypeCorrect == Spec => []TypeOK
<1>1. TInv => TypeOK
  BY DEF TInv
<1> QED
  BY <1>1, TInvariant, PTL

\* A window shows the result of one query, true when it was made, whichever
\* request it was made for and however late it comes (TablesWereTrue).
THEOREM TablesWereTrueCorrect == Spec => []TablesWereTrue
<1>1. TInv => TablesWereTrue
  BY DEF TInv
<1> QED
  BY <1>1, TInvariant, PTL

=============================================================================
