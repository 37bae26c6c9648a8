-------------------------------- MODULE TxList --------------------------------
(***************************************************************************)
(* The list page: the timer that loads it again and again (txlist.xhtml),   *)
(* the filter the user sets, and TransactionListBean, the session's bean    *)
(* behind all of its windows.                                               *)
(*                                                                          *)
(* The timer does not wait for answers, answers may overtake each other,    *)
(* and some never come.  A poll replaces the whole content of a window, the *)
(* answer to a choice of the filter only its table.  Requests of one        *)
(* session are served at the same time and share the fields of the bean.    *)
(***************************************************************************)
EXTENDS Naturals

CONSTANTS
  Tx,          \* transactions
  Window,      \* windows of one session
  Connection,  \* bound: requests of a window that are under way at once
  MaxChoices   \* bound: how often the user sets the filter

ASSUME TxListAssumption == MaxChoices \in Nat

\* Of Status: one that changes, and one that lasts.
Status == {"IN_FLIGHT", "COMMIT"}

\* "ALL": the item without a value, a filter that is null
Filter == Status \cup {"ALL"}

VARIABLES
  recorded,  \* recorded[t]: the status of t, if it is a top-level transaction
  filterByStatus, transactionsList,  \* fields of the bean
  request,   \* request[w][c]: what is under way on connection c of window w
  page,      \* page[w]: what the menu and the table of w show
  choices    \* how often the filter was set

vars == <<recorded, filterByStatus, transactionsList, request, page, choices>>

Row == [tx : Tx, status : Status]

\* A poll or the choice of a filter, how far it has come, and what has been
\* rendered for it.
None == [stage |-> "none"]
Poll == [stage : {"poll", "check", "all", "some", "queried", "list", "answered"},
         menu : Filter, rendered : BOOLEAN, table : SUBSET Row]
Choice == [stage : {"choice", "check", "all", "some", "queried", "list", "answered"},
           choice : Filter, rendered : BOOLEAN, table : SUBSET Row]

\* The menu and the table of a window, if it has a table: an empty list renders
\* none.
Content == [menu : Filter, rendered : BOOLEAN, table : SUBSET Row]

TypeOK ==
  /\ recorded \in [Tx -> Status \cup {"none", "subordinate"}]
  /\ filterByStatus \in Filter
  /\ transactionsList \in SUBSET Row
  /\ request \in [Window -> [Connection -> {None} \cup Poll \cup Choice]]
  /\ page \in [Window -> Content]
  /\ choices \in 0 .. MaxChoices

-----------------------------------------------------------------------------
(* The monitors: a transaction begins, ends, or turns out to be a part of   *)
(* another one.                                                             *)

Record(t) ==
  /\ \/ recorded[t] = "none" /\ recorded' = [recorded EXCEPT ![t] = "IN_FLIGHT"]
     \/ recorded[t] = "IN_FLIGHT" /\ recorded' = [recorded EXCEPT ![t] = "COMMIT"]
     \/ recorded[t] \in Status /\ recorded' = [recorded EXCEPT ![t] = "subordinate"]
  /\ UNCHANGED <<filterByStatus, transactionsList, request, page, choices>>

\* Variant with a bug: subordinates are listed too.
AllTopLevelAndBelow ==
  {[tx |-> t, status |-> recorded[t]] : t \in {x \in Tx : recorded[x] # "none"}}

\* findAllTopLevelTransactions()
AllTopLevel ==
  {[tx |-> t, status |-> recorded[t]] : t \in {x \in Tx : recorded[x] \in Status}}

\* findAllTopLevelTransactionsWithStatus(); no status equals null.
WithStatus(s) == {r \in AllTopLevel : r.status = s}

-----------------------------------------------------------------------------
(* The browser sends.                                                       *)

Send(w, c, r) ==
  /\ request[w][c] = None
  /\ request' = [request EXCEPT ![w][c] = r]

\* setInterval(): $('#content').load(document.URL + ' #content'), whatever has
\* become of the last one
Load(w, c) ==
  /\ Send(w, c, [stage |-> "poll", menu |-> "ALL", rendered |-> FALSE, table |-> {}])
  /\ UNCHANGED <<recorded, filterByStatus, transactionsList, page, choices>>

\* The user sets the menu.  One request of this kind is sent at a time.
Choose(w, c, f) ==
  /\ choices < MaxChoices /\ page[w].menu # f
  /\ \A d \in Connection : "choice" \notin DOMAIN request[w][d]
  /\ Send(w, c, [stage |-> "choice", choice |-> f, rendered |-> FALSE, table |-> {}])
  /\ page' = [page EXCEPT ![w].menu = f]
  /\ choices' = choices + 1
  /\ UNCHANGED <<recorded, filterByStatus, transactionsList>>

-----------------------------------------------------------------------------
(* The server.                                                              *)

At(w, c, stage) == request[w][c].stage = stage
Go(w, c, stage) == request' = [request EXCEPT ![w][c].stage = stage]

\* A poll renders the menu first.
GetFilter(w, c) ==
  /\ At(w, c, "poll")
  /\ request' = [request EXCEPT ![w][c].stage = "check",
                                ![w][c].menu = filterByStatus]
  /\ UNCHANGED <<recorded, filterByStatus, transactionsList, page, choices>>

\* A choice sets the filter first.
SetFilterByStatus(w, c) ==
  /\ At(w, c, "choice")
  /\ filterByStatus' = request[w][c].choice
  /\ Go(w, c, "check")
  /\ UNCHANGED <<recorded, transactionsList, page, choices>>

\* The page asks for the list twice, for `rendered` (txlist.xhtml:45) and for
\* `value` (43), and each time getTransactionsList() calls filter(), which reads
\* the field to see whether it is null ...
CheckFilter(w, c) ==
  /\ At(w, c, "check")
  /\ Go(w, c, IF filterByStatus = "ALL" THEN "all" ELSE "some")
  /\ UNCHANGED <<recorded, filterByStatus, transactionsList, page, choices>>

\* ... and again for the query ...
QueryTransactions(w, c) ==
  /\ \/ At(w, c, "all")
        /\ request' = [request EXCEPT ![w][c].stage = "queried",
                                      ![w][c].table = AllTopLevel]
     \/ At(w, c, "some")
        /\ request' = [request EXCEPT ![w][c].stage = "queried",
                                      ![w][c].table = WithStatus(filterByStatus)]
  /\ UNCHANGED <<recorded, filterByStatus, transactionsList, page, choices>>

\* Variant with a bug: the result is added to the list, which nothing empties.
AddToTransactionsList(w, c) ==
  /\ At(w, c, "queried")
  /\ transactionsList' = transactionsList \cup request[w][c].table
  /\ Go(w, c, "list")
  /\ UNCHANGED <<recorded, filterByStatus, page, choices>>

\* ... whose result it assigns.
SetTransactionsList(w, c) ==
  /\ At(w, c, "queried")
  /\ transactionsList' = request[w][c].table
  /\ Go(w, c, "list")
  /\ UNCHANGED <<recorded, filterByStatus, page, choices>>

\* getTransactionsList() returns the field, for `rendered`: the table is left out
\* if it is empty, ...
Rendered(w, c) ==
  /\ At(w, c, "list") /\ ~request[w][c].rendered
  /\ IF transactionsList = {}
     THEN request' = [request EXCEPT ![w][c].stage = "answered",
                                     ![w][c].table = {}]
     ELSE request' = [request EXCEPT ![w][c].stage = "check",
                                     ![w][c].rendered = TRUE,
                                     ![w][c].table = {}]
  /\ UNCHANGED <<recorded, filterByStatus, transactionsList, page, choices>>

\* ... and for `value`: what the table holds is the list by then.
GetTransactionsList(w, c) ==
  /\ At(w, c, "list") /\ request[w][c].rendered
  /\ request' = [request EXCEPT ![w][c].stage = "answered",
                                ![w][c].table = transactionsList]
  /\ UNCHANGED <<recorded, filterByStatus, transactionsList, page, choices>>

Serve(w, c) ==
  \/ GetFilter(w, c) \/ SetFilterByStatus(w, c) \/ CheckFilter(w, c)
  \/ QueryTransactions(w, c) \/ SetTransactionsList(w, c)
  \/ Rendered(w, c) \/ GetTransactionsList(w, c)

-----------------------------------------------------------------------------
(* The answers.                                                             *)

End(w, c) == request' = [request EXCEPT ![w][c] = None]

\* Variant with a bug: a poll loads the table alone.
TableOf(w, c) ==
  [menu |-> page[w].menu, rendered |-> request[w][c].rendered, table |-> request[w][c].table]

ContentOf(w, c) ==
  [menu |-> request[w][c].menu, rendered |-> request[w][c].rendered,
   table |-> request[w][c].table]

\* The content of the window is replaced.
Replace(w, c) ==
  /\ At(w, c, "answered") /\ "menu" \in DOMAIN request[w][c]
  /\ page' = [page EXCEPT ![w] = ContentOf(w, c)]
  /\ End(w, c)
  /\ UNCHANGED <<recorded, filterByStatus, transactionsList, choices>>

\* The table is replaced if there was one and there is a new one.
Update(w, c) ==
  /\ At(w, c, "answered") /\ "choice" \in DOMAIN request[w][c]
  /\ page' = [page EXCEPT ![w].table =
                IF page[w].rendered /\ request[w][c].rendered
                THEN request[w][c].table ELSE @]
  /\ End(w, c)
  /\ UNCHANGED <<recorded, filterByStatus, transactionsList, choices>>

\* An answer does not arrive, what the server did remains; or a choice does not
\* arrive.  (A poll that does not is like one that is not sent.)
Fail(w, c) ==
  /\ request[w][c].stage \in {"choice", "answered"}
  /\ End(w, c)
  /\ UNCHANGED <<recorded, filterByStatus, transactionsList, page, choices>>

-----------------------------------------------------------------------------
Init ==
  /\ recorded = [t \in Tx |-> "none"]
  /\ filterByStatus = "ALL"
  /\ transactionsList = {}
  /\ request = [w \in Window |-> [c \in Connection |-> None]]
  /\ page = [w \in Window |-> [menu |-> "ALL", rendered |-> FALSE, table |-> {}]]
  /\ choices = 0

Next ==
  \/ \E t \in Tx : Record(t)
  \/ \E w \in Window : \E c \in Connection :
       \/ Load(w, c) \/ \E f \in Filter : Choose(w, c, f)
       \/ Serve(w, c)
       \/ Replace(w, c) \/ Update(w, c) \/ Fail(w, c)

Spec == Init /\ [][Next]_vars

\* The timer runs, the server answers, no answer is under way for ever, and
\* not every poll of a window fails.
Fairness ==
  \A w \in Window :
    /\ SF_vars(\E c \in Connection : Replace(w, c))
    /\ \A c \in Connection :
         /\ WF_vars(Load(w, c))
         /\ WF_vars(Serve(w, c) \/ Replace(w, c) \/ Update(w, c))

FairSpec == Spec /\ Fairness

-----------------------------------------------------------------------------
(* Properties.                                                              *)

\* The statuses that a transaction may have had
Had(s) ==
  CASE s = "none" -> {}
    [] s = "IN_FLIGHT" -> {"IN_FLIGHT"}
    [] OTHER -> Status

\* A table of one moment: a transaction has one row in it, and the row is true
\* or was.
WasTrue(table) ==
  \A r \in table : /\ r.status \in Had(recorded[r.tx])
                   /\ \A q \in table : q.tx = r.tx => q = r

\* Whatever answer overtakes which, and whichever request has set the list that
\* another one renders: a window shows the result of one query, with no row of
\* a status that the monitors have not recorded, and none of two lists in one
\* table (TransactionListBean:34-48, txlist.xhtml:88-97).
TablesWereTrue == \A w \in Window : WasTrue(page[w].table)

Matches(w) ==
  /\ page[w].menu = filterByStatus
  /\ page[w].table = IF filterByStatus = "ALL" THEN AllTopLevel
                     ELSE WithStatus(filterByStatus)
  /\ page[w].rendered = (page[w].table # {})

\* On the way the page may show an old list after a newer one, a menu and a
\* table of two filters, the list of another window's filter, or no rows at
\* all.  None of it lasts: when the monitors and the user have come to rest,
\* every window comes to show the filter and what is recorded, and keeps to it
\* (txlist.xhtml:88-97, TransactionListBean:34-48).
PageSettles == <>[](\A w \in Window : Matches(w))

=============================================================================
