------------------------------- MODULE TxGraph --------------------------------
(***************************************************************************)
(* The page of a transaction: what the web application reads of one         *)
(* distributed transaction while the monitors are still recording it        *)
(* (TransactionInfoBean, GraphPlotterBean), and how the browser draws it    *)
(* (infoviz-graph.js with the Spacetree of JIT, see module Spacetree).      *)
(*                                                                          *)
(* Every call of DataAccessObject has an entity manager of its own, and its *)
(* eager collections come by one query after the other: each query is a     *)
(* step.  The page is asked for once, at any time; its json does not change *)
(* afterwards.  init() runs when the page is loaded, with the modal window  *)
(* hidden, and whenever the modal is shown.                                 *)
(***************************************************************************)
EXTENDS Spacetree, SequencesExt

CONSTANTS
  Branch,    \* branches of the transaction, by row id; they have one txuid
  NoBranch,  \* no row
  Caller,    \* Caller[b]: the branch that called b, or NoBranch
  Resource,  \* jndi names of resource managers
  Names,     \* Names[b]: the resources that b enlists
  MaxShown   \* bound: how often the modal window is shown

ASSUME TxGraphAssumption ==
  /\ NoBranch \notin Branch
  /\ IsFiniteSet(Branch) /\ IsFiniteSet(Resource)
  /\ Branch \cap Resource = {}
  /\ Caller \in [Branch -> Branch \cup {NoBranch}]
  /\ Names \in [Branch -> SUBSET Resource]
  /\ MaxShown \in Nat

\* No branch is called by one below it.
ASSUME CallsAssumption ==
  \E depth \in [Branch -> 0 .. Cardinality(Branch)] :
    \A b \in Branch : Caller[b] # NoBranch => depth[b] = depth[Caller[b]] + 1

VARIABLES
  row,           \* row[b]: whether Transaction has the row of b
  subordinates,  \* subordinates[b]: the rows linked under b, a bag without an order
  participants,  \* participants[b][r]: what is recorded of r in b
  step,          \* how far the request for the page has come
  asked,         \* the branch of the parameter txid; NoBranch: txuid is given
  crumbs,        \* TransactionInfoBean.getReverseHierarchy()
  top,           \* the field GraphPlotterBean.tx
  pending,       \* rows whose eager collections have not come yet
  loaded,        \* entities of the page: their collections as they came
  json,          \* the graph in the page; empty before it is there
  plots,         \* plots[i]: the i-th Spacetree that init() made
  labels         \* labels[x]: the label element of x in the document

dbVars == <<row, subordinates, participants>>
requestVars == <<step, asked, crumbs, top, pending, loaded>>
pageVars == <<json, plots, labels>>
vars == <<dbVars, requestVars, pageVars>>

\* What the monitors record of the participants (see Commitment)
Votes == INSTANCE Ballot WITH record <- participants

\* The branches with a participant
Enlisted == {b \in Branch : \E r \in Resource : participants[b][r] # Votes!Absent}

\* What they record of the branches (see Hierarchy)
Rows == INSTANCE Forest WITH enlisted <- Enlisted

Entity ==
  [subordinates : SUBSET Branch, participants : [Resource -> Votes!Record]]
NotLoaded == [subordinates |-> {}, participants |-> [r \in Resource |-> Votes!Absent]]

Stages == <<"contract", "move", "expand", "done">>
Rank(stage) == CHOOSE k \in DOMAIN Stages : Stages[k] = stage

\* Types of the tables, of the request and of what the browser shows.
TypeOK ==
  /\ row \in [Branch -> {"none", "there", "gone"}]
  /\ subordinates \in [Branch -> SUBSET Branch]
  /\ participants \in [Branch -> [Resource -> Votes!Record]]
  /\ step \in {"idle", "info", "find", "top", "load", "shown",
              "missing", "rootless"}
  /\ asked \in Branch \cup {NoBranch}
  /\ crumbs \subseteq Branch
  /\ top \in Branch \cup {NoBranch}
  /\ pending \subseteq Branch
  /\ loaded \in [Branch -> Entity]
  /\ \A i \in DOMAIN json : json[i].id \in Branch \cup Resource
  /\ Len(plots) <= 1 + MaxShown
  /\ \A i \in DOMAIN plots :
       /\ plots[i].stage \in Range(Stages)
       /\ Range(plots[i].canvas.colour) \subseteq Colour
  /\ labels \in [Branch \cup Resource -> {"absent", "hidden", "shown"}]

-----------------------------------------------------------------------------
(* The monitors, as far as a page can see them: their rows are a Forest and *)
(* their votes a Ballot.  That the line of a Begin is lost is told of each  *)
(* branch on its own: to a page its row just does not come.                 *)

Monitor(b) ==
  /\ \/ /\ UNCHANGED participants
        /\ Rows!Begin(b) \/ Rows!Miss({b}) \/ Rows!Link(b) \/ Rows!Cleanup(b)
     \/ (\E r \in Names[b] : Votes!Enlist(b, r)) /\ Rows!Enlist(b)
     \/ (\E r \in Resource : Votes!Answer(b, r)) /\ UNCHANGED <<row, subordinates>>
  /\ UNCHANGED <<requestVars, pageVars>>

-----------------------------------------------------------------------------
(* The server: the request for txinfo.jsf.                                  *)

\* Variant with a bug: one of several answers is taken.
TopLevelAny ==
  IF \E b \in Branch : Rows!There(b) /\ ~ Rows!Linked(b)
  THEN CHOOSE b \in Branch : Rows!There(b) /\ ~ Rows!Linked(b)
  ELSE NoBranch

\* findTopLevelTransaction(txuid): null if there is none or more than one
TopLevel ==
  IF Cardinality({b \in Branch : Rows!There(b) /\ ~ Rows!Linked(b)}) = 1
  THEN CHOOSE b \in Branch : Rows!There(b) /\ ~ Rows!Linked(b)
  ELSE NoBranch

Parent(b) ==
  IF Rows!Linked(b) THEN CHOOSE a \in Branch : b \in subordinates[a] ELSE NoBranch

\* Variant with a bug: the walk takes the null at its end along.
AncestorsAndNull(b) ==
  LET up[k \in 0 .. Cardinality(Branch)] ==
        IF k = 0 THEN b ELSE LET below == up[k - 1]
                             IN  IF below = NoBranch THEN NoBranch
                                 ELSE Parent(below)
  IN  {up[k] : k \in 1 .. Cardinality(Branch)}

\* getReverseHierarchy(): the walk to the root
Ancestors(b) ==
  LET up[k \in 0 .. Cardinality(Branch)] ==
        IF k = 0 THEN b ELSE LET below == up[k - 1]
                             IN  IF below = NoBranch THEN NoBranch
                                 ELSE Parent(below)
  IN  {up[k] : k \in 1 .. Cardinality(Branch)} \ {NoBranch}

\* The page is asked for with txid = b, or with txuid.
Ask(b) ==
  /\ step = "idle"
  /\ step' = "info"
  /\ asked' = b
  /\ UNCHANGED <<crumbs, top, pending, loaded, dbVars, pageVars>>

\* TransactionInfoBean.init(), and what getReverseHierarchy() will walk
InitInfo ==
  /\ step = "info"
  /\ LET tx == IF asked = NoBranch THEN TopLevel
               ELSE IF Rows!There(asked) THEN asked ELSE NoBranch
     IN  IF tx = NoBranch
         THEN step' = "missing" /\ UNCHANGED crumbs
         ELSE /\ step' = IF asked = NoBranch THEN "top" ELSE "find"
              /\ crumbs' = Ancestors(tx)
  /\ UNCHANGED <<asked, top, pending, loaded, dbVars, pageVars>>

\* The collections of tx and of all below it are loaded.
Enter(tx) ==
  /\ top' = tx
  /\ pending' = {tx}
  /\ step' = "load"

\* GraphPlotterBean.init(): the row of txid, and whether it has a parent
FindAsked ==
  /\ step = "find"
  /\ IF Rows!There(asked) /\ ~ Rows!Linked(asked)
     THEN Enter(asked)
     ELSE /\ step' = IF Rows!There(asked) THEN "top" ELSE "missing"
          /\ UNCHANGED <<top, pending>>
  /\ UNCHANGED <<asked, crumbs, loaded, dbVars, pageVars>>

\* GraphPlotterBean.init(): the root; with null there is nothing to plot.
FindTop ==
  /\ step = "top"
  /\ IF TopLevel # NoBranch
     THEN Enter(TopLevel)
     ELSE step' = "rootless" /\ UNCHANGED <<top, pending>>
  /\ UNCHANGED <<asked, crumbs, loaded, dbVars, pageVars>>

\* The eager collections of one entity
Load(b) ==
  /\ step = "load" /\ b \in pending
  /\ loaded' = [loaded EXCEPT ![b] = [subordinates |-> subordinates[b],
                                      participants |-> participants[b]]]
  /\ pending' = (pending \ {b}) \cup subordinates[b]
  /\ UNCHANGED <<step, asked, crumbs, top, dbVars, pageVars>>

-----------------------------------------------------------------------------
(* The json of the page.                                                    *)

ParticipantNode(b, r) ==
  [id |-> r, up |-> b,
   data |-> [isResource |-> TRUE, vote |-> loaded[b].participants[r].vote,
             xaException |-> loaded[b].participants[r].xaException]]

TransactionNode(b, up) ==
  [id |-> b, up |-> up,
   data |-> [isResource |-> FALSE, vote |-> "none", xaException |-> FALSE]]

ParticipantsOf(b) == {r \in Resource : loaded[b].participants[r] # Votes!Absent}

\* Variant with a bug: the subordinates are added to the root.
JsonGraphFlat ==
  LET populate[b \in Branch] ==
        <<TransactionNode(b, IF b = top THEN NoBranch ELSE top)>>
          \o SetToSeq({ParticipantNode(b, r) : r \in ParticipantsOf(b)})
          \o FlattenSeq([k \in DOMAIN SetToSeq(loaded[b].subordinates) |->
                           populate[SetToSeq(loaded[b].subordinates)[k]]])
  IN  populate[top]

\* Node.populate(): the transaction, its participants, then its subordinates
JsonGraph ==
  LET populate[b \in Branch] ==
        LET below == SetToSeq(loaded[b].subordinates)
            up == IF b = top THEN NoBranch
                  ELSE CHOOSE a \in Branch : b \in loaded[a].subordinates
        IN  <<TransactionNode(b, up)>>
              \o SetToSeq({ParticipantNode(b, r) : r \in ParticipantsOf(b)})
              \o FlattenSeq([k \in DOMAIN below |-> populate[below[k]]])
  IN  populate[top]

-----------------------------------------------------------------------------
(* The browser.                                                             *)

\* init(): a new Spacetree, from the json of the page, with a click on its
\* root; it is contracted to the root first.  The first one is made while the
\* modal is hidden, and its canvas has no size.
NewPlot(tree, sized) ==
  [graph |-> GraphOf(tree), stage |-> "contract", sized |-> sized, canvas |-> Blank]

\* The response arrives, and the script at the end of the page runs.
OpenPage ==
  /\ step = "load" /\ pending = {}
  /\ step' = "shown"
  /\ json' = JsonGraph
  /\ plots' = <<NewPlot(json', FALSE)>>
  /\ UNCHANGED <<asked, crumbs, top, pending, loaded, labels, dbVars>>

\* The modal is shown: init() again
ShowModal ==
  /\ step = "shown" /\ Len(plots) <= MaxShown
  /\ plots' = Append(plots, NewPlot(json, TRUE))
  /\ UNCHANGED <<json, labels, dbVars, requestVars>>

\* Variant with a bug: the animations take different times.
InAnyOrder(i) == i \in DOMAIN plots

\* Animations of equal length: one begun earlier ends earlier.
InOrder(i) == \A j \in 1 .. i - 1 : Rank(plots[j].stage) > Rank(plots[i].stage)

\* The stage of plot i ends, having painted picture.
EndStage(i, picture) ==
  plots' = [plots EXCEPT ![i].stage = Stages[Rank(@) + 1], ![i].canvas = picture]

\* plotLabel(): the label of a node is looked up in the document, or created
\* (onCreateLabel), and placed; outside the canvas it is not displayed.
PlaceLabels(i, drawn) ==
  labels' = [x \in DOMAIN labels |->
               IF x \in drawn
               THEN IF plots[i].sized THEN "shown" ELSE "hidden"
               ELSE labels[x]]

Contract(i) ==
  /\ plots[i].stage = "contract" /\ InOrder(i)
  /\ EndStage(i, Blank)
  /\ UNCHANGED <<json, labels, dbVars, requestVars>>

\* Only the root is drawn yet.
Move(i) ==
  /\ plots[i].stage = "move" /\ InOrder(i)
  /\ EndStage(i, Picture(plots[i].graph, {plots[i].graph.root}))
  /\ PlaceLabels(i, {plots[i].graph.root})
  /\ UNCHANGED <<json, dbVars, requestVars>>

\* A frame of the expansion paints the nodes below the root and hides their
\* labels, whichever plot these were placed by.
Expand(i) ==
  /\ plots[i].stage = "expand"
  /\ plots[i].graph.below[plots[i].graph.root] # {}
  /\ plots' = [plots EXCEPT ![i].canvas = Picture(plots[i].graph, Drawn(plots[i].graph))]
  /\ labels' = [x \in DOMAIN labels |->
                  IF x = plots[i].graph.root THEN "shown"
                  ELSE IF x \in Drawn(plots[i].graph) /\ labels[x] = "shown" THEN "hidden"
                  ELSE labels[x]]
  /\ UNCHANGED <<json, dbVars, requestVars>>

\* The last frame of the expansion
Finish(i) ==
  /\ plots[i].stage = "expand" /\ InOrder(i)
  /\ EndStage(i, Picture(plots[i].graph, Drawn(plots[i].graph)))
  /\ PlaceLabels(i, Drawn(plots[i].graph))
  /\ UNCHANGED <<json, dbVars, requestVars>>

-----------------------------------------------------------------------------
Init ==
  /\ row = [b \in Branch |-> "none"]
  /\ subordinates = [b \in Branch |-> {}]
  /\ participants = [b \in Branch |-> [r \in Resource |-> Votes!Absent]]
  /\ step = "idle"
  /\ asked = NoBranch
  /\ crumbs = {}
  /\ top = NoBranch
  /\ pending = {}
  /\ loaded = [b \in Branch |-> NotLoaded]
  /\ json = <<>>
  /\ plots = <<>>
  /\ labels = [x \in Branch \cup Resource |-> "absent"]

Respond == InitInfo \/ FindAsked \/ FindTop \/ (\E b \in Branch : Load(b)) \/ OpenPage

Animate == \E i \in DOMAIN plots : Contract(i) \/ Move(i) \/ Finish(i)

Next ==
  \/ \E b \in Branch : Monitor(b)
  \/ \E b \in Branch \cup {NoBranch} : Ask(b)
  \/ Respond
  \/ ShowModal
  \/ Animate
  \/ \E i \in DOMAIN plots : Expand(i)

Spec == Init /\ [][Next]_vars

\* The container answers, and the timers of the browser run.
FairSpec == Spec /\ WF_vars(Respond) /\ WF_vars(Animate)

-----------------------------------------------------------------------------
(* Properties.                                                              *)

PlottedBranches == {json[i].id : i \in {k \in DOMAIN json : json[k].id \in Branch}}

Shown(i) == i \in DOMAIN plots /\ plots[i].stage = "done"

\* The two beans of the page look at the database at different times, and the
\* second one twice; whatever is linked in between, the graph has the branch
\* that was asked for, unless it is gone, and every branch of the breadcrumbs
\* that is still there (GraphPlotterBean:67-76, TransactionInfoBean:62-79).
AskedShown ==
  step = "shown" =>
    \A b \in (crumbs \cup {asked}) \ {NoBranch} :
      Rows!There(b) => b \in PlottedBranches

\* Participants the page knows of a branch, as far as LevelsToShow reaches
InReach(b) == IF Cardinality(Ancestors(b)) + 1 <= LevelsToShow THEN ParticipantsOf(b) ELSE {}

\* Branches of the page that have a participant of this name
PlottedWith(r) == {a \in PlottedBranches : r \in ParticipantsOf(a)}

\* What a picture says of r is what the page knows of it in a.
ColouredBy(picture, r, a) ==
  LET record == loaded[a].participants[r]
  IN  /\ picture.colour[r] = "red" <=> record.xaException
      /\ picture.colour[r] = "green" <=> record.vote = "COMMIT" /\ ~ record.xaException

\* The participants of one name are one node, which has the data of the first
\* of them and is one level below the nearest of their branches.  A finished
\* picture has that node for every participant the page knows of, as far as
\* LevelsToShow reaches, on a line from some branch with a participant of that
\* name, in the colour of the record of some such branch
\* (GraphPlotterBean:120-130, infoviz-graph.js:84-98).
ParticipantsPlotted ==
  \A i \in DOMAIN plots : \A b \in PlottedBranches : Shown(i) =>
    \A r \in InReach(b) :
      LET picture == plots[i].canvas
      IN  /\ \E l \in picture.lines : l.from \in PlottedWith(r) /\ l.to = r
          /\ \E a \in PlottedWith(r) : ColouredBy(picture, r, a)

\* x called y, or enlisted it.
TrueLine(x, y) ==
  /\ x \in Branch
  /\ \/ y \in Branch /\ Caller[y] = x
     \/ y \in Resource /\ participants[x][y] # Votes!Absent

\* What is painted was true when it was read and is not taken back by the
\* database since: the ends of a line are a branch and what it called or
\* enlisted, though a name that two branches share may draw the line from
\* below, and a red resource has refused in some branch
\* (GraphPlotterBean:106-135).
PictureTrue ==
  \A i \in DOMAIN plots :
    LET picture == plots[i].canvas
    IN  /\ \A l \in picture.lines : TrueLine(l.from, l.to) \/ TrueLine(l.to, l.from)
        /\ \A r \in DOMAIN picture.colour :
             picture.colour[r] = "red" =>
               \E b \in Branch : /\ participants[b][r] # Votes!Absent
                                 /\ participants[b][r].xaException

\* Every Spacetree of a page shares the labels of the first (they are looked up
\* by the id of the element): however often the modal is shown, its nodes end
\* up with their labels displayed (infoviz-graph.js:63-77, txinfo.xhtml:215-217).
LabelsSettle ==
  Len(plots) > 1 ~>
    \A i \in DOMAIN plots :
      /\ Shown(i)
      /\ \A x \in DOMAIN plots[i].canvas.colour : labels[x] = "shown"

\* "Ensure we have the root transaction" (GraphPlotterBean:72): a request for a
\* branch that was there does not end without a root to plot.
RootPlotted == step = "rootless" => asked = NoBranch

=============================================================================
