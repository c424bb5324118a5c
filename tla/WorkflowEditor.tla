--------------------------- MODULE WorkflowEditor ---------------------------
(***************************************************************************)
(* The workflow visualizer of the user interface                           *)
(* (awx/ui/src/frontend/awx/resources/templates/WorkflowVisualizer) and    *)
(* the rows of the workflow job template it edits.                         *)
(*                                                                         *)
(* A person edits a drawing.  Nothing that was removed leaves the drawing: *)
(* it is hidden, and steps whose links or data changed are marked.  Save   *)
(* then compares the marked steps with what the server had, and sends one  *)
(* request per difference: in stages, all requests of a stage at once.     *)
(* The first one to fail ends the save, but not the others on their way.   *)
(* The person may press Save again.                                        *)
(*                                                                         *)
(* The links of the artificial start node are layout and left out.         *)
(***************************************************************************)
EXTENDS Naturals, FiniteSets, Sequences

CONSTANTS Keys,        \* steps a drawing can have, numbered
          Approvals,   \* those that are approval steps when they are loaded or added
          SavedGraphs, \* what the template may contain when it is opened
          Suggestions, \* what links a suggestion may have: functions from pairs to types
          MaxRows,     \* bound: rows the server ever creates
          MaxEdits,    \* bound: edits of the drawing
          MaxSaves,    \* bound: times Save is pressed
          MaxFaults    \* bound: requests that fail for no fault of their own

Types == <<"success", "failure", "always">>
LinkTypes == {"success", "failure", "always"}
Rows == 1..MaxRows

ASSUME KeysAssumption == Keys \subseteq Rows /\ Approvals \subseteq Keys
ASSUME GraphsAssumption ==
  \A g \in SavedGraphs :
    /\ g.rows \subseteq Keys /\ g.rows = 1..Cardinality(g.rows)
    /\ g.links \subseteq g.rows \X g.rows \X LinkTypes
    \* The API takes neither a second relation of two rows nor a cycle.
    /\ \A l, m \in g.links : <<l[1], l[2]>> = <<m[1], m[2]>> => l = m
    /\ \A X \in (SUBSET g.rows) \ {{}} :
         \E n \in X : \A l \in g.links : l[2] = n => l[1] \notin X
ASSUME BoundsAssumption ==
  MaxRows \in Nat /\ MaxEdits \in Nat /\ MaxSaves \in Nat /\ MaxFaults \in Nat

VARIABLES
  \* the drawing
  steps,     \* the steps it holds
  hidden,    \* those that were removed
  id,        \* the row of a step, 0 while it is an unsavedNode
  content,   \* whether a step's form was changed
  approval,  \* whether it is an approval, and the id of its template: see ApprovalIds
  known,     \* resource.success_nodes, failure_nodes, always_nodes of a step
  link,      \* its links: type, originalStatus and whether they are visible
  modified,  \* the steps marked modified
  dirty,     \* the mark of the drawing, which enables Save
  \* the saves
  save,      \* the stage of each, and the lists it has made
  calls,     \* the requests on their way
  \* the server
  rows,      \* WorkflowJobTemplateNode
  stored,    \* whether a row has the changed content
  rel,       \* success_nodes, failure_nodes and always_nodes
  nextRow,
  \* bounds, and what the properties except
  edits, faults, slips

drawing == <<steps, hidden, id, content, approval, known, link, modified, dirty>>
server == <<rows, stored, rel, nextRow>>
vars == <<drawing, save, calls, server, edits, faults, slips>>

Visible == steps \ hidden
\* What of S can be reached from r along the pairs of R.
Reachable(S, R, r) ==
  {n \in S : \A X \in SUBSET S :
               r \in X /\ (\A e \in R : e[1] \in X => e[2] \in X) => n \in X}
Pairs == Keys \X Keys

\* The stages of a save, in the order in which they are awaited.
Stages == <<"create approvals", "create", "update approvals", "update",
            "unlink success", "unlink failure", "unlink always",
            "link success", "link failure", "link always", "delete">>
Finished == Len(Stages) + 1

\* no: not an approval.  unset: 0, as the wizard gives it to a new approval.
\* new: -1, as the wizard gives it to an edited one and a suggestion to its own.
\* saved: that of the server.
ApprovalIds == {"no", "unset", "new", "saved"}

\* reverted: a mark was taken away from a step that still needed it.
\* phantom: a link to a step that was removed before it ever had a row.
\* swallowed: an update failed and nobody was told.
\* meanwhile: an edit came while a save was under way.
\* again: Save was pressed while requests of a save were still on their way.
\* later: an edit came after a save had failed: known is as old as the drawing.
\* half: a row was created, but its step did not get to know it.
\* forgotten: the links that the server had for a step were forgotten before those
\*   to be taken away were looked for.
\* cycle: a suggestion had a cycle.
Slips == {"reverted", "phantom", "swallowed", "meanwhile", "again", "later", "half",
          "forgotten", "cycle"}

\* The links out of step n as the drawing shows them, in terms of rows.
OutOf(n, ls) ==
  {<<id[e[2]], ls[e].type>> : e \in {p \in DOMAIN ls : p[1] = n /\ ls[p].visible}}
DrawnFrom(n) == OutOf(n, link)

\* What save k is about to do, given the lists it has made.
Running(k) == save[k].stage \in 1..Len(Stages) /\ ~save[k].failed
Idle == [stage |-> 0, failed |-> FALSE, deleted |-> {}, fresh |-> {}, edited |-> {},
         unlink |-> {}, link |-> {}]

TypeOK ==
  /\ steps \subseteq Keys /\ hidden \subseteq steps /\ modified \subseteq Keys
  /\ id \in [Keys -> 0..MaxRows] /\ content \in [Keys -> BOOLEAN]
  /\ approval \in [Keys -> ApprovalIds]
  /\ known \in [Keys -> SUBSET (Rows \X LinkTypes)]
  /\ DOMAIN link \subseteq Pairs
  /\ \A e \in DOMAIN link : link[e] \in [type : LinkTypes, orig : LinkTypes, visible : BOOLEAN]
  /\ dirty \in BOOLEAN
  /\ \A k \in 1..MaxSaves : save[k].stage \in 0..Finished /\ save[k].failed \in BOOLEAN
  /\ rows \subseteq Rows /\ stored \in [Rows -> BOOLEAN]
  /\ rel \subseteq Rows \X Rows \X LinkTypes /\ nextRow \in 1..(MaxRows + 1)
  /\ edits \in 0..MaxEdits /\ faults \in 0..MaxFaults /\ slips \subseteq Slips

-----------------------------------------------------------------------------
(* The template as it is opened.                                           *)

Init ==
  \E g \in SavedGraphs :
    /\ steps = g.rows /\ hidden = {}
    /\ id = [n \in Keys |-> IF n \in g.rows THEN n ELSE 0]
    /\ content = [n \in Keys |-> FALSE]
    /\ approval = [n \in Keys |-> IF n \in g.rows \cap Approvals THEN "saved" ELSE "no"]
    /\ known = [n \in Keys |-> {<<l[2], l[3]>> : l \in {m \in g.links : m[1] = n}}]
    /\ link = [e \in {<<l[1], l[2]>> : l \in g.links} |->
                 LET t == (CHOOSE l \in g.links : <<l[1], l[2]>> = e)[3]
                 IN [type |-> t, orig |-> t, visible |-> TRUE]]
    /\ modified = {} /\ dirty = FALSE
    /\ save = [k \in 1..MaxSaves |-> Idle] /\ calls = {}
    /\ rows = g.rows /\ stored = [i \in Rows |-> FALSE] /\ rel = g.links
    /\ nextRow = Cardinality(g.rows) + 1
    /\ edits = 0 /\ faults = 0 /\ slips = {}

-----------------------------------------------------------------------------
(* Editing, until a save has finished and the drawing is loaded again.     *)

Quiet == calls = {} /\ \A k \in 1..MaxSaves : ~Running(k)
Editable == edits < MaxEdits /\ \A k \in 1..MaxSaves : save[k].stage # Finished
EditSlips == (IF Quiet THEN {} ELSE {"meanwhile"})
             \cup (IF \E k \in 1..MaxSaves : save[k].failed THEN {"later"} ELSE {})
Edited ==
  /\ edits' = edits + 1
  /\ slips' = slips \cup EditSlips
  /\ UNCHANGED <<id, known, save, calls, server, faults>>

NewLink(t) == [type |-> t, orig |-> t, visible |-> TRUE]
With(e, l) == [p \in DOMAIN link \cup {e} |-> IF p = e THEN l ELSE link[p]]

\* A new step from the wizard, alone or after a step.
AddStep(n) ==
  /\ Editable /\ Quiet /\ n \in Keys \ steps
  /\ steps' = steps \cup {n}
  /\ content' = [content EXCEPT ![n] = TRUE]
  /\ approval' = [approval EXCEPT ![n] = IF n \in Approvals THEN "unset" ELSE "no"]
  /\ \/ UNCHANGED link /\ modified' = modified \cup {n}
     \/ \E s \in Visible, t \in LinkTypes :
          /\ link' = With(<<s, n>>, NewLink(t))
          /\ modified' = modified \cup {n, s}
  /\ dirty' = TRUE
  /\ Edited
  /\ UNCHANGED hidden

\* Steps each of which follows another of them.
Cyclic(es) ==
  \E X \in (SUBSET Keys) \ {{}} : \A n \in X : \E e \in es : e[1] \in X /\ e[2] = n

\* A suggestion is applied: new steps with links among them, of which none
\* leads to its own step.
AddPlan(ns) ==
  /\ Editable /\ Quiet /\ ns # {} /\ ns \subseteq Keys \ steps
  /\ \E es \in SUBSET {e \in ns \X ns : e[1] # e[2]} : \E type \in [es -> LinkTypes] \cap Suggestions :
       /\ link' = [e \in DOMAIN link \cup es |-> IF e \in es THEN NewLink(type[e]) ELSE link[e]]
       /\ slips' = slips \cup EditSlips \cup (IF Cyclic(es) THEN {"cycle"} ELSE {})
  /\ steps' = steps \cup ns
  /\ content' = [n \in Keys |-> content[n] \/ n \in ns]
  /\ approval' = [n \in Keys |-> IF n \notin ns THEN approval[n]
                                ELSE IF n \in Approvals THEN "new" ELSE "no"]
  /\ modified' = modified \cup ns /\ dirty' = TRUE
  /\ edits' = edits + 1
  /\ UNCHANGED <<hidden, id, known, save, calls, server, faults>>

\* targetNodeAncestors: where a link from s may not be dropped.  It follows
\* the links that are hidden too.
Ancestors(s) == Reachable(Keys, {<<e[2], e[1]>> : e \in DOMAIN link}, s)
\* Mutant: only the children are refused.
Forbidden_children(s) == {s} \cup {e[2] : e \in {p \in DOMAIN link : p[1] = s}}

Forbidden(s) == Ancestors(s) \cup {e[2] : e \in {p \in DOMAIN link : p[1] = s}}

Connect(s, t) ==
  /\ Editable /\ Quiet
  /\ s \in Visible /\ t \in Visible \ Forbidden(s)
  /\ link' = With(<<s, t>>, NewLink("always"))
  /\ modified' = modified \cup {s} /\ dirty' = TRUE
  /\ Edited
  /\ UNCHANGED <<steps, hidden, content, approval>>

\* A choice of the link's menu.  handleModified takes the mark away from the
\* source when the link is again what it was, but failure links are stored
\* under one name and compared with another.
SetLink(e, t) ==
  LET unmark == t = link[e].orig /\ t # "failure"
      set == [link EXCEPT ![e].type = t]
  IN
  /\ Editable
  /\ e \in DOMAIN link /\ link[e].visible /\ e[1] \in Visible /\ e[2] \in Visible
  /\ link' = set
  /\ modified' = IF unmark THEN modified \ {e[1]} ELSE modified \cup {e[1]}
  /\ dirty' = (dirty \/ ~unmark)
  /\ edits' = edits + 1
  /\ slips' = slips \cup EditSlips
                    \cup (IF unmark /\ (content[e[1]] \/ id[e[1]] = 0 \/ OutOf(e[1], set) # known[e[1]])
                          THEN {"reverted"} ELSE {})
  /\ UNCHANGED <<id, known, steps, hidden, content, approval, save, calls, server, faults>>

RemoveLink(e) ==
  /\ Editable /\ Quiet
  /\ e \in DOMAIN link /\ link[e].visible /\ e[1] \in Visible /\ e[2] \in Visible
  /\ link' = [link EXCEPT ![e].visible = FALSE]
  /\ modified' = modified \cup {e[1], e[2]} /\ dirty' = TRUE
  /\ Edited
  /\ UNCHANGED <<steps, hidden, content, approval>>

\* Mutant: a step that is not drawn is removed, and links are not mended.
RemoveStep_stray(n) ==
  /\ Editable /\ Quiet /\ n \in Keys \ hidden
  /\ hidden' = hidden \cup {n} /\ dirty' = TRUE
  /\ Edited
  /\ UNCHANGED <<steps, link, modified, content, approval>>

\* Every parent of the step is linked to every child, hidden links included.
RemoveStep(n) ==
  LET parents  == {e[1] : e \in {p \in DOMAIN link : p[2] = n}}
      children == {e[2] : e \in {p \in DOMAIN link : p[1] = n}}
  IN
  /\ Editable /\ Quiet /\ n \in Visible
  /\ hidden' = hidden \cup {n}
  /\ link' = [e \in DOMAIN link \cup (parents \X children) |->
                IF n \in {e[1], e[2]} THEN [link[e] EXCEPT !.visible = FALSE]
                ELSE IF e \notin parents \X children THEN link[e]
                ELSE IF e \in DOMAIN link THEN [link[e] EXCEPT !.visible = TRUE]
                ELSE NewLink(link[<<n, e[2]>>].type)]
  /\ modified' = modified \cup IF children = {} THEN {} ELSE parents
  /\ dirty' = TRUE
  /\ Edited
  /\ UNCHANGED <<steps, content, approval>>

\* What the wizard may make of a step: its type can be changed, an approval that
\* was something else has no template yet, and whether the form still knows that of
\* an approval depends on when it was drawn last.
Becomes(a) ==
  {"no", "new"} \cup IF a = "saved" THEN {"saved"} ELSE {}

EditStep(n) ==
  /\ Editable /\ n \in Visible
  /\ content' = [content EXCEPT ![n] = TRUE]
  /\ \/ Quiet /\ \E a \in Becomes(approval[n]) : approval' = [approval EXCEPT ![n] = a]
     \/ UNCHANGED approval /\ approval[n] # "unset"
  /\ <<content, approval>>' # <<content, approval>>
  /\ modified' = modified \cup {n} /\ dirty' = TRUE
  /\ Edited
  /\ UNCHANGED <<steps, hidden, link>>

-----------------------------------------------------------------------------
(* Saving.                                                                 *)

Marked == modified \cap Visible

\* Mutant: all links of a marked step are taken away and made again.
Unlinks_all == UNION {{<<id[n], w[1], w[2]>> : w \in known[n]} : n \in Marked}

\* Mutant: a link that was removed is not looked for.
Unlinks_retyped ==
  UNION {{<<id[n], w[1], w[2]>> :
            w \in {v \in known[n] : \E e \in DOMAIN link :
                                     e[1] = n /\ id[e[2]] = v[1] /\ link[e].type # v[2]}}
         : n \in Marked}

\* handleEdgeModification, for the marked steps: what the server has that the
\* drawing has not, and the other way round.
UnlinksOf(n) ==
  {<<id[n], w[1], w[2]>> :
     w \in {v \in known[n] :
            \E e \in DOMAIN link : /\ e[1] = n /\ id[e[2]] = v[1]
                                   /\ (link[e].type # v[2] \/ ~link[e].visible)}}
Unlinks == UNION {UnlinksOf(n) : n \in Marked}
Links == UNION {{<<id[n], w[1], w[2]>> : w \in DrawnFrom(n) \ known[n]} : n \in Marked}

\* The lists a save makes when Save is pressed.
Sorted == [Idle EXCEPT !.deleted = {id[n] : n \in {m \in hidden : id[m] # 0}},
                       !.fresh   = {n \in Visible : id[n] = 0},
                       !.edited  = {n \in Marked : id[n] # 0}]

\* The requests of stage s of save k, when its lists are v.
Requests(k, v, s) ==
  LET create(ns)  == {[save |-> k, op |-> "create", step |-> n] : n \in ns}
      update(ns)  == {[save |-> k, op |-> "update", step |-> n, row |-> id[n],
                       new |-> content[n], approval |-> approval[n]] : n \in ns}
      approvals   == {n \in Keys : approval[n] # "no"}
      each(ls, op, t) == {[save |-> k, op |-> op, row |-> l[1], to |-> l[2], type |-> t] :
                            l \in {m \in ls : m[3] = t}}
  IN CASE Stages[s] = "create approvals" -> create(v.fresh \cap approvals)
       [] Stages[s] = "create"           -> create(v.fresh \ approvals)
       [] Stages[s] = "update approvals" -> update(v.edited \cap approvals)
       [] Stages[s] = "update"           -> update(v.edited \ approvals)
       [] Stages[s] = "delete" -> {[save |-> k, op |-> "delete", row |-> r] : r \in v.deleted}
       [] Stages[s] = "unlink success" -> each(v.unlink, "unlink", "success")
       [] Stages[s] = "unlink failure" -> each(v.unlink, "unlink", "failure")
       [] Stages[s] = "unlink always"  -> each(v.unlink, "unlink", "always")
       [] Stages[s] = "link success"   -> each(v.link, "link", "success")
       [] Stages[s] = "link failure"   -> each(v.link, "link", "failure")
       [] Stages[s] = "link always"    -> each(v.link, "link", "always")

\* Save k goes on to the next stage that has a request to send.  The lists of
\* links are made when all rows are there.
FirstOfLinks == 5
Proceed(k, v) ==
  LET w    == IF v.stage < FirstOfLinks THEN [v EXCEPT !.unlink = Unlinks, !.link = Links] ELSE v
      left == {s \in (v.stage + 1)..Len(Stages) : Requests(k, w, s) # {}}
      s    == IF left = {} THEN Finished ELSE CHOOSE i \in left : \A j \in left : i <= j
  IN
  /\ save' = [save EXCEPT ![k] = IF s < FirstOfLinks THEN [v EXCEPT !.stage = s]
                                 ELSE [w EXCEPT !.stage = s]]
  /\ calls' = IF s = Finished THEN calls ELSE calls \cup Requests(k, w, s)
  /\ modified' = IF s = Finished THEN {} ELSE modified
  /\ dirty' = (dirty /\ s # Finished)
  /\ UNCHANGED <<steps, hidden, id, content, approval, known, link, server, edits, faults>>

SavePress(k) ==
  /\ dirty /\ save[k].stage = 0 /\ \A j \in 1..(k - 1) : save[j].stage \notin {0, Finished}
  /\ Proceed(k, Sorted)
  /\ slips' = slips \cup (IF calls # {} \/ \E j \in 1..MaxSaves : Running(j) THEN {"again"} ELSE {})
                    \cup (IF \E n \in Marked, e \in DOMAIN link :
                               /\ e[1] = n /\ link[e].visible
                               /\ e[2] \in hidden /\ id[e[2]] = 0
                          THEN {"phantom"} ELSE {})

Advance(k) ==
  /\ Running(k) /\ ~\E c \in calls : c.save = k
  /\ Proceed(k, save[k])
  /\ UNCHANGED slips

-----------------------------------------------------------------------------
(* The requests, as the server answers them.                               *)

Reaches(r) == Reachable(Rows, {<<l[1], l[2]>> : l \in rel}, r)

\* get_object_or_400, and is_valid_relation.
Accepts(c) ==
  CASE c.op = "create" -> nextRow <= MaxRows
    [] c.op = "update" -> c.row \in rows /\ c.approval # "unset"
    [] c.op = "unlink" -> {c.row, c.to} \subseteq rows
    [] c.op = "link" /\ c.to = 0 -> c.row \in rows /\ nextRow <= MaxRows
    [] c.op = "link" /\ c.to # 0 ->
         /\ {c.row, c.to} \subseteq rows
         /\ \A t \in LinkTypes \ {c.type} : <<c.row, c.to, t>> \notin rel
         /\ c.row \notin Reaches(c.to)
    [] OTHER -> c.row \in rows

\* attach without an id makes a row and links it.
AddRow(new) ==
  /\ rows' = rows \cup {nextRow} /\ nextRow' = nextRow + 1
  /\ rel' = rel \cup new

AnswerCreate(c) ==
  /\ c.op = "create"
  /\ AddRow({})
  /\ calls' = (calls \ {c}) \cup {[save |-> c.save, op |-> "finish", step |-> c.step, row |-> nextRow]}
  /\ UNCHANGED <<id, known, stored>>

\* Mutant: setCreatedNodeId is forgotten.
AnswerFinish_unset(c) ==
  /\ c.op = "finish"
  /\ stored' = [stored EXCEPT ![c.row] = TRUE]
  /\ calls' = calls \ {c}
  /\ UNCHANGED <<id, known, rows, rel, nextRow>>

\* The approval template, or labels, instance groups and credentials; then
\* setCreatedNodeId, which empties the links that the server is known to have, also
\* those of a row that is not new.
AnswerFinish(c) ==
  /\ c.op = "finish"
  /\ id' = [id EXCEPT ![c.step] = c.row]
  /\ known' = [known EXCEPT ![c.step] = {}]
  /\ stored' = [stored EXCEPT ![c.row] = TRUE]
  /\ calls' = calls \ {c}
  /\ UNCHANGED <<rows, rel, nextRow>>

\* A row; with an approval, its template next.
AnswerUpdate(c) ==
  /\ c.op = "update"
  /\ IF c.approval = "new"
     THEN /\ calls' = (calls \ {c}) \cup
                      {[save |-> c.save, op |-> "finish", step |-> c.step, row |-> c.row]}
          /\ UNCHANGED stored
     ELSE /\ calls' = calls \ {c}
          /\ stored' = [stored EXCEPT ![c.row] = @ \/ c.new]
  /\ UNCHANGED <<id, known, rows, rel, nextRow>>

AnswerUnlink(c) ==
  /\ c.op = "unlink"
  /\ rel' = rel \ {<<c.row, c.to, c.type>>}
  /\ calls' = calls \ {c}
  /\ UNCHANGED <<id, known, rows, stored, nextRow>>

AnswerLink(c) ==
  /\ c.op = "link"
  /\ IF c.to = 0 THEN AddRow({<<c.row, nextRow, c.type>>})
     ELSE rel' = rel \cup {<<c.row, c.to, c.type>>} /\ UNCHANGED <<rows, nextRow>>
  /\ calls' = calls \ {c}
  /\ UNCHANGED <<id, known, stored>>

AnswerDelete(c) ==
  /\ c.op = "delete"
  /\ rows' = rows \ {c.row}
  /\ rel' = {l \in rel : c.row \notin {l[1], l[2]}}
  /\ calls' = calls \ {c}
  /\ UNCHANGED <<id, known, stored, nextRow>>

Answer(c) ==
  /\ Accepts(c)
  /\ \/ AnswerCreate(c) \/ AnswerFinish(c) \/ AnswerUpdate(c)
     \/ AnswerUnlink(c) \/ AnswerLink(c) \/ AnswerDelete(c)
  /\ slips' = slips \cup (IF c.op = "finish" /\ UnlinksOf(c.step) # {} THEN {"forgotten"} ELSE {})
  /\ UNCHANGED <<steps, hidden, content, approval, link, modified, dirty, save, edits, faults>>

\* A request that fails fails its save, except the update of a step that is
\* no approval, which is only awaited to settle.
Settled(c) == c.op = "update" /\ c.approval = "no"
Fails(c) ==
  /\ calls' = calls \ {c}
  /\ save' = IF Settled(c) THEN save ELSE [save EXCEPT ![c.save].failed = TRUE]
  /\ slips' = slips \cup (IF Settled(c) THEN {"swallowed"} ELSE {})
                    \cup (IF c.op = "finish" /\ id[c.step] # c.row THEN {"half"} ELSE {})
  /\ UNCHANGED <<drawing, server, edits>>

Refuse(c) == ~Accepts(c) /\ Fails(c) /\ UNCHANGED faults

\* No permission, no connection, a value the server does not take.
Break(c) == faults < MaxFaults /\ faults' = faults + 1 /\ Fails(c)

-----------------------------------------------------------------------------
Edit ==
  \/ \E n \in Keys : AddStep(n) \/ RemoveStep(n) \/ EditStep(n)
  \/ \E ns \in SUBSET Keys : AddPlan(ns)
  \/ \E s, t \in Keys : Connect(s, t)
  \/ \E e \in DOMAIN link : RemoveLink(e) \/ \E t \in LinkTypes : SetLink(e, t)

Next ==
  \/ Edit
  \/ \E k \in 1..MaxSaves : SavePress(k) \/ Advance(k)
  \/ \E c \in calls : Answer(c) \/ Refuse(c) \/ Break(c)

Spec == Init /\ [][Next]_vars

-----------------------------------------------------------------------------
(* Properties.                                                             *)

Drawn == UNION {{<<id[n], w[1], w[2]>> : w \in DrawnFrom(n)} : n \in Visible}
DrawnRows == {id[n] : n \in Visible}

\* A save that says "Successfully saved" has made the template what is drawn,
\* the rows of the steps, their data and their links, also when saves before it
\* failed at any request and steps were edited since.  (A row that was left half
\* made stays, unlinked; what a failed save has done to links is not known, nor
\* what the server has of links that were forgotten.)
DrawnIsSaved ==
  slips \subseteq {"half", "later", "forgotten", "cycle"} =>
    \A k \in 1..MaxSaves : save[k].stage = Finished =>
      /\ DrawnRows \subseteq rows
      /\ "half" \notin slips => rows = DrawnRows
      /\ \A n \in Visible : content[n] => stored[id[n]]
      /\ slips \subseteq {"half", "cycle"} => rel = {l \in Drawn : l[2] \in DrawnRows}

\* The order of the stages, and what the editor lets be drawn, never make the
\* server refuse a link: no second relation of two steps, no cycle unless a
\* suggestion had one, although removed rows are still there with their links.
\* (Once some of them are gone, a save that is tried again is refused for naming
\* them, and so is one that updates an approval whose template it does not know.)
NeverRefused ==
  slips = {} /\ (\A n \in hidden : id[n] \in rows \cup {0}) =>
    \A c \in calls :
      c.op # "create" /\ ~(c.op = "update" /\ c.approval = "unset") => Accepts(c)

\* Saving again after a failure makes no second row of a step.
NoTwins ==
  slips \cap {"phantom", "meanwhile", "again", "half"} = {} =>
    \A r \in rows : Cardinality({n \in steps : id[n] = r}
                                \cup {c.step : c \in {d \in calls : d.op = "finish" /\ d.row = r}}) = 1

\* A save takes no link away that is still drawn, also when saves before it failed.
KeepsDrawnLinks ==
  [][slips' \cap {"phantom", "meanwhile", "again"} = {} =>
       \A l \in rel \ rel' : l \notin Drawn \/ l[2] \notin DrawnRows]_vars

\* The claim of the alert, without the exceptions.
SuccessIsSaved ==
  slips \subseteq {"half", "reverted", "phantom"} =>
    \A k \in 1..MaxSaves : save[k].stage = Finished =>
      /\ \A n \in Visible : content[n] => stored[id[n]]
      /\ rows = DrawnRows
=============================================================================
