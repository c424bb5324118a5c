------------------------ MODULE WorkflowEditor_proofs ------------------------
(***************************************************************************)
(* Proofs about WorkflowEditor, for any templates, edits, saves and        *)
(* failing requests.  IInv says of a save that is under way what its lists *)
(* hold (Lists), that the requests on their way are of its stage           *)
(* (CallsOfStage) and how much of the lists is left to do (Progress).      *)
(* Knowing says how the drawing, what it knows of the server and what the  *)
(* server has are related, from the first edit to the end of the save.     *)
(***************************************************************************)
EXTENDS WorkflowEditor, FiniteSetTheorems, TLAPS

Saves == 1..MaxSaves
LastStage == Len(Stages)

-----------------------------------------------------------------------------
(* Types *)

ListOfLinks == SUBSET ((0..MaxRows) \X (0..MaxRows) \X LinkTypes)
SaveType == [stage : 0..Finished, failed : BOOLEAN, deleted : SUBSET Rows,
             fresh : SUBSET Keys, edited : SUBSET Keys,
             unlink : ListOfLinks, link : ListOfLinks]

CallTyped(c) ==
  /\ c.save \in Saves
  /\ c.op \in {"create", "finish", "update", "unlink", "link", "delete"}
  /\ c.op \in {"create", "finish", "update"} => c.step \in Keys
  /\ c.op \in {"finish", "delete"} => c.row \in Rows
  /\ c.op \in {"update", "unlink", "link"} => c.row \in 0..MaxRows
  /\ c.op \in {"unlink", "link"} => c.to \in 0..MaxRows /\ c.type \in LinkTypes
  /\ c.op = "update" => c.new \in BOOLEAN /\ c.approval \in ApprovalIds

Typed == /\ TypeOK
         /\ save \in [Saves -> SaveType]
         /\ \A c \in calls : CallTyped(c)
         /\ DOMAIN link \subseteq steps \X steps

\* The stage in which each item of the lists is sent.
CreateStage(a) == IF a = "no" THEN 2 ELSE 1
UpdateStage(a) == IF a = "no" THEN 4 ELSE 3
UnlinkStage(t) == IF t = "success" THEN 5 ELSE IF t = "failure" THEN 6 ELSE 7
LinkStage(t) == IF t = "success" THEN 8 ELSE IF t = "failure" THEN 9 ELSE 10

LEMMA NumberOfStages == Len(Stages) = 11 /\ Finished = 12 /\ FirstOfLinks = 5
BY DEF Stages, Finished, FirstOfLinks

Creating(k, v, s) == {[save |-> k, op |-> "create", step |-> n] :
                        n \in {m \in v.fresh : CreateStage(approval[m]) = s}}
Updating(k, v, s) == {[save |-> k, op |-> "update", step |-> n, row |-> id[n],
                           new |-> content[n], approval |-> approval[n]] :
                        n \in {m \in v.edited : UpdateStage(approval[m]) = s}}
Unlinking(k, v, s) == {[save |-> k, op |-> "unlink", row |-> l[1], to |-> l[2], type |-> l[3]] :
                        l \in {m \in v.unlink : UnlinkStage(m[3]) = s}}
Linking(k, v, s) == {[save |-> k, op |-> "link", row |-> l[1], to |-> l[2], type |-> l[3]] :
                        l \in {m \in v.link : LinkStage(m[3]) = s}}
Deleting(k, v, s) == {[save |-> k, op |-> "delete", row |-> r] : r \in {d \in v.deleted : s = LastStage}}

\* What a stage sends.
LEMMA RequestsAre ==
  ASSUME NEW k, NEW v \in SaveType, NEW s \in 1..Len(Stages)
  PROVE  Requests(k, v, s) = Creating(k, v, s) \cup Updating(k, v, s) \cup Unlinking(k, v, s)
                             \cup Linking(k, v, s) \cup Deleting(k, v, s)
<1>0. /\ \A l \in v.unlink \cup v.link : l[3] \in LinkTypes
      /\ v.fresh \subseteq Keys /\ v.edited \subseteq Keys
  BY DEF SaveType, ListOfLinks
<1>1. s \in {1, 2, 3, 4, 5, 6, 7, 8, 9, 10, 11}
  BY NumberOfStages
<1> DEFINE each(ls, op, t) == {[save |-> k, op |-> op, row |-> l[1], to |-> l[2], type |-> t] :
                                l \in {m \in ls : m[3] = t}}
           approvals == {n \in Keys : approval[n] # "no"}
<1> USE NumberOfStages DEF Creating, Updating, Unlinking, Linking, Deleting, CreateStage,
        UpdateStage, UnlinkStage, LinkStage, LastStage, LinkTypes
<1>2. CASE s = 1
  <2>1. Stages[s] = "create approvals"
    BY <1>2 DEF Stages
  <2>2. Requests(k, v, s) = {[save |-> k, op |-> "create", step |-> n] :
                            n \in v.fresh \cap approvals}
    BY <2>1 DEF Requests
  <2>3. v.fresh \cap approvals = {m \in v.fresh : CreateStage(approval[m]) = s}
    BY <1>0, <1>2
  <2>4. Requests(k, v, s) = Creating(k, v, s)
    BY <2>2, <2>3
  <2> QED BY <1>0, <1>2, <2>4
<1>3. CASE s = 2
  <2>1. Stages[s] = "create"
    BY <1>3 DEF Stages
  <2>2. Requests(k, v, s) = {[save |-> k, op |-> "create", step |-> n] :
                            n \in v.fresh \ approvals}
    BY <2>1 DEF Requests
  <2>3. v.fresh \ approvals = {m \in v.fresh : CreateStage(approval[m]) = s}
    BY <1>0, <1>3
  <2>4. Requests(k, v, s) = Creating(k, v, s)
    BY <2>2, <2>3
  <2> QED BY <1>0, <1>3, <2>4
<1>4. CASE s = 3
  <2>1. Stages[s] = "update approvals"
    BY <1>4 DEF Stages
  <2>2. Requests(k, v, s) = {[save |-> k, op |-> "update", step |-> n, row |-> id[n],
                             new |-> content[n], approval |-> approval[n]] :
                            n \in v.edited \cap approvals}
    BY <2>1 DEF Requests
  <2>3. v.edited \cap approvals = {m \in v.edited : UpdateStage(approval[m]) = s}
    BY <1>0, <1>4
  <2>4. Requests(k, v, s) = Updating(k, v, s)
    BY <2>2, <2>3
  <2> QED BY <1>0, <1>4, <2>4
<1>5. CASE s = 4
  <2>1. Stages[s] = "update"
    BY <1>5 DEF Stages
  <2>2. Requests(k, v, s) = {[save |-> k, op |-> "update", step |-> n, row |-> id[n],
                             new |-> content[n], approval |-> approval[n]] :
                            n \in v.edited \ approvals}
    BY <2>1 DEF Requests
  <2>3. v.edited \ approvals = {m \in v.edited : UpdateStage(approval[m]) = s}
    BY <1>0, <1>5
  <2>4. Requests(k, v, s) = Updating(k, v, s)
    BY <2>2, <2>3
  <2> QED BY <1>0, <1>5, <2>4
<1>6. CASE s = 5
  <2>1. Stages[s] = "unlink success"
    BY <1>6 DEF Stages
  <2>2. Requests(k, v, s) = each(v.unlink, "unlink", "success")
    BY <2>1 DEF Requests
  <2> QED BY <1>0, <1>6, <2>2
<1>7. CASE s = 6
  <2>1. Stages[s] = "unlink failure"
    BY <1>7 DEF Stages
  <2>2. Requests(k, v, s) = each(v.unlink, "unlink", "failure")
    BY <2>1 DEF Requests
  <2> QED BY <1>0, <1>7, <2>2
<1>8. CASE s = 7
  <2>1. Stages[s] = "unlink always"
    BY <1>8 DEF Stages
  <2>2. Requests(k, v, s) = each(v.unlink, "unlink", "always")
    BY <2>1 DEF Requests
  <2> QED BY <1>0, <1>8, <2>2
<1>9. CASE s = 8
  <2>1. Stages[s] = "link success"
    BY <1>9 DEF Stages
  <2>2. Requests(k, v, s) = each(v.link, "link", "success")
    BY <2>1 DEF Requests
  <2> QED BY <1>0, <1>9, <2>2
<1>10. CASE s = 9
  <2>1. Stages[s] = "link failure"
    BY <1>10 DEF Stages
  <2>2. Requests(k, v, s) = each(v.link, "link", "failure")
    BY <2>1 DEF Requests
  <2> QED BY <1>0, <1>10, <2>2
<1>11. CASE s = 10
  <2>1. Stages[s] = "link always"
    BY <1>11 DEF Stages
  <2>2. Requests(k, v, s) = each(v.link, "link", "always")
    BY <2>1 DEF Requests
  <2> QED BY <1>0, <1>11, <2>2
<1>12. CASE s = 11
  <2>1. Stages[s] = "delete"
    BY <1>12 DEF Stages
  <2>2. Requests(k, v, s) = {[save |-> k, op |-> "delete", row |-> r] : r \in v.deleted}
    BY <2>1 DEF Requests
  <2> QED BY <1>0, <1>12, <2>2
<1> QED BY <1>1, <1>2, <1>3, <1>4, <1>5, <1>6, <1>7, <1>8, <1>9, <1>10, <1>11, <1>12

\* The first stage of some.
LEMMA FirstStage ==
  ASSUME NEW S \in SUBSET (1..11), S # {}
  PROVE  \E i \in S : \A j \in S : i <= j
<1> SUFFICES ASSUME \A i \in S : \E j \in S : j < i
             PROVE  FALSE
  OBVIOUS
<1>1. 1 \notin S  OBVIOUS
<1>2. 2 \notin S  BY <1>1
<1>3. 3 \notin S  BY <1>1, <1>2
<1>4. 4 \notin S  BY <1>1, <1>2, <1>3
<1>5. 5 \notin S  BY <1>1, <1>2, <1>3, <1>4
<1>6. 6 \notin S  BY <1>1, <1>2, <1>3, <1>4, <1>5
<1>7. 7 \notin S  BY <1>1, <1>2, <1>3, <1>4, <1>5, <1>6
<1>8. 8 \notin S  BY <1>1, <1>2, <1>3, <1>4, <1>5, <1>6, <1>7
<1>9. 9 \notin S  BY <1>1, <1>2, <1>3, <1>4, <1>5, <1>6, <1>7, <1>8
<1>10. 10 \notin S  BY <1>1, <1>2, <1>3, <1>4, <1>5, <1>6, <1>7, <1>8, <1>9
<1>11. 11 \notin S  BY <1>1, <1>2, <1>3, <1>4, <1>5, <1>6, <1>7, <1>8, <1>9, <1>10
<1>12. \A j \in S : j \in {1, 2, 3, 4, 5, 6, 7, 8, 9, 10, 11}
  OBVIOUS
<1>13. PICK i \in S : TRUE
  OBVIOUS
<1>14. i \in {1, 2, 3, 4, 5, 6, 7, 8, 9, 10, 11}
  BY <1>12
<1> QED BY <1>1, <1>2, <1>3, <1>4, <1>5, <1>6, <1>7, <1>8, <1>9, <1>10, <1>11, <1>13, <1>14

\* The lists of save k once it has come to the links.
Ready(v) == IF v.stage < FirstOfLinks THEN [v EXCEPT !.unlink = Unlinks, !.link = Links] ELSE v

\* What save k does when it goes on to stage s.
GoesTo(k, v, s) ==
  /\ \A i \in (v.stage + 1)..LastStage : i < s => Requests(k, Ready(v), i) = {}
  /\ save' = [save EXCEPT ![k] = IF s < FirstOfLinks THEN [v EXCEPT !.stage = s]
                                 ELSE [Ready(v) EXCEPT !.stage = s]]
  /\ IF s = Finished THEN calls' = calls /\ modified' = {} /\ dirty' = FALSE
     ELSE /\ calls' = calls \cup Requests(k, Ready(v), s)
          /\ modified' = modified /\ dirty' = dirty
  /\ UNCHANGED <<steps, hidden, id, content, approval, known, link, server, edits, faults>>

LEMMA Proceeds ==
  ASSUME dirty \in BOOLEAN, NEW k \in Saves, NEW v, v.stage \in 0..LastStage, Proceed(k, v)
  PROVE  \E s \in (v.stage + 1)..Finished : GoesTo(k, v, s)
<1> DEFINE left == {i \in (v.stage + 1)..Len(Stages) : Requests(k, Ready(v), i) # {}}
           s == IF left = {} THEN Finished ELSE CHOOSE i \in left : \A j \in left : i <= j
<1>1. CASE left = {}
  <2>1. s = Finished
    BY <1>1
  <2>2. GoesTo(k, v, Finished)
    BY <1>1, <2>1, NumberOfStages DEF Proceed, GoesTo, Ready, LastStage
  <2> QED BY <2>2, NumberOfStages DEF LastStage
<1>2. CASE left # {}
  <2>1. left \in SUBSET (1..11)
    BY NumberOfStages DEF LastStage
  <2>2. \E i \in left : \A j \in left : i <= j
    BY <1>2, <2>1, FirstStage
  <2>3. s \in left /\ \A j \in left : s <= j
    BY <1>2, <2>2
  <2>4. s \in (v.stage + 1)..Finished /\ s # Finished
    BY <2>1, <2>3, NumberOfStages DEF LastStage
  <2>5. GoesTo(k, v, s)
    <3> HIDE DEF s
    <3>1. \A i \in (v.stage + 1)..LastStage : i < s => i \notin left
      BY <2>3, <2>4, <2>1, NumberOfStages DEF LastStage
    <3>2. \A i \in (v.stage + 1)..LastStage : i < s => Requests(k, Ready(v), i) = {}
      BY <3>1 DEF LastStage
    <3> USE DEF s
    <3>3. /\ save' = [save EXCEPT ![k] = IF s < FirstOfLinks THEN [v EXCEPT !.stage = s]
                                         ELSE [Ready(v) EXCEPT !.stage = s]]
          /\ calls' = IF s = Finished THEN calls ELSE calls \cup Requests(k, Ready(v), s)
          /\ modified' = IF s = Finished THEN {} ELSE modified
          /\ dirty' = (dirty /\ s # Finished)
          /\ UNCHANGED <<steps, hidden, id, content, approval, known, link, server, edits, faults>>
      BY DEF Proceed, Ready
    <3> HIDE DEF s
    <3> QED BY <2>4, <3>2, <3>3 DEF GoesTo
  <2> QED BY <2>4, <2>5
<1> QED BY <1>1, <1>2

LEMMA ListsTyped ==
  ASSUME Typed
  PROVE  Unlinks \in ListOfLinks /\ Links \in ListOfLinks /\ Sorted \in SaveType
<1>1. Marked \subseteq Keys /\ Visible \subseteq Keys
  BY DEF Typed, TypeOK, Marked, Visible
<1>2. \A n \in Keys : id[n] \in 0..MaxRows
  BY DEF Typed, TypeOK
<1>3. Unlinks \in ListOfLinks
  <2> SUFFICES ASSUME NEW n \in Marked, NEW w \in known[n]
               PROVE  <<id[n], w[1], w[2]>> \in (0..MaxRows) \X (0..MaxRows) \X LinkTypes
    BY DEF Unlinks, UnlinksOf, ListOfLinks
  <2>1. known[n] \in SUBSET (Rows \X LinkTypes)
    BY <1>1 DEF Typed, TypeOK
  <2>2. w[1] \in Rows /\ w[2] \in LinkTypes
    BY <2>1
  <2> QED BY <1>1, <1>2, <2>2, BoundsAssumption DEF Rows
<1>4. Links \in ListOfLinks
  <2> SUFFICES ASSUME NEW n \in Marked, NEW w \in DrawnFrom(n)
               PROVE  <<id[n], w[1], w[2]>> \in (0..MaxRows) \X (0..MaxRows) \X LinkTypes
    BY DEF Links, ListOfLinks
  <2>1. PICK e \in DOMAIN link : w = <<id[e[2]], link[e].type>>
    BY DEF DrawnFrom, OutOf
  <2>2. e \in Pairs /\ link[e].type \in LinkTypes
    BY DEF Typed, TypeOK
  <2> QED BY <1>1, <1>2, <2>1, <2>2 DEF Pairs
<1>5. Sorted \in SaveType
  <2>1. Idle \in SaveType
    BY BoundsAssumption, NumberOfStages DEF Idle, SaveType, ListOfLinks
  <2>2. {id[n] : n \in {m \in hidden : id[m] # 0}} \in SUBSET Rows
    BY <1>2, BoundsAssumption DEF Rows, Typed, TypeOK
  <2>3. {n \in Visible : id[n] = 0} \in SUBSET Keys /\ {n \in Marked : id[n] # 0} \in SUBSET Keys
    BY <1>1
  <2> QED BY <2>1, <2>2, <2>3 DEF Sorted, SaveType
<1> QED BY <1>3, <1>4, <1>5

LEMMA RequestsTyped ==
  ASSUME Typed, NEW k \in Saves, NEW v \in SaveType, NEW s \in 1..Len(Stages)
  PROVE  \A c \in Requests(k, v, s) : CallTyped(c)
<1>1. /\ v.fresh \subseteq Keys /\ v.edited \subseteq Keys /\ v.deleted \subseteq Rows
      /\ v.unlink \in ListOfLinks /\ v.link \in ListOfLinks
  BY DEF SaveType
<1>2. \A n \in Keys : /\ id[n] \in 0..MaxRows /\ content[n] \in BOOLEAN
                     /\ approval[n] \in ApprovalIds
  BY DEF Typed, TypeOK
<1>3. \A l \in v.unlink \cup v.link : l[1] \in 0..MaxRows /\ l[2] \in 0..MaxRows /\ l[3] \in LinkTypes
  BY <1>1 DEF ListOfLinks
<1>4. \A c \in Creating(k, v, s) : CallTyped(c)
  BY <1>1 DEF Creating, CallTyped
<1>5. \A c \in Updating(k, v, s) : CallTyped(c)
  BY <1>1, <1>2 DEF Updating, CallTyped
<1>6. \A c \in Unlinking(k, v, s) : CallTyped(c)
  BY <1>3 DEF Unlinking, CallTyped
<1>7. \A c \in Linking(k, v, s) : CallTyped(c)
  BY <1>3 DEF Linking, CallTyped
<1>8. \A c \in Deleting(k, v, s) : CallTyped(c)
  BY <1>1 DEF Deleting, CallTyped
<1> QED BY <1>4, <1>5, <1>6, <1>7, <1>8, RequestsAre

\* What is new of a save's lists.
LEMMA ReadyTyped ==
  ASSUME Typed, NEW v \in SaveType
  PROVE  Ready(v) \in SaveType
BY ListsTyped DEF Ready, SaveType

\* A template as it is opened.
LEMMA SavedRows ==
  ASSUME NEW g \in SavedGraphs
  PROVE  Cardinality(g.rows) \in 0..MaxRows
<1>1. g.rows \subseteq Rows /\ g.rows = 1..Cardinality(g.rows)
  BY GraphsAssumption, KeysAssumption
<1>2. IsFiniteSet(Rows) /\ Cardinality(Rows) = MaxRows
  BY BoundsAssumption, FS_Interval DEF Rows
<1>3. Cardinality(g.rows) \in Nat /\ Cardinality(g.rows) <= Cardinality(Rows)
  BY <1>1, <1>2, FS_Subset, FS_CardinalityType
<1> QED BY <1>2, <1>3, BoundsAssumption

LEMMA InitTyped == Init => Typed
<1> SUFFICES ASSUME Init PROVE Typed
  OBVIOUS
<1>1. PICK g \in SavedGraphs :
        /\ steps = g.rows /\ hidden = {}
        /\ id = [n \in Keys |-> IF n \in g.rows THEN n ELSE 0]
        /\ content = [n \in Keys |-> FALSE]
        /\ approval = [n \in Keys |-> IF n \in g.rows \cap Approvals THEN "saved" ELSE "no"]
        /\ known = [n \in Keys |-> {<<l[2], l[3]>> : l \in {m \in g.links : m[1] = n}}]
        /\ link = [e \in {<<l[1], l[2]>> : l \in g.links} |->
                     LET t == (CHOOSE l \in g.links : <<l[1], l[2]>> = e)[3]
                     IN [type |-> t, orig |-> t, visible |-> TRUE]]
        /\ modified = {} /\ dirty = FALSE
        /\ save = [k \in 1..MaxSaves |-> Idle] /\ calls = {}
        /\ rows = g.rows /\ stored = [i \in Rows |-> FALSE] /\ rel = g.links
        /\ nextRow = Cardinality(g.rows) + 1
        /\ edits = 0 /\ faults = 0 /\ slips = {}
  BY DEF Init
<1>2. /\ g.rows \subseteq Keys /\ Keys \subseteq Rows
      /\ g.links \subseteq g.rows \X g.rows \X LinkTypes
  BY GraphsAssumption, KeysAssumption
<1>3. \A l \in g.links : l[1] \in g.rows /\ l[2] \in g.rows /\ l[3] \in LinkTypes
  BY <1>2
<1>4. /\ id \in [Keys -> 0..MaxRows] /\ content \in [Keys -> BOOLEAN]
      /\ approval \in [Keys -> ApprovalIds]
  BY <1>1, <1>2, BoundsAssumption DEF Rows, ApprovalIds
<1>5. known \in [Keys -> SUBSET (Rows \X LinkTypes)]
  BY <1>1, <1>2, <1>3
<1>6. \A e \in DOMAIN link : link[e] \in [type : LinkTypes, orig : LinkTypes, visible : BOOLEAN]
  <2> TAKE e \in DOMAIN link
  <2> DEFINE l == CHOOSE l \in g.links : <<l[1], l[2]>> = e
  <2>1. \E m \in g.links : <<m[1], m[2]>> = e
    BY <1>1
  <2>2. l \in g.links
    BY <2>1
  <2>3. link[e] = [type |-> l[3], orig |-> l[3], visible |-> TRUE]
    BY <1>1
  <2> HIDE DEF l
  <2> QED BY <1>3, <2>2, <2>3
<1>7. DOMAIN link \subseteq steps \X steps
  BY <1>1, <1>3
<1>8. save \in [Saves -> SaveType]
  BY <1>1, NumberOfStages DEF Idle, SaveType, ListOfLinks, Saves
<1>9. nextRow \in 1..(MaxRows + 1)
  BY <1>1, SavedRows, BoundsAssumption
<1>10. rows \subseteq Rows /\ rel \subseteq Rows \X Rows \X LinkTypes /\ steps \subseteq Keys
  BY <1>1, <1>2
<1>11. \A k \in 1..MaxSaves : save[k].stage \in 0..Finished /\ save[k].failed \in BOOLEAN
  BY <1>8 DEF SaveType, Saves
<1>12. /\ edits \in 0..MaxEdits /\ faults \in 0..MaxFaults
       /\ stored \in [Rows -> BOOLEAN]
  BY <1>1, BoundsAssumption
<1>13. DOMAIN link \subseteq Pairs
  BY <1>7, <1>10 DEF Pairs
<1>14. TypeOK
  BY <1>1, <1>4, <1>5, <1>6, <1>9, <1>10, <1>11, <1>12, <1>13 DEF TypeOK
<1> QED BY <1>1, <1>7, <1>8, <1>14 DEF Typed

LinksTyped ==
  /\ DOMAIN link \subseteq steps \X steps
  /\ \A e \in DOMAIN link : link[e] \in [type : LinkTypes, orig : LinkTypes, visible : BOOLEAN]

LEMMA EditKeepsTypes ==
  ASSUME Typed, Editable, LinksTyped',
         steps' \subseteq Keys, hidden' \subseteq steps', modified' \subseteq Keys,
         content' \in [Keys -> BOOLEAN], approval' \in [Keys -> ApprovalIds], dirty' \in BOOLEAN,
         edits' = edits + 1, slips' \subseteq Slips,
         UNCHANGED <<id, known, save, calls, server, faults>>
  PROVE  Typed'
<1>1. edits' \in 0..MaxEdits
  BY BoundsAssumption DEF Typed, TypeOK, Editable
<1>2. UNCHANGED <<id, known, save, calls, rows, stored, rel, nextRow, faults>>
  BY DEF server
<1>3. DOMAIN link' \subseteq Pairs
  BY DEF LinksTyped, Pairs
<1>4. TypeOK'
  BY <1>1, <1>2, <1>3 DEF Typed, TypeOK, LinksTyped
<1> QED BY <1>2, <1>4 DEF Typed, LinksTyped, CallTyped

LEMMA EditSlipsTyped == EditSlips \subseteq Slips
BY DEF EditSlips, Slips

LEMMA NewLinkTyped ==
  ASSUME Typed, NEW e, NEW t \in LinkTypes
  PROVE  /\ DOMAIN With(e, NewLink(t)) = DOMAIN link \cup {e}
         /\ \A p \in DOMAIN link \cup {e} :
              /\ With(e, NewLink(t))[p] = IF p = e THEN NewLink(t) ELSE link[p]
              /\ With(e, NewLink(t))[p] \in [type : LinkTypes, orig : LinkTypes, visible : BOOLEAN]
BY DEF With, NewLink, Typed, TypeOK

LEMMA AddStepTyped ==
  ASSUME Typed, NEW n \in Keys, AddStep(n)
  PROVE  Typed'
<1>1. /\ Editable /\ n \in Keys \ steps /\ steps' = steps \cup {n} /\ hidden' = hidden
      /\ content' = [content EXCEPT ![n] = TRUE] /\ dirty' = TRUE
      /\ approval' = [approval EXCEPT ![n] = IF n \in Approvals THEN "unset" ELSE "no"]
      /\ edits' = edits + 1 /\ slips' = slips \cup EditSlips
      /\ UNCHANGED <<id, known, save, calls, server, faults>>
  BY DEF AddStep, Edited
<1>2. /\ steps' \subseteq Keys /\ hidden' \subseteq steps' /\ content' \in [Keys -> BOOLEAN]
      /\ approval' \in [Keys -> ApprovalIds] /\ dirty' \in BOOLEAN
  BY <1>1 DEF Typed, TypeOK, ApprovalIds
<1>3. slips' \subseteq Slips
  BY <1>1, EditSlipsTyped DEF Typed, TypeOK
<1>4. LinksTyped' /\ modified' \subseteq Keys
  <2>1. CASE link' = link /\ modified' = modified \cup {n}
    BY <1>1, <2>1 DEF Typed, TypeOK, LinksTyped
  <2>2. CASE \E r \in Visible, t \in LinkTypes :
               link' = With(<<r, n>>, NewLink(t)) /\ modified' = modified \cup {n, r}
    <3>1. PICK r \in Visible, t \in LinkTypes :
               link' = With(<<r, n>>, NewLink(t)) /\ modified' = modified \cup {n, r}
      BY <2>2
    <3>2. r \in steps /\ r \in Keys
      BY DEF Visible, Typed, TypeOK
    <3>3. /\ DOMAIN link' = DOMAIN link \cup {<<r, n>>}
          /\ \A p \in DOMAIN link' : link'[p] \in [type : LinkTypes, orig : LinkTypes, visible : BOOLEAN]
      <4> DEFINE f == With(<<r, n>>, NewLink(t))
      <4>1. /\ DOMAIN f = DOMAIN link \cup {<<r, n>>}
            /\ \A p \in DOMAIN link \cup {<<r, n>>} : f[p] \in [type : LinkTypes, orig : LinkTypes, visible : BOOLEAN]
        BY NewLinkTyped
      <4>2. link' = f
        BY <3>1
      <4> HIDE DEF f
      <4> QED BY <4>1, <4>2
    <3>4. DOMAIN link' \subseteq steps' \X steps'
      BY <1>1, <3>2, <3>3 DEF Typed
    <3>5. modified' \subseteq Keys
      BY <3>1, <3>2 DEF Typed, TypeOK
    <3> QED BY <3>3, <3>4, <3>5 DEF LinksTyped
  <2> QED BY <2>1, <2>2 DEF AddStep
<1> QED BY <1>1, <1>2, <1>3, <1>4, EditKeepsTypes

LEMMA ConnectTyped ==
  ASSUME Typed, NEW a \in Keys, NEW b \in Keys, Connect(a, b)
  PROVE  Typed'
<1>1. /\ Editable /\ a \in Visible /\ b \in Visible
      /\ link' = With(<<a, b>>, NewLink("always"))
      /\ modified' = modified \cup {a} /\ dirty' = TRUE
      /\ edits' = edits + 1 /\ slips' = slips \cup EditSlips
      /\ UNCHANGED <<steps, hidden, content, approval>>
      /\ UNCHANGED <<id, known, save, calls, server, faults>>
  BY DEF Connect, Edited
<1>2. a \in steps /\ b \in steps
  BY <1>1 DEF Visible
<1>3. LinksTyped'
  <2>1. "always" \in LinkTypes
    BY DEF LinkTypes
  <2>2. /\ DOMAIN link' = DOMAIN link \cup {<<a, b>>}
        /\ \A p \in DOMAIN link' : link'[p] \in [type : LinkTypes, orig : LinkTypes, visible : BOOLEAN]
    <3> DEFINE f == With(<<a, b>>, NewLink("always"))
    <3>1. /\ DOMAIN f = DOMAIN link \cup {<<a, b>>}
          /\ \A p \in DOMAIN link \cup {<<a, b>>} : f[p] \in [type : LinkTypes, orig : LinkTypes, visible : BOOLEAN]
      BY <2>1, NewLinkTyped
    <3>2. link' = f
      BY <1>1
    <3> HIDE DEF f
    <3> QED BY <3>1, <3>2
  <2>3. DOMAIN link' \subseteq steps' \X steps'
    BY <1>1, <1>2, <2>2 DEF Typed
  <2> QED BY <2>2, <2>3 DEF LinksTyped
<1>4. slips' \subseteq Slips
  BY <1>1, EditSlipsTyped DEF Typed, TypeOK
<1>5. /\ steps' \subseteq Keys /\ hidden' \subseteq steps' /\ modified' \subseteq Keys
      /\ content' \in [Keys -> BOOLEAN] /\ approval' \in [Keys -> ApprovalIds] /\ dirty' \in BOOLEAN
  BY <1>1 DEF Typed, TypeOK
<1> QED BY <1>1, <1>3, <1>4, <1>5, EditKeepsTypes

LEMMA SetLinkTyped ==
  ASSUME Typed, NEW e \in DOMAIN link, NEW t \in LinkTypes, SetLink(e, t)
  PROVE  Typed'
<1>1. /\ Editable
      /\ link' = [link EXCEPT ![e].type = t]
      /\ edits' = edits + 1
      /\ UNCHANGED <<steps, hidden, content, approval>>
      /\ UNCHANGED <<id, known, save, calls, server, faults>>
  BY DEF SetLink
<1>2. modified' = modified \ {e[1]} \/ modified' = modified \cup {e[1]}
  BY DEF SetLink
<1>3. slips' \subseteq slips \cup EditSlips \cup {"reverted"} /\ dirty' \in BOOLEAN
  BY DEF SetLink
<1>4. LinksTyped'
  <2>1. DOMAIN link' = DOMAIN link
    BY <1>1
  <2>2. \A p \in DOMAIN link : link'[p] = IF p = e THEN [link[p] EXCEPT !.type = t] ELSE link[p]
    BY <1>1
  <2> QED BY <1>1, <2>1, <2>2 DEF LinksTyped, Typed, TypeOK
<1>5. slips' \subseteq Slips
  BY <1>3, EditSlipsTyped DEF Typed, TypeOK, Slips
<1>6. e[1] \in Keys
  BY DEF Typed, TypeOK, Pairs
<1>7. /\ steps' \subseteq Keys /\ hidden' \subseteq steps' /\ modified' \subseteq Keys
      /\ content' \in [Keys -> BOOLEAN] /\ approval' \in [Keys -> ApprovalIds]
  BY <1>1, <1>2, <1>6 DEF Typed, TypeOK
<1> QED BY <1>1, <1>3, <1>4, <1>5, <1>7, EditKeepsTypes

LEMMA RemoveLinkTyped ==
  ASSUME Typed, NEW e \in DOMAIN link, RemoveLink(e)
  PROVE  Typed'
<1>1. /\ Editable
      /\ link' = [link EXCEPT ![e].visible = FALSE]
      /\ modified' = modified \cup {e[1], e[2]} /\ dirty' = TRUE
      /\ edits' = edits + 1 /\ slips' = slips \cup EditSlips
      /\ UNCHANGED <<steps, hidden, content, approval>>
      /\ UNCHANGED <<id, known, save, calls, server, faults>>
  BY DEF RemoveLink, Edited
<1>2. LinksTyped'
  <2>1. DOMAIN link' = DOMAIN link
    BY <1>1
  <2>2. \A p \in DOMAIN link : link'[p] = IF p = e THEN [link[p] EXCEPT !.visible = FALSE] ELSE link[p]
    BY <1>1
  <2> QED BY <1>1, <2>1, <2>2 DEF LinksTyped, Typed, TypeOK
<1>3. slips' \subseteq Slips
  BY <1>1, EditSlipsTyped DEF Typed, TypeOK
<1>4. e[1] \in Keys /\ e[2] \in Keys
  BY DEF Typed, TypeOK, Pairs
<1>5. /\ steps' \subseteq Keys /\ hidden' \subseteq steps' /\ modified' \subseteq Keys
      /\ content' \in [Keys -> BOOLEAN] /\ approval' \in [Keys -> ApprovalIds] /\ dirty' \in BOOLEAN
  BY <1>1, <1>4 DEF Typed, TypeOK
<1> QED BY <1>1, <1>2, <1>3, <1>5, EditKeepsTypes

LEMMA EditStepTyped ==
  ASSUME Typed, NEW n \in Keys, EditStep(n)
  PROVE  Typed'
<1>1. /\ Editable /\ n \in Visible
      /\ content' = [content EXCEPT ![n] = TRUE]
      /\ approval' \in [Keys -> ApprovalIds]
      /\ modified' = modified \cup {n} /\ dirty' = TRUE
      /\ edits' = edits + 1 /\ slips' = slips \cup EditSlips
      /\ UNCHANGED <<steps, hidden, link>>
      /\ UNCHANGED <<id, known, save, calls, server, faults>>
  <2>1. approval' = approval \/ \E a \in Becomes(approval[n]) : approval' = [approval EXCEPT ![n] = a]
    BY DEF EditStep
  <2>2. Becomes(approval[n]) \subseteq ApprovalIds
    BY DEF Becomes, ApprovalIds
  <2>3. approval' \in [Keys -> ApprovalIds]
    BY <2>1, <2>2 DEF Typed, TypeOK
  <2> QED BY <2>3 DEF EditStep, Edited
<1>2. slips' \subseteq Slips
  BY <1>1, EditSlipsTyped DEF Typed, TypeOK
<1>3. /\ steps' \subseteq Keys /\ hidden' \subseteq steps' /\ modified' \subseteq Keys
      /\ content' \in [Keys -> BOOLEAN] /\ approval' \in [Keys -> ApprovalIds] /\ dirty' \in BOOLEAN
  BY <1>1 DEF Typed, TypeOK
<1>4. LinksTyped'
  BY <1>1 DEF LinksTyped, Typed, TypeOK
<1> QED BY <1>1, <1>2, <1>3, <1>4, EditKeepsTypes

\* Parents and children of a step, by links hidden or not.
ParentsOf(n) == {e[1] : e \in {p \in DOMAIN link : p[2] = n}}
ChildrenOf(n) == {e[2] : e \in {p \in DOMAIN link : p[1] = n}}

\* What the removal of a step does to the links.
LEMMA Removal ==
  ASSUME Typed, NEW n \in Keys, RemoveStep(n)
  PROVE  /\ Editable /\ Quiet /\ n \in Visible
         /\ hidden' = hidden \cup {n}
         /\ DOMAIN link' = DOMAIN link \cup (ParentsOf(n) \X ChildrenOf(n))
         /\ \A e \in DOMAIN link' :
              /\ n \in {e[1], e[2]} =>
                   e \in DOMAIN link /\ link'[e] = [link[e] EXCEPT !.visible = FALSE]
              /\ n \notin {e[1], e[2]} /\ e \in ParentsOf(n) \X ChildrenOf(n) =>
                   link'[e] = IF e \in DOMAIN link THEN [link[e] EXCEPT !.visible = TRUE]
                              ELSE NewLink(link[<<n, e[2]>>].type)
              /\ n \notin {e[1], e[2]} /\ e \notin ParentsOf(n) \X ChildrenOf(n) =>
                   e \in DOMAIN link /\ link'[e] = link[e]
         /\ modified' = modified \cup IF ChildrenOf(n) = {} THEN {} ELSE ParentsOf(n)
         /\ dirty' = TRUE
         /\ edits' = edits + 1 /\ slips' = slips \cup EditSlips
         /\ UNCHANGED <<steps, content, approval>>
         /\ UNCHANGED <<id, known, save, calls, server, faults>>
<1> DEFINE parents == {e[1] : e \in {p \in DOMAIN link : p[2] = n}}
           children == {e[2] : e \in {p \in DOMAIN link : p[1] = n}}
           new(e) == IF n \in {e[1], e[2]} THEN [link[e] EXCEPT !.visible = FALSE]
                     ELSE IF e \notin parents \X children THEN link[e]
                     ELSE IF e \in DOMAIN link THEN [link[e] EXCEPT !.visible = TRUE]
                     ELSE NewLink(link[<<n, e[2]>>].type)
<1>1. parents = ParentsOf(n) /\ children = ChildrenOf(n)
  BY DEF ParentsOf, ChildrenOf
<1>2. /\ Editable /\ Quiet /\ n \in Visible
      /\ hidden' = hidden \cup {n}
      /\ link' = [e \in DOMAIN link \cup (parents \X children) |-> new(e)]
      /\ modified' = modified \cup IF children = {} THEN {} ELSE parents
      /\ dirty' = TRUE
      /\ edits' = edits + 1 /\ slips' = slips \cup EditSlips
      /\ UNCHANGED <<steps, content, approval>>
      /\ UNCHANGED <<id, known, save, calls, server, faults>>
  BY DEF RemoveStep, Edited
<1>3. DOMAIN link \subseteq steps \X steps
  BY DEF Typed
<1>4. \A e \in DOMAIN link \cup (parents \X children) : n \in {e[1], e[2]} => e \in DOMAIN link
  <2> SUFFICES ASSUME NEW e \in parents \X children, n \in {e[1], e[2]}
               PROVE  e \in DOMAIN link
    OBVIOUS
  <2>1. PICK p \in DOMAIN link : p[2] = n /\ e[1] = p[1]
    OBVIOUS
  <2>2. PICK q \in DOMAIN link : q[1] = n /\ e[2] = q[2]
    OBVIOUS
  <2>3. e = <<p[1], q[2]>> /\ p = <<p[1], n>> /\ q = <<n, q[2]>>
    BY <1>3, <2>1, <2>2
  <2> QED BY <2>1, <2>2, <2>3
<1>5. \A e : /\ n \in {e[1], e[2]} => new(e) = [link[e] EXCEPT !.visible = FALSE]
             /\ n \notin {e[1], e[2]} /\ e \in parents \X children =>
                  new(e) = IF e \in DOMAIN link THEN [link[e] EXCEPT !.visible = TRUE]
                           ELSE NewLink(link[<<n, e[2]>>].type)
             /\ n \notin {e[1], e[2]} /\ e \notin parents \X children => new(e) = link[e]
  OBVIOUS
<1> HIDE DEF new, parents, children
<1> QED BY <1>1, <1>2, <1>4, <1>5

LEMMA RemoveStepTyped ==
  ASSUME Typed, NEW n \in Keys, RemoveStep(n)
  PROVE  Typed'
<1>1. ParentsOf(n) \subseteq steps /\ ChildrenOf(n) \subseteq steps /\ steps \subseteq Keys
  BY DEF ParentsOf, ChildrenOf, Typed, TypeOK
<1>2. DOMAIN link' \subseteq steps' \X steps'
  BY <1>1, Removal DEF Typed
<1>3. \A e \in DOMAIN link' : link'[e] \in [type : LinkTypes, orig : LinkTypes, visible : BOOLEAN]
  <2> TAKE e \in DOMAIN link'
  <2> DEFINE T == [type : LinkTypes, orig : LinkTypes, visible : BOOLEAN]
  <2>1. \A p \in DOMAIN link : link[p] \in T
    BY DEF Typed, TypeOK
  <2>2. CASE n \in {e[1], e[2]}
    <3>1. e \in DOMAIN link /\ link'[e] = [link[e] EXCEPT !.visible = FALSE]
      BY <2>2, Removal
    <3> QED BY <2>1, <3>1
  <2>3. CASE n \notin {e[1], e[2]} /\ e \in ParentsOf(n) \X ChildrenOf(n)
    <3>1. <<n, e[2]>> \in DOMAIN link
      <4>1. PICK q \in DOMAIN link : q[1] = n /\ e[2] = q[2]
        BY <2>3 DEF ChildrenOf
      <4> QED BY <4>1 DEF Typed
    <3>2. link[<<n, e[2]>>].type \in LinkTypes
      BY <2>1, <3>1
    <3>3. NewLink(link[<<n, e[2]>>].type) \in T
      BY <3>2 DEF NewLink
    <3>4. link'[e] = IF e \in DOMAIN link THEN [link[e] EXCEPT !.visible = TRUE]
                     ELSE NewLink(link[<<n, e[2]>>].type)
      BY <2>3, Removal
    <3> QED BY <2>1, <3>3, <3>4
  <2>4. CASE n \notin {e[1], e[2]} /\ e \notin ParentsOf(n) \X ChildrenOf(n)
    <3>1. e \in DOMAIN link /\ link'[e] = link[e]
      BY <2>4, Removal
    <3> QED BY <2>1, <3>1
  <2> QED BY <2>2, <2>3, <2>4
<1>4. slips' \subseteq Slips
  BY Removal, EditSlipsTyped DEF Typed, TypeOK
<1>5. /\ steps' \subseteq Keys /\ hidden' \subseteq steps' /\ modified' \subseteq Keys
      /\ content' \in [Keys -> BOOLEAN] /\ approval' \in [Keys -> ApprovalIds] /\ dirty' \in BOOLEAN
  BY <1>1, Removal DEF Typed, TypeOK, Visible
<1> QED BY <1>2, <1>3, <1>4, <1>5, Removal, EditKeepsTypes DEF LinksTyped

\* What the steps of a suggestion do to the drawing.
LEMMA Suggestion ==
  ASSUME Typed, NEW ns \in SUBSET Keys, AddPlan(ns)
  PROVE  /\ Editable /\ Quiet /\ ns \cap steps = {}
         /\ steps' = steps \cup ns /\ hidden' = hidden
         /\ \A n \in Keys \ ns : content'[n] = content[n]
         /\ content' \in [Keys -> BOOLEAN] /\ approval' \in [Keys -> ApprovalIds]
         /\ modified' = modified \cup ns /\ dirty' = TRUE /\ edits' = edits + 1
         /\ UNCHANGED <<id, known, save, calls, server, faults>>
         /\ \E es \in SUBSET (ns \X ns) :
              /\ DOMAIN link' = DOMAIN link \cup es
              /\ \A e \in DOMAIN link' : link'[e] \in [type : LinkTypes, orig : LinkTypes, visible : BOOLEAN]
              /\ \A e \in DOMAIN link : link'[e] = link[e]
              /\ slips' = slips \cup EditSlips \cup (IF Cyclic(es) THEN {"cycle"} ELSE {})
<1>1. /\ Editable /\ Quiet /\ ns \subseteq Keys \ steps
      /\ steps' = steps \cup ns /\ hidden' = hidden
      /\ content' = [n \in Keys |-> content[n] \/ n \in ns]
      /\ approval' = [n \in Keys |-> IF n \notin ns THEN approval[n]
                                    ELSE IF n \in Approvals THEN "new" ELSE "no"]
      /\ modified' = modified \cup ns /\ dirty' = TRUE /\ edits' = edits + 1
      /\ UNCHANGED <<id, known, save, calls, server, faults>>
  BY DEF AddPlan
<1>11. PICK es \in SUBSET {e \in ns \X ns : e[1] # e[2]} : \E type \in [es -> LinkTypes] \cap Suggestions :
        /\ link' = [e \in DOMAIN link \cup es |-> IF e \in es THEN NewLink(type[e]) ELSE link[e]]
        /\ slips' = slips \cup EditSlips \cup (IF Cyclic(es) THEN {"cycle"} ELSE {})
  BY DEF AddPlan
<1>2. PICK type \in [es -> LinkTypes] \cap Suggestions :
        /\ link' = [e \in DOMAIN link \cup es |-> IF e \in es THEN NewLink(type[e]) ELSE link[e]]
        /\ slips' = slips \cup EditSlips \cup (IF Cyclic(es) THEN {"cycle"} ELSE {})
  BY <1>11
<1>3. DOMAIN link \cap es = {}
  BY <1>1 DEF Typed
<1>4. es \in SUBSET (ns \X ns) /\ DOMAIN link' = DOMAIN link \cup es
  BY <1>2
<1>5. \A e \in DOMAIN link : link'[e] = link[e]
  BY <1>2, <1>3
<1>6. \A e \in es : link'[e] \in [type : LinkTypes, orig : LinkTypes, visible : BOOLEAN]
  BY <1>2 DEF NewLink
<1>7. \A e \in DOMAIN link' : link'[e] \in [type : LinkTypes, orig : LinkTypes, visible : BOOLEAN]
  BY <1>4, <1>5, <1>6 DEF Typed, TypeOK
<1>8. \A n \in Keys \ ns : content'[n] = content[n]
  BY <1>1 DEF Typed, TypeOK
<1>9. content' \in [Keys -> BOOLEAN]
  BY <1>1 DEF Typed, TypeOK
<1>10. approval' \in [Keys -> ApprovalIds]
  BY <1>1 DEF Typed, TypeOK, ApprovalIds
<1> QED BY <1>1, <1>2, <1>4, <1>5, <1>7, <1>8, <1>9, <1>10

LEMMA AddPlanTyped ==
  ASSUME Typed, NEW ns \in SUBSET Keys, AddPlan(ns)
  PROVE  Typed'
<1>1. PICK es \in SUBSET (ns \X ns) :
        /\ DOMAIN link' = DOMAIN link \cup es
        /\ \A e \in DOMAIN link' : link'[e] \in [type : LinkTypes, orig : LinkTypes, visible : BOOLEAN]
        /\ slips' = slips \cup EditSlips \cup (IF Cyclic(es) THEN {"cycle"} ELSE {})
  BY Suggestion
<1>2. steps' = steps \cup ns /\ hidden' = hidden /\ modified' = modified \cup ns
  BY Suggestion
<1>3. LinksTyped'
  BY <1>1, <1>2 DEF Typed, LinksTyped
<1>4. slips' \subseteq Slips
  BY <1>1, EditSlipsTyped DEF Typed, TypeOK, Slips
<1>5. steps' \subseteq Keys /\ hidden' \subseteq steps' /\ modified' \subseteq Keys
  BY <1>2 DEF Typed, TypeOK
<1>6. dirty' \in BOOLEAN
  BY Suggestion
<1> QED BY <1>3, <1>4, <1>5, <1>6, Suggestion, EditKeepsTypes

LEMMA EditTyped == Typed /\ Edit => Typed'
BY AddStepTyped, AddPlanTyped, ConnectTyped, SetLinkTyped, RemoveLinkTyped, EditStepTyped, RemoveStepTyped DEF Edit

LEMMA ProceedTyped ==
  ASSUME Typed, NEW k \in Saves, NEW v \in SaveType, v.stage \in 0..LastStage,
         Proceed(k, v), slips' \subseteq Slips
  PROVE  Typed'
<1>1. PICK s \in (v.stage + 1)..Finished : GoesTo(k, v, s)
  BY Proceeds DEF Typed, TypeOK
<1>2. s \in 0..Finished /\ s >= 1
  BY <1>1, NumberOfStages DEF LastStage
<1>3. Ready(v) \in SaveType
  BY ReadyTyped
<1>4. [v EXCEPT !.stage = s] \in SaveType /\ [Ready(v) EXCEPT !.stage = s] \in SaveType
  BY <1>2, <1>3 DEF SaveType
<1>5. save' \in [Saves -> SaveType]
  BY <1>1, <1>4 DEF GoesTo, Typed
<1>6. \A c \in calls' : CallTyped(c)
  <2>1. CASE s = Finished
    BY <1>1, <2>1 DEF GoesTo, Typed
  <2>2. CASE s # Finished
    <3>1. s \in 1..Len(Stages)
      BY <1>2, <2>2, NumberOfStages
    <3>2. \A c \in Requests(k, Ready(v), s) : CallTyped(c)
      BY <1>3, <3>1, RequestsTyped
    <3> QED BY <1>1, <2>2, <3>2 DEF GoesTo, Typed
  <2> QED BY <2>1, <2>2
<1>7. modified' \subseteq Keys /\ dirty' \in BOOLEAN
  BY <1>1 DEF GoesTo, Typed, TypeOK
<1>8. UNCHANGED <<steps, hidden, id, content, approval, known, link, rows, stored, rel, nextRow, edits, faults>>
  BY <1>1 DEF GoesTo, server
<1>9. \A j \in 1..MaxSaves : save'[j].stage \in 0..Finished /\ save'[j].failed \in BOOLEAN
  BY <1>5 DEF SaveType, Saves
<1>10. TypeOK'
  BY <1>7, <1>8, <1>9 DEF Typed, TypeOK
<1> QED BY <1>5, <1>6, <1>8, <1>10 DEF Typed

LEMMA SavePressTyped == ASSUME Typed, NEW k \in Saves, SavePress(k) PROVE Typed'
<1>1. Sorted \in SaveType /\ Sorted.stage = 0
  BY ListsTyped DEF Sorted, Idle
<1>2. slips' \subseteq Slips
  BY DEF SavePress, Typed, TypeOK, Slips
<1>3. Proceed(k, Sorted)
  BY DEF SavePress
<1> QED BY <1>1, <1>2, <1>3, ProceedTyped, NumberOfStages DEF LastStage

LEMMA AdvanceTyped == ASSUME Typed, NEW k \in Saves, Advance(k) PROVE Typed'
<1>1. save[k] \in SaveType
  BY DEF Typed
<1>2. save[k].stage \in 0..LastStage
  BY NumberOfStages DEF Advance, Running, LastStage
<1>3. Proceed(k, save[k]) /\ slips' \subseteq Slips
  BY DEF Advance, Typed, TypeOK
<1> QED BY <1>1, <1>2, <1>3, ProceedTyped

\* What the server and the step of an answered request come to.
LEMMA AnswerKeepsTypes ==
  ASSUME Typed, NEW c \in calls, Answer(c),
         id' \in [Keys -> 0..MaxRows], known' \in [Keys -> SUBSET (Rows \X LinkTypes)],
         rows' \subseteq Rows, stored' \in [Rows -> BOOLEAN],
         rel' \subseteq Rows \X Rows \X LinkTypes, nextRow' \in 1..(MaxRows + 1),
         \A d \in calls' : CallTyped(d)
  PROVE  Typed'
<1>1. /\ UNCHANGED <<steps, hidden, content, approval, link, modified, dirty, save, edits, faults>>
      /\ slips' \subseteq slips \cup {"forgotten"}
  BY DEF Answer
<1>2. slips' \subseteq Slips
  BY <1>1 DEF Typed, TypeOK, Slips
<1>3. TypeOK'
  BY <1>1, <1>2 DEF Typed, TypeOK
<1> QED BY <1>1, <1>3 DEF Typed

LEMMA AnswerTyped ==
  ASSUME Typed, NEW c \in calls, Answer(c)
  PROVE  Typed'
<1>1. CallTyped(c) /\ Accepts(c)
  BY DEF Typed, Answer
<1>2. /\ rows \subseteq Rows /\ nextRow \in 1..(MaxRows + 1) /\ stored \in [Rows -> BOOLEAN]
      /\ rel \subseteq Rows \X Rows \X LinkTypes
      /\ id \in [Keys -> 0..MaxRows] /\ known \in [Keys -> SUBSET (Rows \X LinkTypes)]
      /\ \A d \in calls : CallTyped(d)
  BY DEF Typed, TypeOK
<1>3. ASSUME nextRow <= MaxRows
      PROVE  nextRow \in Rows /\ nextRow + 1 \in 1..(MaxRows + 1)
  BY <1>2, <1>3, BoundsAssumption DEF Rows
<1>4. CASE AnswerCreate(c)
  <2>1. nextRow <= MaxRows
    BY <1>1, <1>4 DEF Accepts, AnswerCreate
  <2>2. rows' = rows \cup {nextRow} /\ nextRow' = nextRow + 1 /\ rel' = rel
    BY <1>4 DEF AnswerCreate, AddRow
  <2>3. calls' = (calls \ {c}) \cup {[save |-> c.save, op |-> "finish", step |-> c.step, row |-> nextRow]}
    BY <1>4 DEF AnswerCreate
  <2>4. CallTyped([save |-> c.save, op |-> "finish", step |-> c.step, row |-> nextRow])
    BY <1>1, <1>3, <1>4, <2>1 DEF CallTyped, AnswerCreate
  <2> QED BY <1>2, <1>3, <1>4, <2>1, <2>2, <2>3, <2>4, AnswerKeepsTypes DEF AnswerCreate
<1>5. CASE AnswerFinish(c)
  <2>1. c.row \in Rows /\ c.step \in Keys
    BY <1>1, <1>5 DEF AnswerFinish, CallTyped
  <2>2. id' \in [Keys -> 0..MaxRows]
    BY <1>2, <1>5, <2>1, BoundsAssumption DEF AnswerFinish, Rows
  <2>3. known' \in [Keys -> SUBSET (Rows \X LinkTypes)] /\ stored' \in [Rows -> BOOLEAN]
    BY <1>2, <1>5, <2>1 DEF AnswerFinish
  <2>4. calls' \subseteq calls /\ UNCHANGED <<rows, rel, nextRow>>
    BY <1>5 DEF AnswerFinish
  <2> QED BY <1>2, <2>2, <2>3, <2>4, AnswerKeepsTypes
<1>6. CASE AnswerUpdate(c)
  <2>1. UNCHANGED <<id, known, rows, rel, nextRow>>
    BY <1>6 DEF AnswerUpdate
  <2>2. c.row \in rows /\ c.row \in Rows /\ c.new \in BOOLEAN /\ c.step \in Keys
    BY <1>1, <1>2, <1>6 DEF Accepts, CallTyped, AnswerUpdate
  <2>3. stored' \in [Rows -> BOOLEAN]
    BY <1>2, <1>6, <2>2 DEF AnswerUpdate
  <2> DEFINE f == [save |-> c.save, op |-> "finish", step |-> c.step, row |-> c.row]
  <2>4. CallTyped(f)
    BY <1>1, <2>2 DEF CallTyped
  <2>5. calls' \subseteq calls \cup {f}
    BY <1>6 DEF AnswerUpdate
  <2> HIDE DEF f
  <2>6. \A d \in calls' : CallTyped(d)
    BY <1>2, <2>4, <2>5
  <2> QED BY <1>2, <2>1, <2>3, <2>6, AnswerKeepsTypes
<1>7. CASE AnswerUnlink(c)
  BY <1>2, <1>7, AnswerKeepsTypes DEF AnswerUnlink
<1>8. CASE AnswerLink(c)
  <2>1. calls' \subseteq calls /\ UNCHANGED <<id, known, stored>> /\ c.type \in LinkTypes
    BY <1>1, <1>8 DEF AnswerLink, CallTyped
  <2>2. CASE c.to = 0
    <3>1. nextRow <= MaxRows /\ c.row \in rows
      BY <1>1, <1>8, <2>2 DEF Accepts, AnswerLink
    <3>2. rows' = rows \cup {nextRow} /\ nextRow' = nextRow + 1 /\ rel' = rel \cup {<<c.row, nextRow, c.type>>}
      BY <1>8, <2>2 DEF AnswerLink, AddRow
    <3> QED BY <1>2, <1>3, <2>1, <3>1, <3>2, AnswerKeepsTypes
  <2>3. CASE c.to # 0
    <3>1. {c.row, c.to} \subseteq rows
      BY <1>1, <1>8, <2>3 DEF Accepts, AnswerLink
    <3>2. rel' = rel \cup {<<c.row, c.to, c.type>>} /\ UNCHANGED <<rows, nextRow>>
      BY <1>8, <2>3 DEF AnswerLink
    <3> QED BY <1>2, <2>1, <3>1, <3>2, AnswerKeepsTypes
  <2> QED BY <2>2, <2>3
<1>9. CASE AnswerDelete(c)
  BY <1>2, <1>9, AnswerKeepsTypes DEF AnswerDelete
<1> QED BY <1>4, <1>5, <1>6, <1>7, <1>8, <1>9 DEF Answer

LEMMA FailsTyped ==
  ASSUME Typed, NEW c \in calls, Fails(c), faults' \in 0..MaxFaults
  PROVE  Typed'
<1>1. CallTyped(c)
  BY DEF Typed
<1>2. /\ calls' \subseteq calls
      /\ UNCHANGED <<steps, hidden, id, content, approval, known, link, modified, dirty,
                     rows, stored, rel, nextRow, edits>>
  BY DEF Fails, drawing, server
<1>3. save' \in [Saves -> SaveType]
  <2>1. save[c.save] \in SaveType /\ [save[c.save] EXCEPT !.failed = TRUE] \in SaveType
    BY <1>1 DEF Typed, SaveType, CallTyped
  <2> QED BY <2>1 DEF Fails, Typed
<1>4. slips' \subseteq Slips
  BY DEF Fails, Slips, Typed, TypeOK
<1>5. \A j \in 1..MaxSaves : save'[j].stage \in 0..Finished /\ save'[j].failed \in BOOLEAN
  BY <1>3 DEF SaveType, Saves
<1>6. TypeOK'
  BY <1>2, <1>4, <1>5 DEF Typed, TypeOK
<1> QED BY <1>2, <1>3, <1>6 DEF Typed

LEMMA StepTyped == Typed /\ [Next]_vars => Typed'
<1> SUFFICES ASSUME Typed, [Next]_vars PROVE Typed'
  OBVIOUS
<1>1. CASE Edit
  BY <1>1, EditTyped
<1>2. CASE \E k \in 1..MaxSaves : SavePress(k) \/ Advance(k)
  BY <1>2, SavePressTyped, AdvanceTyped DEF Saves
<1>3. CASE \E c \in calls : Answer(c)
  BY <1>3, AnswerTyped
<1>4. CASE \E c \in calls : Refuse(c) \/ Break(c)
  <2>1. PICK c \in calls : Refuse(c) \/ Break(c)
    BY <1>4
  <2>2. Fails(c) /\ faults' \in 0..MaxFaults
    BY <2>1, BoundsAssumption DEF Refuse, Break, Typed, TypeOK
  <2> QED BY <2>2, FailsTyped
<1>5. CASE UNCHANGED vars
  BY <1>5 DEF vars, drawing, server, Typed, TypeOK
<1> QED BY <1>1, <1>2, <1>3, <1>4, <1>5 DEF Next

\* Every variable of the editor, its saves and the server keeps its type, for
\* any templates, edits and failing requests: a row is only made within the
\* bound, and no list of a save names a step or row there cannot be.
THEOREM TypeCorrect == Spec => []TypeOK
<1>1. Typed => TypeOK
  BY DEF Typed
<1> QED BY InitTyped, StepTyped, <1>1, PTL DEF Spec

-----------------------------------------------------------------------------
(* The invariant *)

\* Links form no cycle, those that are hidden included.
Acyclic ==
  \A X \in (SUBSET Keys) \ {{}} : \E n \in X : \A e \in DOMAIN link : e[2] = n => e[1] \notin X

\* Nothing of what the editor cannot deal with has happened: only one save at a
\* time, no edit during a save, no link to a step that never had a row.
Calm == slips \cap {"again", "meanwhile", "phantom"} = {}

\* The save that is under way or has requests on their way.
Current(k) == Running(k) \/ \E c \in calls : c.save = k
Over == \E k \in Saves : save[k].stage = Finished
\* A row is made for a step; the links known of a step that has a row are emptied.
Making(c) == c.op = "create" \/ (c.op = "finish" /\ id[c.step] # c.row)
Remaking(c) == c.op = "finish" /\ id[c.step] = c.row
Triple(c) == <<c.row, c.to, c.type>>
\* What a request is for.
MakesRow(c, n) == Making(c) /\ c.step = n
UpdatesStep(c, n) == (c.op = "update" \/ Remaking(c)) /\ c.step = n
TakesLink(c, l) == c.op = "unlink" /\ Triple(c) = l
AddsLink(c, l) == c.op = "link" /\ Triple(c) = l
DeletesRow(c, r) == c.op = "delete" /\ c.row = r

\* Saves come one after the other, each after the one before it has failed.
Turns ==
  /\ \A j, k \in Saves : j < k /\ save[k].stage # 0 => save[j].stage # 0 /\ save[j].failed
  /\ \A k \in Saves : Current(k) => /\ save[k].stage \in 1..LastStage
                                    /\ \A j \in Saves : j > k => save[j].stage = 0
  /\ Over => calls = {} /\ ~dirty /\ \A k \in Saves : ~Running(k)

\* A row belongs to one step, and those of the visible steps are there.
Ids ==
  /\ \A n, m \in Keys : id[n] = id[m] /\ id[n] # 0 => n = m
  /\ \A n \in Keys : id[n] < nextRow /\ (n \notin steps => id[n] = 0)
  /\ \A n \in Visible : id[n] \in rows \cup {0}
  /\ \A r \in rows : r < nextRow

\* A row is made for a step that has none, once.
Births ==
  \A c \in calls :
    /\ Making(c) => /\ c.step \in Visible /\ id[c.step] = 0
                    /\ \A d \in calls : Making(d) /\ d.step = c.step => c = d
    /\ c.op = "finish" /\ Making(c) =>
         /\ c.row \in rows
         /\ \A n \in Keys : id[n] # c.row
         /\ \A d \in calls : d.op = "finish" /\ d.row = c.row => c = d

\* A row has a step, or is about to get it.
Owned ==
  "half" \notin slips =>
    \A r \in rows : \/ \E n \in steps : id[n] = r
                    \/ \E c \in calls : c.op = "finish" /\ c.row = r

\* The lists of a save are what the drawing says.
ListsOf(v) ==
  /\ v.deleted = {id[n] : n \in {m \in hidden : id[m] # 0}}
  /\ v.fresh \subseteq Visible
  /\ \A n \in Visible : id[n] = 0 => n \in v.fresh
  /\ v.edited = Marked \ v.fresh
  /\ v.stage >= FirstOfLinks => v.unlink = Unlinks /\ v.link = Links
  /\ \A n \in Marked : \A e \in DOMAIN link :
       e[1] = n /\ link[e].visible /\ e[2] \in hidden => id[e[2]] # 0
Lists == \A k \in Saves : Current(k) => ListsOf(save[k])

\* A request is of the stage its save is in.
OfStage(c, v) ==
  /\ Making(c) => c.step \in v.fresh /\ CreateStage(approval[c.step]) = v.stage
  /\ c.op = "update" => /\ c.step \in v.edited /\ UpdateStage(approval[c.step]) = v.stage
                        /\ c.row = id[c.step] /\ c.new = content[c.step]
                        /\ c.approval = approval[c.step]
  /\ Remaking(c) => c.step \in v.edited /\ UpdateStage(approval[c.step]) = v.stage
  /\ c.op = "unlink" => Triple(c) \in v.unlink /\ UnlinkStage(c.type) = v.stage
  /\ c.op = "link" => Triple(c) \in v.link /\ LinkStage(c.type) = v.stage
  /\ c.op = "delete" => c.row \in v.deleted /\ v.stage = LastStage
CallsOfStage == \A c \in calls : OfStage(c, save[c.save])

\* Of what a save has to do only that is left whose stage is yet to come or,
\* unless the save has failed, whose request is on its way.
Left(v, s, waits) == s >= v.stage /\ (s = v.stage => v.failed \/ waits)
WorkLeft(v) ==
  /\ \A n \in v.fresh :
       /\ id[n] = 0 => Left(v, CreateStage(approval[n]), \E c \in calls : MakesRow(c, n))
       /\ id[n] # 0 => stored[id[n]] /\ CreateStage(approval[n]) <= v.stage
  /\ \A n \in v.edited : "swallowed" \notin slips /\ content[n] /\ ~stored[id[n]] =>
       Left(v, UpdateStage(approval[n]), \E c \in calls : UpdatesStep(c, n))
  /\ \A l \in v.unlink \cap rel :
       Left(v, UnlinkStage(l[3]), \E c \in calls : TakesLink(c, l))
  /\ \A l \in v.link \ rel : l[2] \in DrawnRows =>
       Left(v, LinkStage(l[3]), \E c \in calls : AddsLink(c, l))
  /\ \A r \in v.deleted \cap rows :
       Left(v, LastStage, \E c \in calls : DeletesRow(c, r))
Progress == \A k \in Saves : Current(k) => WorkLeft(save[k])

\* A request is for the same step as long as steps keep their rows.
LEMMA SameRows ==
  ASSUME id' = id
  PROVE  /\ \A c : (Making(c)' <=> Making(c)) /\ (Remaking(c)' <=> Remaking(c))
         /\ \A c, n : (MakesRow(c, n)' <=> MakesRow(c, n)) /\ (UpdatesStep(c, n)' <=> UpdatesStep(c, n))
BY DEF Making, Remaking, MakesRow, UpdatesStep

\* What the server has or had of a step's links, the drawing has, if hidden.
Edges ==
  /\ \A a \in Keys : \A w \in known[a] :
       id[a] # 0 /\ \E e \in DOMAIN link : e[1] = a /\ id[e[2]] = w[1]
  /\ \A l \in rel : /\ l[1] \in rows /\ l[2] \in rows
                    /\ \E e \in DOMAIN link : id[e[1]] = l[1] /\ id[e[2]] = l[2]

CInv == Turns /\ Ids /\ Births /\ Owned /\ Lists /\ CallsOfStage /\ Progress /\ Edges
IInv == Typed /\ ("cycle" \notin slips => Acyclic) /\ (Calm => CInv)

-----------------------------------------------------------------------------
(* A template as it is opened *)

LEMMA InitIInv == Init => IInv
<1> SUFFICES ASSUME Init PROVE IInv
  OBVIOUS
<1>1. PICK g \in SavedGraphs :
        /\ steps = g.rows /\ hidden = {}
        /\ id = [n \in Keys |-> IF n \in g.rows THEN n ELSE 0]
        /\ known = [n \in Keys |-> {<<l[2], l[3]>> : l \in {m \in g.links : m[1] = n}}]
        /\ DOMAIN link = {<<l[1], l[2]>> : l \in g.links}
        /\ save = [k \in 1..MaxSaves |-> Idle] /\ calls = {}
        /\ rows = g.rows /\ rel = g.links
        /\ nextRow = Cardinality(g.rows) + 1
  BY DEF Init
<1>2. /\ g.rows \subseteq Keys /\ Keys \subseteq Rows /\ g.rows = 1..Cardinality(g.rows)
      /\ g.links \subseteq g.rows \X g.rows \X LinkTypes
      /\ \A X \in (SUBSET g.rows) \ {{}} : \E n \in X : \A l \in g.links : l[2] = n => l[1] \notin X
  BY GraphsAssumption, KeysAssumption
<1>3. \A l \in g.links : l[1] \in g.rows /\ l[2] \in g.rows /\ l[3] \in LinkTypes
  BY <1>2
<1>4. \A n \in g.rows : n # 0 /\ n \in Keys /\ id[n] = n
  BY <1>1, <1>2 DEF Rows
<1>5. \A k \in Saves : save[k].stage = 0 /\ ~Current(k)
  BY <1>1 DEF Idle, Current, Running, Saves
<1>6. Acyclic
  <2> SUFFICES ASSUME NEW X \in (SUBSET Keys) \ {{}}
               PROVE  \E n \in X : \A e \in DOMAIN link : e[2] = n => e[1] \notin X
    BY DEF Acyclic
  <2>1. \A e \in DOMAIN link : \E l \in g.links : e[1] = l[1] /\ e[2] = l[2]
    BY <1>1
  <2>2. CASE X \cap g.rows = {}
    BY <1>3, <2>1, <2>2
  <2>3. CASE X \cap g.rows # {}
    <3>1. PICK n \in X \cap g.rows : \A l \in g.links : l[2] = n => l[1] \notin X \cap g.rows
      BY <1>2, <2>3
    <3> QED BY <1>3, <2>1, <3>1
  <2> QED BY <2>2, <2>3
<1>7. Turns
  BY <1>5, NumberOfStages DEF Turns, Over
<1>8. Ids
  <2>1. Cardinality(g.rows) \in Nat
    BY SavedRows, BoundsAssumption
  <2>2. \A n \in g.rows : n < nextRow
    BY <1>1, <1>2, <2>1
  <2>3. \A n \in Keys : id[n] < nextRow
    BY <1>1, <2>1, <2>2
  <2> QED BY <1>1, <1>4, <2>2, <2>3 DEF Ids, Visible
<1>9. Births /\ Lists /\ CallsOfStage /\ Progress
  BY <1>1, <1>5 DEF Births, Lists, CallsOfStage, Progress
<1>10. Owned
  BY <1>1, <1>4 DEF Owned
<1>11. Edges
  <2>1. ASSUME NEW a \in Keys, NEW w \in known[a]
        PROVE  id[a] # 0 /\ \E e \in DOMAIN link : e[1] = a /\ id[e[2]] = w[1]
    <3>1. PICK l \in g.links : l[1] = a /\ w = <<l[2], l[3]>>
      BY <1>1, <2>1
    <3>2. <<l[1], l[2]>> \in DOMAIN link
      BY <1>1
    <3> QED BY <1>3, <1>4, <3>1, <3>2
  <2>2. ASSUME NEW l \in rel
        PROVE  /\ l[1] \in rows /\ l[2] \in rows
               /\ \E e \in DOMAIN link : id[e[1]] = l[1] /\ id[e[2]] = l[2]
    <3>1. <<l[1], l[2]>> \in DOMAIN link
      BY <1>1, <2>2
    <3> QED BY <1>1, <1>3, <1>4, <2>2, <3>1
  <2> QED BY <2>1, <2>2 DEF Edges
<1> QED BY <1>6, <1>7, <1>8, <1>9, <1>10, <1>11, InitTyped DEF IInv, CInv

-----------------------------------------------------------------------------
(* Edits *)

LEMMA ReachableIsClosed ==
  ASSUME NEW S, NEW R, NEW r \in S
  PROVE  /\ r \in Reachable(S, R, r)
         /\ \A e \in R : e[1] \in Reachable(S, R, r) /\ e[2] \in S => e[2] \in Reachable(S, R, r)
BY DEF Reachable

LEMMA ReachableIsLeast ==
  ASSUME NEW S, NEW R, NEW r, NEW X \in SUBSET S, r \in X,
         \A e \in R : e[1] \in X => e[2] \in X
  PROVE  Reachable(S, R, r) \subseteq X
BY DEF Reachable

\* All that most properties ask of an edit.
LEMMA EditDoes ==
  ASSUME Typed, Edit
  PROVE  /\ Editable /\ edits' = edits + 1
         /\ steps \subseteq steps' /\ Visible' \subseteq Visible \cup (steps' \ steps)
         /\ DOMAIN link \subseteq DOMAIN link'
         /\ Calm' => Quiet
         /\ slips \subseteq slips' /\ EditSlips \subseteq slips'
         /\ UNCHANGED <<id, known, save, calls, server, faults>>
<1>1. ASSUME NEW n \in Keys, AddStep(n)
      PROVE  /\ Editable /\ Quiet /\ steps' = steps \cup {n} /\ hidden' = hidden
             /\ DOMAIN link \subseteq DOMAIN link'
             /\ edits' = edits + 1 /\ slips' = slips \cup EditSlips
             /\ UNCHANGED <<id, known, save, calls, server, faults>>
  <2>1. /\ Editable /\ Quiet /\ steps' = steps \cup {n} /\ hidden' = hidden
        /\ edits' = edits + 1 /\ slips' = slips \cup EditSlips
        /\ UNCHANGED <<id, known, save, calls, server, faults>>
    BY <1>1 DEF AddStep, Edited
  <2>2. link' = link \/ \E r \in Visible, t \in LinkTypes : link' = With(<<r, n>>, NewLink(t))
    BY <1>1 DEF AddStep
  <2> QED BY <2>1, <2>2 DEF With
<1>2. ASSUME NEW a \in Keys, NEW b \in Keys, Connect(a, b)
      PROVE  /\ Editable /\ Quiet /\ UNCHANGED <<steps, hidden>>
             /\ DOMAIN link \subseteq DOMAIN link'
             /\ edits' = edits + 1 /\ slips' = slips \cup EditSlips
             /\ UNCHANGED <<id, known, save, calls, server, faults>>
  BY <1>2 DEF Connect, Edited, With
<1>3. ASSUME NEW e \in DOMAIN link, NEW t \in LinkTypes, SetLink(e, t)
      PROVE  /\ Editable /\ UNCHANGED <<steps, hidden>>
             /\ DOMAIN link \subseteq DOMAIN link'
             /\ edits' = edits + 1 /\ slips \cup EditSlips \subseteq slips'
             /\ UNCHANGED <<id, known, save, calls, server, faults>>
  BY <1>3 DEF SetLink
<1>4. ASSUME NEW e \in DOMAIN link, RemoveLink(e)
      PROVE  /\ Editable /\ Quiet /\ UNCHANGED <<steps, hidden>>
             /\ DOMAIN link \subseteq DOMAIN link'
             /\ edits' = edits + 1 /\ slips' = slips \cup EditSlips
             /\ UNCHANGED <<id, known, save, calls, server, faults>>
  BY <1>4 DEF RemoveLink, Edited
<1>5. ASSUME NEW n \in Keys, EditStep(n)
      PROVE  /\ Editable /\ UNCHANGED <<steps, hidden, link>>
             /\ edits' = edits + 1 /\ slips' = slips \cup EditSlips
             /\ UNCHANGED <<id, known, save, calls, server, faults>>
  BY <1>5 DEF EditStep, Edited
<1>6. ASSUME NEW n \in Keys, RemoveStep(n)
      PROVE  /\ Editable /\ Quiet /\ UNCHANGED steps /\ hidden' = hidden \cup {n}
             /\ DOMAIN link \subseteq DOMAIN link'
             /\ edits' = edits + 1 /\ slips' = slips \cup EditSlips
             /\ UNCHANGED <<id, known, save, calls, server, faults>>
  BY <1>6, Removal
<1>9. ASSUME NEW ns \in SUBSET Keys, AddPlan(ns)
      PROVE  /\ Editable /\ Quiet /\ steps' = steps \cup ns /\ hidden' = hidden
             /\ DOMAIN link \subseteq DOMAIN link'
             /\ edits' = edits + 1 /\ slips \cup EditSlips \subseteq slips'
             /\ UNCHANGED <<id, known, save, calls, server, faults>>
  <2>1. /\ Editable /\ Quiet /\ steps' = steps \cup ns /\ hidden' = hidden
        /\ edits' = edits + 1
        /\ UNCHANGED <<id, known, save, calls, server, faults>>
    BY <1>9, Suggestion
  <2>2. PICK es \in SUBSET (ns \X ns) :
          /\ DOMAIN link' = DOMAIN link \cup es
          /\ slips' = slips \cup EditSlips \cup (IF Cyclic(es) THEN {"cycle"} ELSE {})
    BY <1>9, Suggestion
  <2> QED BY <2>1, <2>2
<1>7. "meanwhile" \notin slips' /\ EditSlips \subseteq slips' => Quiet
  BY DEF EditSlips
<1>8. Calm' => "meanwhile" \notin slips'
  BY DEF Calm
<1> QED BY <1>1, <1>2, <1>3, <1>4, <1>5, <1>6, <1>7, <1>8, <1>9 DEF Edit, Visible

\* A link that ends where nothing leads to its source closes no cycle.
LEMMA NewLinkClosesNoCycle ==
  ASSUME Acyclic, NEW s \in Keys, NEW t \in Keys, NEW A \in SUBSET Keys,
         s \in A, t \notin A, \A e \in DOMAIN link : e[2] \in A => e[1] \in A,
         DOMAIN link \subseteq Keys \X Keys,
         DOMAIN link' = DOMAIN link \cup {<<s, t>>}
  PROVE  Acyclic'
<1> SUFFICES ASSUME NEW X \in (SUBSET Keys) \ {{}}
             PROVE  \E n \in X : \A e \in DOMAIN link' : e[2] = n => e[1] \notin X
  BY DEF Acyclic
<1>1. CASE X \cap A # {}
  <2>1. PICK n \in X \cap A : \A e \in DOMAIN link : e[2] = n => e[1] \notin X \cap A
    BY <1>1 DEF Acyclic
  <2> QED BY <2>1
<1>2. CASE X \cap A = {}
  <2>1. PICK n \in X : \A e \in DOMAIN link : e[2] = n => e[1] \notin X
    BY DEF Acyclic
  <2> QED BY <1>2, <2>1
<1> QED BY <1>1, <1>2

\* Nor do links that are none among steps that are new.
LEMMA NewStepsCloseNoCycle ==
  ASSUME Acyclic, NEW S \in SUBSET Keys, NEW T \in SUBSET Keys, S \cap T = {},
         NEW es \in SUBSET (T \X T), ~Cyclic(es), DOMAIN link \subseteq S \X S,
         DOMAIN link' = DOMAIN link \cup es
  PROVE  Acyclic'
<1> SUFFICES ASSUME NEW X \in (SUBSET Keys) \ {{}}
             PROVE  \E n \in X : \A e \in DOMAIN link' : e[2] = n => e[1] \notin X
  BY DEF Acyclic
<1>1. CASE X \cap S # {}
  <2>1. PICK n \in X \cap S : \A e \in DOMAIN link : e[2] = n => e[1] \notin X \cap S
    BY <1>1 DEF Acyclic
  <2> QED BY <2>1
<1>2. CASE X \cap S = {}
  <2>1. PICK n \in X : \A e \in es : ~(e[1] \in X /\ e[2] = n)
    BY DEF Cyclic
  <2> QED BY <1>2, <2>1
<1> QED BY <1>1, <1>2

LEMMA EditAcyclic ==
  ASSUME Typed, Acyclic, Edit, "cycle" \notin slips'
  PROVE  Acyclic'
<1>0. DOMAIN link \subseteq steps \X steps /\ steps \subseteq Keys /\ Visible \subseteq steps
  BY DEF Typed, TypeOK, Visible
<1>1. ASSUME NEW n \in Keys, AddStep(n)
      PROVE  Acyclic'
  <2>1. n \notin steps
    BY <1>1 DEF AddStep
  <2>2. link' = link \/ \E r \in Visible, t \in LinkTypes : link' = With(<<r, n>>, NewLink(t))
    BY <1>1 DEF AddStep
  <2>3. CASE link' = link
    BY <2>3 DEF Acyclic
  <2>4. ASSUME NEW r \in Visible, NEW t \in LinkTypes, link' = With(<<r, n>>, NewLink(t))
        PROVE  Acyclic'
    <3>1. DOMAIN link' = DOMAIN link \cup {<<r, n>>}
      BY <2>4 DEF With
    <3>2. r \in Keys /\ steps \in SUBSET Keys /\ r \in steps
      BY <1>0
    <3>3. \A e \in DOMAIN link : e[2] \in steps => e[1] \in steps
      BY <1>0
    <3>4. DOMAIN link \subseteq Keys \X Keys
      BY <1>0
    <3> QED BY <2>1, <3>1, <3>2, <3>3, <3>4, NewLinkClosesNoCycle
  <2> QED BY <2>2, <2>3, <2>4
<1>2. ASSUME NEW a \in Keys, NEW b \in Keys, Connect(a, b)
      PROVE  Acyclic'
  <2>1. /\ b \notin Ancestors(a)
        /\ link' = With(<<a, b>>, NewLink("always"))
    BY <1>2 DEF Connect, Forbidden
  <2>2. DOMAIN link' = DOMAIN link \cup {<<a, b>>}
    BY <2>1 DEF With
  <2> DEFINE R == {<<e[2], e[1]>> : e \in DOMAIN link}
  <2>3. a \in Ancestors(a) /\ Ancestors(a) \in SUBSET Keys
    BY ReachableIsClosed DEF Ancestors, Reachable
  <2>4. \A e \in DOMAIN link : e[2] \in Ancestors(a) => e[1] \in Ancestors(a)
    <3> SUFFICES ASSUME NEW e \in DOMAIN link, e[2] \in Reachable(Keys, R, a)
                 PROVE  e[1] \in Reachable(Keys, R, a)
      BY DEF Ancestors
    <3>1. <<e[2], e[1]>> \in R
      OBVIOUS
    <3>2. e[1] \in Keys
      BY <1>0
    <3> HIDE DEF R
    <3>3. <<e[2], e[1]>>[1] = e[2] /\ <<e[2], e[1]>>[2] = e[1]
      OBVIOUS
    <3> QED BY <3>1, <3>2, <3>3, ReachableIsClosed
  <2>5. DOMAIN link \subseteq Keys \X Keys
    BY <1>0
  <2> QED BY <2>1, <2>2, <2>3, <2>4, <2>5, NewLinkClosesNoCycle
<1>3. ASSUME NEW e \in DOMAIN link, NEW t \in LinkTypes, SetLink(e, t)
      PROVE  DOMAIN link' = DOMAIN link
  BY <1>3 DEF SetLink
<1>4. ASSUME NEW e \in DOMAIN link, RemoveLink(e)
      PROVE  DOMAIN link' = DOMAIN link
  BY <1>4 DEF RemoveLink
<1>5. ASSUME NEW n \in Keys, EditStep(n)
      PROVE  DOMAIN link' = DOMAIN link
  BY <1>5 DEF EditStep
<1>6. ASSUME NEW n \in Keys, RemoveStep(n)
      PROVE  Acyclic'
  <2> SUFFICES ASSUME NEW X \in (SUBSET Keys) \ {{}}
               PROVE  \E m \in X : \A e \in DOMAIN link' : e[2] = m => e[1] \notin X
    BY DEF Acyclic
  <2>1. DOMAIN link' = DOMAIN link \cup (ParentsOf(n) \X ChildrenOf(n))
    BY <1>6, Removal
  <2>2. \A p \in ParentsOf(n) : <<p, n>> \in DOMAIN link
    BY <1>0 DEF ParentsOf
  <2>3. \A c \in ChildrenOf(n) : <<n, c>> \in DOMAIN link
    BY <1>0 DEF ChildrenOf
  <2>4. CASE X \cap ParentsOf(n) = {}
    <3>1. PICK m \in X : \A e \in DOMAIN link : e[2] = m => e[1] \notin X
      BY DEF Acyclic
    <3> QED BY <2>1, <2>4, <3>1
  <2>5. CASE X \cap ParentsOf(n) # {}
    <3>1. PICK p \in X \cap ParentsOf(n) : TRUE
      BY <2>5
    <3>2. X \cup {n} \in (SUBSET Keys) \ {{}}
      OBVIOUS
    <3>3. PICK m \in X \cup {n} : \A e \in DOMAIN link : e[2] = m => e[1] \notin X \cup {n}
      BY <3>2 DEF Acyclic
    <3>4. m # n
      BY <2>2, <3>1, <3>3
    <3>5. m \notin ChildrenOf(n)
      BY <2>3, <3>3
    <3>6. m \in X /\ \A e \in DOMAIN link' : e[2] = m => e[1] \notin X
      BY <2>1, <3>3, <3>4, <3>5
    <3> QED BY <3>6
  <2> QED BY <2>4, <2>5
<1>7. DOMAIN link' = DOMAIN link => Acyclic'
  BY DEF Acyclic
<1>8. ASSUME NEW ns \in SUBSET Keys, AddPlan(ns)
      PROVE  Acyclic'
  <2>1. PICK es \in SUBSET (ns \X ns) :
          /\ DOMAIN link' = DOMAIN link \cup es
          /\ slips' = slips \cup EditSlips \cup (IF Cyclic(es) THEN {"cycle"} ELSE {})
    BY <1>8, Suggestion
  <2>2. ns \cap steps = {} /\ steps \in SUBSET Keys
    BY <1>0, <1>8, Suggestion
  <2>3. ~Cyclic(es)
    BY <2>1
  <2>4. DOMAIN link \subseteq steps \X steps /\ DOMAIN link' = DOMAIN link \cup es
    BY <1>0, <2>1
  <2>5. steps \cap ns = {}
    BY <2>2
  <2> HIDE DEF Acyclic
  <2> QED BY <2>2, <2>3, <2>4, <2>5, NewStepsCloseNoCycle
<1> QED BY <1>1, <1>2, <1>3, <1>4, <1>5, <1>6, <1>7, <1>8 DEF Edit

LEMMA EditCalm ==
  ASSUME Typed, CInv, Edit, Calm'
  PROVE  CInv'
<1>1. /\ Editable /\ Quiet /\ steps \subseteq steps' /\ Visible' \subseteq Visible \cup (steps' \ steps)
      /\ DOMAIN link \subseteq DOMAIN link' /\ slips \subseteq slips'
      /\ UNCHANGED <<id, known, save, calls, rows, rel, nextRow>>
  BY EditDoes DEF server
<1>2. calls = {} /\ calls' = {} /\ \A k \in Saves : ~Current(k) /\ ~Current(k)' /\ ~Running(k)'
  BY <1>1 DEF Quiet, Current, Running, Saves
<1>3. ~Over'
  BY <1>1 DEF Over, Editable, Saves
<1>4. Turns'
  BY <1>1, <1>2, <1>3 DEF Turns, CInv
<1>5. Ids'
  <2>1. \A n \in Keys : n \notin steps' => id[n] = 0
    BY <1>1 DEF CInv, Ids
  <2>2. \A n \in Visible' : id[n] \in rows \cup {0}
    <3> TAKE n \in Visible'
    <3>1. CASE n \in Visible
      BY <3>1 DEF CInv, Ids
    <3>2. CASE n \in steps' \ steps
      BY <3>2, EditTyped DEF CInv, Ids, Typed, TypeOK
    <3> QED BY <1>1, <3>1, <3>2
  <2> QED BY <1>1, <2>1, <2>2 DEF CInv, Ids
<1>6. Births' /\ CallsOfStage' /\ Lists' /\ Progress'
  BY <1>2 DEF Births, CallsOfStage, Lists, Progress
<1>7. Owned'
  BY <1>1 DEF Owned, CInv
<1>8. Edges'
  BY <1>1 DEF Edges, CInv
<1> QED BY <1>4, <1>5, <1>6, <1>7, <1>8 DEF CInv

-----------------------------------------------------------------------------
(* Saving *)

LEMMA StageRanges ==
  /\ \A a : CreateStage(a) \in 1..2 /\ UpdateStage(a) \in 3..4
  /\ \A t : UnlinkStage(t) \in 5..7 /\ LinkStage(t) \in 8..10
BY DEF CreateStage, UpdateStage, UnlinkStage, LinkStage

\* A request is for an item of a list, and of its stage.
LEMMA RequestsFrom ==
  ASSUME NEW k, NEW v \in SaveType, NEW s \in 1..Len(Stages), NEW c \in Requests(k, v, s)
  PROVE  /\ c.save = k
         /\ c.op \in {"create", "update", "unlink", "link", "delete"}
         /\ c.op = "create" => /\ c.step \in v.fresh /\ CreateStage(approval[c.step]) = s
                               /\ c = [save |-> k, op |-> "create", step |-> c.step]
         /\ c.op = "update" => /\ c.step \in v.edited /\ UpdateStage(approval[c.step]) = s
                               /\ c.row = id[c.step] /\ c.new = content[c.step]
                               /\ c.approval = approval[c.step]
         /\ c.op = "unlink" => Triple(c) \in v.unlink /\ UnlinkStage(c.type) = s
         /\ c.op = "link" => Triple(c) \in v.link /\ LinkStage(c.type) = s
         /\ c.op = "delete" => c.row \in v.deleted /\ s = LastStage
<1>1. CASE c \in Creating(k, v, s)
  BY <1>1 DEF Creating
<1>2. CASE c \in Updating(k, v, s)
  BY <1>2 DEF Updating
<1>3. \A l \in v.unlink \cup v.link : l = <<l[1], l[2], l[3]>>
  BY DEF SaveType, ListOfLinks
<1>4. CASE c \in Unlinking(k, v, s)
  <2>1. PICK l \in v.unlink : UnlinkStage(l[3]) = s /\ c = [save |-> k, op |-> "unlink", row |-> l[1], to |-> l[2], type |-> l[3]]
    BY <1>4 DEF Unlinking
  <2>2. Triple(c) = l
    BY <1>3, <2>1 DEF Triple
  <2> QED BY <2>1, <2>2
<1>5. CASE c \in Linking(k, v, s)
  <2>1. PICK l \in v.link : LinkStage(l[3]) = s /\ c = [save |-> k, op |-> "link", row |-> l[1], to |-> l[2], type |-> l[3]]
    BY <1>5 DEF Linking
  <2>2. Triple(c) = l
    BY <1>3, <2>1 DEF Triple
  <2> QED BY <2>1, <2>2
<1>6. CASE c \in Deleting(k, v, s)
  BY <1>6 DEF Deleting
<1> QED BY <1>1, <1>2, <1>4, <1>5, <1>6, RequestsAre

\* There is a request for every item of a list, in its stage.
LEMMA RequestsCover ==
  ASSUME NEW k, NEW v \in SaveType, NEW s \in 1..Len(Stages)
  PROVE  /\ \A n \in v.fresh : CreateStage(approval[n]) = s =>
              \E c \in Requests(k, v, s) : MakesRow(c, n)
         /\ \A n \in v.edited : UpdateStage(approval[n]) = s =>
              \E c \in Requests(k, v, s) : UpdatesStep(c, n)
         /\ \A l \in v.unlink : UnlinkStage(l[3]) = s =>
              \E c \in Requests(k, v, s) : TakesLink(c, l)
         /\ \A l \in v.link : LinkStage(l[3]) = s =>
              \E c \in Requests(k, v, s) : AddsLink(c, l)
         /\ \A r \in v.deleted : LastStage = s =>
              \E c \in Requests(k, v, s) : DeletesRow(c, r)
<1>1. \A n \in v.fresh : CreateStage(approval[n]) = s => \E c \in Creating(k, v, s) : MakesRow(c, n)
  <2> SUFFICES ASSUME NEW n \in v.fresh, CreateStage(approval[n]) = s
               PROVE  \E c \in Creating(k, v, s) : MakesRow(c, n)
    OBVIOUS
  <2>1. [save |-> k, op |-> "create", step |-> n] \in Creating(k, v, s)
    BY DEF Creating
  <2> QED BY <2>1 DEF MakesRow, Making
<1>2. \A n \in v.edited : UpdateStage(approval[n]) = s => \E c \in Updating(k, v, s) : UpdatesStep(c, n)
  <2> SUFFICES ASSUME NEW n \in v.edited, UpdateStage(approval[n]) = s
               PROVE  \E c \in Updating(k, v, s) : UpdatesStep(c, n)
    OBVIOUS
  <2>1. [save |-> k, op |-> "update", step |-> n, row |-> id[n],
        new |-> content[n], approval |-> approval[n]] \in Updating(k, v, s)
    BY DEF Updating
  <2> QED BY <2>1 DEF UpdatesStep
<1>3. \A l \in v.unlink \cup v.link : l = <<l[1], l[2], l[3]>>
  BY DEF SaveType, ListOfLinks
<1>4. \A l \in v.unlink : UnlinkStage(l[3]) = s => \E c \in Unlinking(k, v, s) : TakesLink(c, l)
  <2> SUFFICES ASSUME NEW l \in v.unlink, UnlinkStage(l[3]) = s
               PROVE  \E c \in Unlinking(k, v, s) : TakesLink(c, l)
    OBVIOUS
  <2> DEFINE c == [save |-> k, op |-> "unlink", row |-> l[1], to |-> l[2], type |-> l[3]]
  <2>1. c \in Unlinking(k, v, s)
    BY DEF Unlinking
  <2>2. TakesLink(c, l)
    BY <1>3 DEF Triple, TakesLink
  <2> QED BY <2>1, <2>2
<1>5. \A l \in v.link : LinkStage(l[3]) = s => \E c \in Linking(k, v, s) : AddsLink(c, l)
  <2> SUFFICES ASSUME NEW l \in v.link, LinkStage(l[3]) = s
               PROVE  \E c \in Linking(k, v, s) : AddsLink(c, l)
    OBVIOUS
  <2> DEFINE c == [save |-> k, op |-> "link", row |-> l[1], to |-> l[2], type |-> l[3]]
  <2>1. c \in Linking(k, v, s)
    BY DEF Linking
  <2>2. AddsLink(c, l)
    BY <1>3 DEF Triple, AddsLink
  <2> QED BY <2>1, <2>2
<1>6. \A r \in v.deleted : LastStage = s => \E c \in Deleting(k, v, s) : DeletesRow(c, r)
  <2> SUFFICES ASSUME NEW r \in v.deleted, LastStage = s
               PROVE  \E c \in Deleting(k, v, s) : DeletesRow(c, r)
    OBVIOUS
  <2>1. [save |-> k, op |-> "delete", row |-> r] \in Deleting(k, v, s)
    BY DEF Deleting
  <2> QED BY <2>1 DEF DeletesRow
<1> QED BY <1>1, <1>2, <1>4, <1>5, <1>6, RequestsAre

LEMMA EveryItemHasItsRequest ==
  ASSUME NEW k, NEW v \in SaveType
  PROVE  /\ \A n \in v.fresh : \E c \in Requests(k, v, CreateStage(approval[n])) : MakesRow(c, n)
         /\ \A n \in v.edited : \E c \in Requests(k, v, UpdateStage(approval[n])) : UpdatesStep(c, n)
         /\ \A l \in v.unlink : \E c \in Requests(k, v, UnlinkStage(l[3])) : TakesLink(c, l)
         /\ \A l \in v.link : \E c \in Requests(k, v, LinkStage(l[3])) : AddsLink(c, l)
         /\ \A r \in v.deleted : \E c \in Requests(k, v, LastStage) : DeletesRow(c, r)
<1>1. \A a : CreateStage(a) \in 1..Len(Stages) /\ UpdateStage(a) \in 1..Len(Stages)
  BY StageRanges, NumberOfStages
<1>2. \A t : UnlinkStage(t) \in 1..Len(Stages) /\ LinkStage(t) \in 1..Len(Stages)
  BY StageRanges, NumberOfStages
<1>3. LastStage \in 1..Len(Stages)
  BY NumberOfStages DEF LastStage
<1>4. \A n \in v.fresh : \E c \in Requests(k, v, CreateStage(approval[n])) : MakesRow(c, n)
  <2> TAKE n \in v.fresh
  <2> DEFINE s == CreateStage(approval[n])
  <2>1. s \in 1..Len(Stages)
    BY <1>1
  <2> HIDE DEF s
  <2>2. s = CreateStage(approval[n])
    BY DEF s
  <2>3. \E c \in Requests(k, v, s) : MakesRow(c, n)
    BY <2>1, <2>2, RequestsCover
  <2> QED BY <2>3 DEF s
<1>5. \A n \in v.edited : \E c \in Requests(k, v, UpdateStage(approval[n])) : UpdatesStep(c, n)
  <2> TAKE n \in v.edited
  <2> DEFINE s == UpdateStage(approval[n])
  <2>1. s \in 1..Len(Stages)
    BY <1>1
  <2> HIDE DEF s
  <2>2. s = UpdateStage(approval[n])
    BY DEF s
  <2>3. \E c \in Requests(k, v, s) : UpdatesStep(c, n)
    BY <2>1, <2>2, RequestsCover
  <2> QED BY <2>3 DEF s
<1>6. \A l \in v.unlink : \E c \in Requests(k, v, UnlinkStage(l[3])) : TakesLink(c, l)
  <2> TAKE l \in v.unlink
  <2> DEFINE s == UnlinkStage(l[3])
  <2>1. s \in 1..Len(Stages)
    BY <1>2
  <2> HIDE DEF s
  <2>2. s = UnlinkStage(l[3])
    BY DEF s
  <2>3. \E c \in Requests(k, v, s) : TakesLink(c, l)
    BY <2>1, <2>2, RequestsCover
  <2> QED BY <2>3 DEF s
<1>7. \A l \in v.link : \E c \in Requests(k, v, LinkStage(l[3])) : AddsLink(c, l)
  <2> TAKE l \in v.link
  <2> DEFINE s == LinkStage(l[3])
  <2>1. s \in 1..Len(Stages)
    BY <1>2
  <2> HIDE DEF s
  <2>2. s = LinkStage(l[3])
    BY DEF s
  <2>3. \E c \in Requests(k, v, s) : AddsLink(c, l)
    BY <2>1, <2>2, RequestsCover
  <2> QED BY <2>3 DEF s
<1>8. \A r \in v.deleted : \E c \in Requests(k, v, LastStage) : DeletesRow(c, r)
  BY <1>3, RequestsCover
<1> QED BY <1>4, <1>5, <1>6, <1>7, <1>8

\* What is left to do of lists v when no request is on its way.
LEMMA NothingWaits ==
  ASSUME NEW v, calls = {}, ~v.failed, WorkLeft(v), v.stage \in Nat
  PROVE  /\ \A n \in v.fresh : /\ id[n] = 0 => CreateStage(approval[n]) > v.stage
                               /\ id[n] # 0 => stored[id[n]] /\ CreateStage(approval[n]) <= v.stage
         /\ \A n \in v.edited : "swallowed" \notin slips /\ content[n] /\ ~stored[id[n]] =>
              UpdateStage(approval[n]) > v.stage
         /\ \A l \in v.unlink \cap rel : UnlinkStage(l[3]) > v.stage
         /\ \A l \in v.link \ rel : l[2] \in DrawnRows => LinkStage(l[3]) > v.stage
         /\ \A r \in v.deleted \cap rows : LastStage > v.stage
<1>1. \A a : CreateStage(a) \in Nat /\ UpdateStage(a) \in Nat
  BY StageRanges
<1>2. \A t : UnlinkStage(t) \in Nat /\ LinkStage(t) \in Nat
  BY StageRanges
<1>3. LastStage \in Nat
  BY NumberOfStages DEF LastStage
<1>4. \A i \in Nat : i >= v.stage /\ i # v.stage => i > v.stage
  OBVIOUS
<1> QED BY <1>1, <1>2, <1>3, <1>4 DEF WorkLeft, Left

\* A save that goes on keeps the invariant, if nothing else is under way.
LEMMA ProceedCalm ==
  ASSUME Typed, Ids, Owned, Edges, calls = {}, ~Over, slips' = slips,
         NEW k \in Saves, NEW v \in SaveType, v.stage \in 0..LastStage, ~v.failed,
         \A j \in Saves : j < k => save[j].stage # 0 /\ save[j].failed,
         \A j \in Saves : j > k => save[j].stage = 0,
         ListsOf(v), WorkLeft(v), Proceed(k, v)
  PROVE  CInv'
<1>1. PICK s \in (v.stage + 1)..Finished : GoesTo(k, v, s)
  BY Proceeds DEF Typed, TypeOK
<1>2. s \in 1..Finished /\ v.stage < s /\ v.stage \in Nat /\ LastStage = 11 /\ Finished = 12 /\ FirstOfLinks = 5
  BY <1>1, NumberOfStages DEF LastStage
<1>3. UNCHANGED <<steps, hidden, id, content, approval, known, link, rows, stored, rel, nextRow>>
  BY <1>1 DEF GoesTo, server
<1> DEFINE w == Ready(v)
           N == save'[k]
<1>4. w \in SaveType
  BY ReadyTyped
<1>5. save \in [Saves -> SaveType] /\ v \in SaveType
  BY DEF Typed
<1>6. /\ N = IF s < FirstOfLinks THEN [v EXCEPT !.stage = s] ELSE [w EXCEPT !.stage = s]
      /\ \A j \in Saves : j # k => save'[j] = save[j]
  BY <1>1, <1>5 DEF GoesTo
<1>7. /\ w.deleted = v.deleted /\ w.fresh = v.fresh /\ w.edited = v.edited /\ w.failed = v.failed
      /\ w.unlink = Unlinks /\ w.link = Links
  BY <1>2, <1>5 DEF Ready, SaveType, ListsOf
<1>8. /\ N.stage = s /\ N.failed = FALSE /\ N.deleted = v.deleted /\ N.fresh = v.fresh /\ N.edited = v.edited
      /\ s >= FirstOfLinks => N.unlink = w.unlink /\ N.link = w.link
  BY <1>2, <1>4, <1>5, <1>6, <1>7 DEF SaveType
<1>9. \A j \in Saves : j # k => ~Running(j)'
  <2> TAKE j \in Saves
  <2> SUFFICES ASSUME j # k PROVE ~Running(j)'
    OBVIOUS
  <2>1. j < k \/ j > k
    BY DEF Saves
  <2> QED BY <1>6, <2>1 DEF Running
<1>10. Ids' /\ Edges'
  BY <1>3 DEF Ids, Edges, Visible
<1>11. CASE s = Finished
  <2>1. calls' = {} /\ dirty' = FALSE
    BY <1>1, <1>11 DEF GoesTo
  <2>2. \A j \in Saves : ~Running(j)' /\ ~Current(j)'
    BY <1>2, <1>8, <1>9, <1>11, <2>1 DEF Running, Current, LastStage
  <2>3. Turns'
    BY <1>2, <1>6, <1>8, <2>1, <2>2 DEF Turns, Saves
  <2>4. Births' /\ Lists' /\ CallsOfStage' /\ Progress'
    BY <2>1, <2>2 DEF Births, Lists, CallsOfStage, Progress
  <2>5. Owned'
    BY <1>3, <2>1 DEF Owned
  <2> QED BY <1>10, <2>3, <2>4, <2>5 DEF CInv
<1>12. CASE s # Finished
  <2>1. s \in 1..11 /\ s \in 1..Len(Stages)
    BY <1>2, <1>12, NumberOfStages
  <2>2. /\ calls' = Requests(k, w, s) /\ modified' = modified
        /\ \A i \in (v.stage + 1)..LastStage : i < s => Requests(k, w, i) = {}
    BY <1>1, <1>12 DEF GoesTo
  <2>3. \A c \in calls' :
         /\ c.save = k
         /\ c.op \in {"create", "update", "unlink", "link", "delete"}
         /\ c.op = "create" => /\ c.step \in v.fresh /\ CreateStage(approval[c.step]) = s
                               /\ c = [save |-> k, op |-> "create", step |-> c.step]
         /\ c.op = "update" => /\ c.step \in v.edited /\ UpdateStage(approval[c.step]) = s
                               /\ c.row = id[c.step] /\ c.new = content[c.step]
                               /\ c.approval = approval[c.step]
         /\ c.op = "unlink" => Triple(c) \in w.unlink /\ UnlinkStage(c.type) = s
         /\ c.op = "link" => Triple(c) \in w.link /\ LinkStage(c.type) = s
         /\ c.op = "delete" => c.row \in v.deleted /\ s = LastStage
    BY <1>4, <1>7, <2>1, <2>2, RequestsFrom
  <2>4. \A j \in Saves : j # k => ~Current(j)'
    BY <1>9, <2>3 DEF Current
  <2>5. Turns'
    <3>1. ~Over'
      BY <1>6, <1>8, <1>12 DEF Over
    <3>2. \A i, j \in Saves : i < j /\ save'[j].stage # 0 => save'[i].stage # 0 /\ save'[i].failed
      <4> HIDE DEF N
      <4> QED BY <1>2, <1>6, <1>8 DEF Saves, N
    <3>3. save'[k].stage \in 1..LastStage /\ \A j \in Saves : j > k => save'[j].stage = 0
      BY <1>2, <1>6, <1>8, <2>1 DEF Saves
    <3> QED BY <2>4, <3>1, <3>2, <3>3 DEF Turns
  <2>6. Births'
    <3>1. \A n \in v.fresh : n \in Visible /\ (CreateStage(approval[n]) = s => id[n] = 0)
      BY <1>2, NothingWaits DEF ListsOf
    <3>2. \A c \in calls' : /\ c.op # "finish"
                            /\ Making(c)' => c.op = "create"
      BY <2>3 DEF Making
    <3>3. Visible' = Visible
      BY <1>3 DEF Visible
    <3> QED BY <1>3, <2>3, <3>1, <3>2, <3>3 DEF Births
  <2>7. Owned'
    BY <1>3 DEF Owned
  <2>8. Lists'
    <3>1. Unlinks' = Unlinks /\ Links' = Links /\ Visible' = Visible /\ Marked' = Marked
      BY <1>3, <2>2 DEF Unlinks, UnlinksOf, Links, Marked, Visible, DrawnFrom, OutOf
    <3>2. ListsOf(save[k])'
      BY <1>3, <1>7, <1>8, <3>1 DEF ListsOf
    <3> QED BY <2>4, <3>2 DEF Lists
  <2>9. CallsOfStage'
    <3> SUFFICES ASSUME NEW c \in calls' PROVE c.save = k /\ OfStage(c, save[k])'
      BY DEF CallsOfStage
    <3>1. c.op \in {"unlink", "link"} => s >= FirstOfLinks
      BY <1>2, <2>1, <2>3, StageRanges
    <3>2. c.op # "finish"
      BY <2>3
    <3> HIDE DEF N, w
    <3>3. c.save = k /\ OfStage(c, save[k])'
      BY <1>3, <1>8, <2>3, <3>1, <3>2 DEF OfStage, Making, Remaking, N
    <3> QED BY <3>3
  <2>10. Progress'
    <3> HIDE DEF N, w
    <3>0. /\ \A n \in w.fresh : \E c \in Requests(k, w, CreateStage(approval[n])) : MakesRow(c, n)
          /\ \A n \in w.edited : \E c \in Requests(k, w, UpdateStage(approval[n])) : UpdatesStep(c, n)
          /\ \A l \in w.unlink : \E c \in Requests(k, w, UnlinkStage(l[3])) : TakesLink(c, l)
          /\ \A l \in w.link : \E c \in Requests(k, w, LinkStage(l[3])) : AddsLink(c, l)
          /\ \A r \in w.deleted : \E c \in Requests(k, w, LastStage) : DeletesRow(c, r)
      BY <1>4, EveryItemHasItsRequest
    <3>1. \A i \in 1..LastStage : v.stage < i =>
            \/ i > s \/ i = s
            \/ Requests(k, w, i) = {}
      BY <1>2, <2>1, <2>2
    <3>2. \A i \in 1..LastStage : i \in 1..Len(Stages)
      BY DEF LastStage
    <3>3. DrawnRows' = DrawnRows
      BY <1>3 DEF DrawnRows, Visible
    <3>4. \A a : CreateStage(a) \in 1..LastStage /\ UpdateStage(a) \in 1..LastStage
      BY <1>2, StageRanges
    <3>5. \A t : UnlinkStage(t) \in 5..LastStage /\ LinkStage(t) \in 5..LastStage
      BY <1>2, StageRanges
    <3> DEFINE Late(i, waits) == i >= s /\ (i = s => waits)
    <3>6. \A n \in v.fresh :
             /\ id[n] = 0 => Late(CreateStage(approval[n]), \E c \in calls' : MakesRow(c, n))
             /\ id[n] # 0 => stored[id[n]] /\ CreateStage(approval[n]) <= s
      <4> TAKE n \in v.fresh
      <4>1. /\ id[n] = 0 => CreateStage(approval[n]) > v.stage
            /\ id[n] # 0 => stored[id[n]] /\ CreateStage(approval[n]) <= v.stage
        BY <1>2, NothingWaits
      <4>2. PICK c \in Requests(k, w, CreateStage(approval[n])) : MakesRow(c, n)
        BY <1>7, <3>0
      <4> QED BY <1>2, <2>2, <3>1, <3>4, <4>1, <4>2
    <3>7. \A n \in v.edited : "swallowed" \notin slips /\ content[n] /\ ~stored[id[n]] =>
             Late(UpdateStage(approval[n]), \E c \in calls' : UpdatesStep(c, n))
      <4> TAKE n \in v.edited
      <4>1. "swallowed" \notin slips /\ content[n] /\ ~stored[id[n]] => UpdateStage(approval[n]) > v.stage
        BY <1>2, NothingWaits
      <4>2. PICK c \in Requests(k, w, UpdateStage(approval[n])) : UpdatesStep(c, n)
        BY <1>7, <3>0
      <4> QED BY <1>2, <2>2, <3>1, <3>4, <4>1, <4>2
    <3>8. ASSUME NEW l \in N.unlink \cap rel
          PROVE  Late(UnlinkStage(l[3]), \E c \in calls' : TakesLink(c, l))
      <4>1. CASE s < FirstOfLinks
        BY <1>2, <3>5, <4>1
      <4>2. CASE s >= FirstOfLinks
        <5>1. l \in w.unlink
          BY <1>8, <3>8, <4>2
        <5>2. UnlinkStage(l[3]) > v.stage
          <6>1. CASE v.stage < FirstOfLinks
            BY <1>2, <3>5, <6>1
          <6>2. CASE v.stage >= FirstOfLinks
            BY <1>2, <1>7, <3>8, <5>1, <6>2, NothingWaits DEF ListsOf
          <6> QED BY <1>2, <6>1, <6>2
        <5>3. PICK c \in Requests(k, w, UnlinkStage(l[3])) : TakesLink(c, l)
          BY <3>0, <5>1
        <5> QED BY <1>2, <2>2, <3>1, <3>5, <5>2, <5>3
      <4> QED BY <1>2, <4>1, <4>2
    <3>9. ASSUME NEW l \in N.link \ rel, l[2] \in DrawnRows
          PROVE  Late(LinkStage(l[3]), \E c \in calls' : AddsLink(c, l))
      <4>1. CASE s < FirstOfLinks
        BY <1>2, <3>5, <4>1
      <4>2. CASE s >= FirstOfLinks
        <5>1. l \in w.link
          BY <1>8, <3>9, <4>2
        <5>2. LinkStage(l[3]) > v.stage
          <6>1. CASE v.stage < FirstOfLinks
            BY <1>2, <3>5, <6>1
          <6>2. CASE v.stage >= FirstOfLinks
            BY <1>2, <1>7, <3>9, <5>1, <6>2, NothingWaits DEF ListsOf
          <6> QED BY <1>2, <6>1, <6>2
        <5>3. PICK c \in Requests(k, w, LinkStage(l[3])) : AddsLink(c, l)
          BY <3>0, <5>1
        <5> QED BY <1>2, <2>2, <3>1, <3>5, <5>2, <5>3
      <4> QED BY <1>2, <4>1, <4>2
    <3>10. \A r \in v.deleted \cap rows : Late(LastStage, \E c \in calls' : DeletesRow(c, r))
      <4> TAKE r \in v.deleted \cap rows
      <4>1. LastStage \in 1..Len(Stages) /\ LastStage >= s
        BY <1>2, <2>1, NumberOfStages
      <4>2. LastStage = s => \E c \in Requests(k, w, s) : DeletesRow(c, r)
        BY <1>7, <3>0
      <4> QED BY <2>2, <4>1, <4>2
    <3>11. WorkLeft(save[k])'
      BY <1>3, <1>8, <3>3, <3>6, <3>7, <3>8, <3>9, <3>10, SameRows DEF WorkLeft, Left, N
    <3> QED BY <2>4, <3>11 DEF Progress, N
  <2> QED BY <1>10, <2>5, <2>6, <2>7, <2>8, <2>9, <2>10 DEF CInv
<1> QED BY <1>11, <1>12

LEMMA OneAtATime ==
  ASSUME Typed, Turns
  PROVE  /\ \A j, k \in Saves : Current(j) /\ Current(k) => j = k
         /\ \A c \in calls : c.save \in Saves /\ Current(c.save)
         /\ \A c, d \in calls : c.save = d.save
         /\ calls # {} => ~Over
<1>1. \A j, k \in Saves : j < k \/ k < j \/ j = k
  BY DEF Saves
<1>2. \A i \in 1..LastStage : i # 0
  BY NumberOfStages DEF LastStage
<1>3. \A j, k \in Saves : Current(j) /\ Current(k) => j = k
  BY <1>1, <1>2 DEF Turns
<1>4. \A c \in calls : c.save \in Saves /\ Current(c.save)
  BY DEF Typed, CallTyped, Current
<1> QED BY <1>3, <1>4 DEF Turns

\* A save that starts finds no other under way, and lists what is to be done.
LEMMA SaveStarts ==
  ASSUME Typed, CInv, NEW k \in Saves, SavePress(k), Calm'
  PROVE  /\ calls = {} /\ ~Over /\ slips' = slips
         /\ \A j \in Saves : j < k => save[j].stage # 0 /\ save[j].failed
         /\ \A j \in Saves : j > k => save[j].stage = 0
         /\ \E v \in SaveType : /\ v.stage \in 0..LastStage /\ ~v.failed
                                /\ ListsOf(v) /\ WorkLeft(v) /\ Proceed(k, v)
<1>1. /\ dirty /\ save[k].stage = 0
      /\ \A j \in 1..(k - 1) : save[j].stage \notin {0, Finished}
      /\ Proceed(k, Sorted)
      /\ slips' = slips \cup (IF calls # {} \/ \E j \in 1..MaxSaves : Running(j) THEN {"again"} ELSE {})
                        \cup (IF \E n \in Marked, e \in DOMAIN link :
                                   /\ e[1] = n /\ link[e].visible
                                   /\ e[2] \in hidden /\ id[e[2]] = 0
                              THEN {"phantom"} ELSE {})
  BY DEF SavePress
<1>2. "again" \notin slips' /\ "phantom" \notin slips'
  BY DEF Calm
<1>3. calls = {} /\ \A j \in Saves : ~Running(j)
  BY <1>1, <1>2 DEF Saves
<1>4. \A n \in Marked : \A e \in DOMAIN link :
        e[1] = n /\ link[e].visible /\ e[2] \in hidden => id[e[2]] # 0
  BY <1>1, <1>2
<1>5. slips' = slips
  BY <1>1, <1>2
<1>6. ~Over
  BY <1>1 DEF CInv, Turns
<1>7. /\ \A j \in Saves : j < k => save[j].stage # 0 /\ save[j].failed
      /\ \A j \in Saves : j > k => save[j].stage = 0
  <2>1. \A j \in Saves : save[j].stage \in 0..Finished
    BY DEF Typed, SaveType
  <2>2. ASSUME NEW j \in Saves, j < k
        PROVE  save[j].stage # 0 /\ save[j].failed
    <3>1. j \in 1..(k - 1)
      BY <2>2 DEF Saves
    <3>2. save[j].stage \in 1..Len(Stages)
      BY <1>1, <2>1, <3>1, NumberOfStages
    <3> QED BY <1>3, <3>2, NumberOfStages DEF Running
  <2>3. \A j \in Saves : j > k => save[j].stage = 0
    BY <1>1 DEF CInv, Turns, Saves
  <2> QED BY <2>2, <2>3
<1>8. /\ Sorted \in SaveType /\ Sorted.stage = 0 /\ ~Sorted.failed
      /\ Sorted.deleted = {id[n] : n \in {m \in hidden : id[m] # 0}}
      /\ Sorted.fresh = {n \in Visible : id[n] = 0}
      /\ Sorted.edited = {n \in Marked : id[n] # 0}
      /\ Sorted.unlink = {} /\ Sorted.link = {}
  BY ListsTyped DEF Sorted, Idle
<1>9. ListsOf(Sorted)
  <2>1. Marked \subseteq Visible
    BY DEF Marked
  <2>2. ~(Sorted.stage >= FirstOfLinks)
    BY <1>8, NumberOfStages
  <2>3. Sorted.edited = Marked \ Sorted.fresh
    BY <1>8, <2>1
  <2> QED BY <1>4, <1>8, <2>2, <2>3 DEF ListsOf
<1>10. WorkLeft(Sorted)
  <2>1. \A a, waits : Left(Sorted, CreateStage(a), waits) /\ Left(Sorted, UpdateStage(a), waits)
    BY <1>8, StageRanges DEF Left
  <2>2. \A waits : Left(Sorted, LastStage, waits)
    BY <1>8, NumberOfStages DEF Left, LastStage
  <2> QED BY <1>8, <2>1, <2>2 DEF WorkLeft
<1>11. Sorted.stage \in 0..LastStage
  BY <1>8, NumberOfStages DEF LastStage
<1> QED BY <1>1, <1>3, <1>5, <1>6, <1>7, <1>8, <1>9, <1>10, <1>11

LEMMA SaveGoesOn ==
  ASSUME Typed, CInv, NEW k \in Saves, Advance(k)
  PROVE  /\ calls = {} /\ ~Over /\ slips' = slips
         /\ \A j \in Saves : j < k => save[j].stage # 0 /\ save[j].failed
         /\ \A j \in Saves : j > k => save[j].stage = 0
         /\ \E v \in SaveType : /\ v.stage \in 0..LastStage /\ ~v.failed
                                /\ ListsOf(v) /\ WorkLeft(v) /\ Proceed(k, v)
<1>1. Running(k) /\ ~(\E c \in calls : c.save = k) /\ Proceed(k, save[k]) /\ slips' = slips
  BY DEF Advance
<1>2. Current(k) /\ ~Over
  BY <1>1 DEF Current, CInv, Turns
<1>3. calls = {}
  BY <1>1, <1>2, OneAtATime DEF CInv
<1>4. save[k].stage \in 1..LastStage /\ ~save[k].failed /\ save[k] \in SaveType
  BY <1>1 DEF Running, LastStage, Typed
<1>5. /\ \A j \in Saves : j < k => save[j].stage # 0 /\ save[j].failed
      /\ \A j \in Saves : j > k => save[j].stage = 0
  BY <1>2, <1>4, NumberOfStages DEF CInv, Turns, LastStage
<1>6. ListsOf(save[k]) /\ WorkLeft(save[k])
  BY <1>2 DEF CInv, Lists, Progress
<1>7. save[k].stage \in 0..LastStage
  BY <1>4, NumberOfStages DEF LastStage
<1> QED BY <1>1, <1>2, <1>3, <1>4, <1>5, <1>6, <1>7

LEMMA SavingCalm ==
  ASSUME Typed, CInv, NEW k \in Saves, SavePress(k) \/ Advance(k), Calm'
  PROVE  CInv'
<1>1. /\ calls = {} /\ ~Over /\ slips' = slips
      /\ \A j \in Saves : j < k => save[j].stage # 0 /\ save[j].failed
      /\ \A j \in Saves : j > k => save[j].stage = 0
      /\ \E v \in SaveType : /\ v.stage \in 0..LastStage /\ ~v.failed
                             /\ ListsOf(v) /\ WorkLeft(v) /\ Proceed(k, v)
  BY SaveStarts, SaveGoesOn
<1>2. PICK v \in SaveType : /\ v.stage \in 0..LastStage /\ ~v.failed
                            /\ ListsOf(v) /\ WorkLeft(v) /\ Proceed(k, v)
  BY <1>1
<1> QED BY <1>1, <1>2, ProceedCalm DEF CInv

-----------------------------------------------------------------------------
(* Answers *)

\* While no step gets a row, the lists stay what the drawing says.
LEMMA SameDrawing ==
  ASSUME UNCHANGED <<steps, hidden, id, known, link, modified>>
  PROVE  /\ Visible' = Visible /\ Marked' = Marked /\ DrawnRows' = DrawnRows
         /\ Unlinks' = Unlinks /\ Links' = Links /\ Drawn' = Drawn
         /\ \A n : DrawnFrom(n)' = DrawnFrom(n)
BY DEF Visible, Marked, DrawnRows, Unlinks, UnlinksOf, Links, Drawn, DrawnFrom, OutOf

LEMMA AnswerTurns ==
  ASSUME Typed, Turns, calls # {}, save' = save,
         \A d \in calls' : \E c \in calls : d.save = c.save
  PROVE  Turns' /\ \A j \in Saves : Current(j)' => Current(j)
<1>1. \A j \in Saves : /\ Running(j)' <=> Running(j)
                       /\ Current(j)' => Current(j)
  BY DEF Running, Current
<1>2. ~Over /\ ~Over'
  BY OneAtATime DEF Over
<1> QED BY <1>1, <1>2 DEF Turns

LEMMA AnswerLists ==
  ASSUME Lists, save' = save, UNCHANGED <<steps, hidden, id, known, link, modified>>,
         \A j \in Saves : Current(j)' => Current(j)
  PROVE  Lists'
BY SameDrawing DEF Lists, ListsOf

\* A request that is not answered goes on being for what it was.
LEMMA AnswerOfStage ==
  ASSUME CallsOfStage, save' = save, UNCHANGED <<id, content, approval>>, calls' \subseteq calls
  PROVE  CallsOfStage'
BY SameRows DEF CallsOfStage, OfStage

\* The save a request belongs to, and what is known of it.
LEMMA SaveOf ==
  ASSUME Typed, CInv, NEW c \in calls
  PROVE  /\ c.save \in Saves /\ Current(c.save)
         /\ ListsOf(save[c.save]) /\ WorkLeft(save[c.save]) /\ OfStage(c, save[c.save])
         /\ save[c.save] \in SaveType /\ save[c.save].stage \in 1..11
         /\ \A j \in Saves : Current(j) => j = c.save
         /\ \A d \in calls : d.save = c.save
BY OneAtATime, NumberOfStages DEF CInv, Lists, Progress, CallsOfStage, Typed, Turns, LastStage

LEMMA CreateCalm ==
  ASSUME Typed, CInv, NEW c \in calls, Answer(c), AnswerCreate(c)
  PROVE  CInv'
<1>0. PICK f : f = [save |-> c.save, op |-> "finish", step |-> c.step, row |-> nextRow]
  OBVIOUS
<1>1. /\ rows' = rows \cup {nextRow} /\ nextRow' = nextRow + 1 /\ rel' = rel
      /\ calls' = (calls \ {c}) \cup {f} /\ c.op = "create"
      /\ UNCHANGED <<steps, hidden, id, content, approval, known, link, modified, dirty, save, slips, stored>>
  BY <1>0 DEF Answer, AnswerCreate, AddRow
<1>2. /\ f.save = c.save /\ f.op = "finish" /\ f.step = c.step /\ f.row = nextRow
  BY <1>0
<1>3. nextRow \in Nat /\ \A r \in rows : r \in Nat
  <2>1. nextRow \in 1..(MaxRows + 1) /\ rows \subseteq 1..MaxRows
    BY DEF Typed, TypeOK, Rows
  <2> QED BY <2>1
<1>4. \A n \in Keys : id[n] \in Nat
  BY BoundsAssumption DEF Typed, TypeOK
<1>5. Turns' /\ \A j \in Saves : Current(j)' => Current(j)
  BY <1>1, <1>2, AnswerTurns DEF CInv
<1>6. Ids'
  BY <1>1, <1>3, <1>4 DEF CInv, Ids, Visible
<1>13. /\ c.step \in Visible /\ id[c.step] = 0 /\ Making(c)
       /\ \A d \in calls : Making(d) /\ d.step = c.step => c = d
  BY <1>1 DEF CInv, Births, Making
<1>14. Making(f) /\ ~Remaking(f) /\ ~Remaking(c)
  BY <1>1, <1>2, <1>3, <1>13 DEF Making, Remaking, Typed, TypeOK
<1>15. \A d : (Making(d)' <=> Making(d)) /\ (Remaking(d)' <=> Remaking(d))
  BY <1>1, SameRows
<1>7. Births'
  <2>1. /\ c.step \in Visible /\ id[c.step] = 0
        /\ \A d \in calls : Making(d) /\ d.step = c.step => c = d
    BY <1>13
  <2>2. Visible' = Visible
    BY <1>1 DEF Visible
  <2>3. \A n \in Keys : id[n] # nextRow
    BY <1>3, <1>4 DEF CInv, Ids
  <2>4. ASSUME NEW d \in calls, d.op = "finish"
        PROVE  d.row # nextRow
    <3>1. CASE Making(d)
      BY <1>3, <2>4, <3>1 DEF CInv, Ids, Births
    <3>2. CASE ~Making(d)
      BY <2>3, <2>4, <3>2 DEF Making, Typed, CallTyped
    <3> QED BY <3>1, <3>2
  <2>5. ASSUME NEW d \in calls \ {c}
        PROVE  /\ Making(d) => /\ d.step \in Visible /\ id[d.step] = 0
                               /\ \A e \in calls' : Making(e) /\ e.step = d.step => d = e
               /\ d.op = "finish" /\ Making(d) =>
                                     /\ d.row \in rows'
                                     /\ \A n \in Keys : id[n] # d.row
                                     /\ \A e \in calls' : e.op = "finish" /\ e.row = d.row => d = e
    BY <1>1, <1>2, <2>1, <2>4 DEF CInv, Births
  <2>6. /\ \A e \in calls' : Making(e) /\ e.step = f.step => f = e
        /\ \A e \in calls' : e.op = "finish" /\ e.row = f.row => f = e
    BY <1>1, <1>2, <2>1, <2>4
  <2> QED BY <1>1, <1>2, <1>15, <2>1, <2>2, <2>3, <2>5, <2>6 DEF Births
<1>8. Owned'
  <2> SUFFICES ASSUME "half" \notin slips, NEW r \in rows'
               PROVE  \/ \E n \in steps : id[n] = r
                      \/ \E d \in calls' : d.op = "finish" /\ d.row = r
    BY <1>1 DEF Owned
  <2>1. CASE r = nextRow
    BY <1>1, <1>2, <2>1
  <2>2. CASE r \in rows
    <3>1. (\E n \in steps : id[n] = r) \/ \E d \in calls : d.op = "finish" /\ d.row = r
      BY <2>2 DEF CInv, Owned
    <3> QED BY <1>1, <3>1
  <2> QED BY <1>1, <2>1, <2>2
<1>9. Lists'
  BY <1>1, <1>5, AnswerLists DEF CInv
<1>10. CallsOfStage'
  <2> DEFINE v == save[c.save]
  <2>1. c.step \in v.fresh /\ CreateStage(approval[c.step]) = v.stage
    BY <1>13 DEF CInv, CallsOfStage, OfStage
  <2>2. v' = v /\ save'[f.save] = v
    BY <1>1, <1>2
  <2> HIDE DEF v
  <2>3. OfStage(f, v)' /\ OfStage(f, save[f.save])'
    BY <1>1, <1>2, <1>14, <1>15, <2>1, <2>2 DEF OfStage
  <2>4. \A d \in calls : OfStage(d, save[d.save])'
    BY <1>1, <1>15 DEF CInv, CallsOfStage, OfStage
  <2> QED BY <1>1, <2>2, <2>3, <2>4 DEF CallsOfStage
<1>11. Progress'
  <2> SUFFICES ASSUME NEW k \in Saves, Current(k)
               PROVE  WorkLeft(save[k])'
    BY <1>5 DEF Progress
  <2> DEFINE v == save[k]
  <2>1. WorkLeft(v) /\ ListsOf(v)
    BY DEF CInv, Progress, Lists
  <2>2. nextRow \notin v.deleted
    <3>1. v.deleted = {id[n] : n \in {m \in hidden : id[m] # 0}}
      BY <2>1 DEF ListsOf
    <3>2. \A n \in Keys : id[n] # nextRow
      BY <1>3, <1>4 DEF CInv, Ids
    <3> QED BY <3>1, <3>2 DEF Typed, TypeOK
  <2>3. \A n : (\E d \in calls : MakesRow(d, n)) => \E d \in calls' : MakesRow(d, n)
    BY <1>1, <1>2, <1>14 DEF MakesRow
  <2>4. \A n : (\E d \in calls : UpdatesStep(d, n)) => \E d \in calls' : UpdatesStep(d, n)
    BY <1>1, <1>14 DEF UpdatesStep
  <2>5. \A l : /\ (\E d \in calls : TakesLink(d, l)) => \E d \in calls' : TakesLink(d, l)
               /\ (\E d \in calls : AddsLink(d, l)) => \E d \in calls' : AddsLink(d, l)
    BY <1>1 DEF TakesLink, AddsLink
  <2>6. \A r : (\E d \in calls : DeletesRow(d, r)) => \E d \in calls' : DeletesRow(d, r)
    BY <1>1 DEF DeletesRow
  <2>7. /\ DrawnRows' = DrawnRows /\ save' = save /\ id' = id /\ content' = content /\ stored' = stored
        /\ slips' = slips /\ rel' = rel /\ rows' = rows \cup {nextRow} /\ approval' = approval
    BY <1>1, SameDrawing
  <2> HIDE DEF v
  <2>8. WorkLeft(v)'
    BY <2>1, <2>2, <2>3, <2>4, <2>5, <2>6, <2>7, SameRows DEF WorkLeft, Left, v
  <2> QED BY <2>8 DEF v
<1>12. Edges'
  BY <1>1 DEF CInv, Edges
<1> QED BY <1>5, <1>6, <1>7, <1>8, <1>9, <1>10, <1>11, <1>12 DEF CInv

\* An answer that only takes the request from those on their way, and perhaps a
\* row that no step shows.
LEMMA AnsweredCalm ==
  ASSUME Typed, CInv, NEW c \in calls, c.op \notin {"create", "finish"}, calls' = calls \ {c},
         UNCHANGED <<steps, hidden, id, content, approval, known, link, modified, dirty, save, slips, nextRow>>,
         rows' \subseteq rows,
         \A n \in Visible : id[n] # 0 => id[n] \in rows',
         \A d \in calls : d.op = "finish" /\ Making(d) => d.row \in rows',
         WorkLeft(save[c.save])', Edges'
  PROVE  CInv'
<1>1. Turns' /\ \A j \in Saves : Current(j)' => Current(j)
  BY AnswerTurns DEF CInv
<1>2. Visible' = Visible
  BY DEF Visible
<1>3. Ids'
  BY <1>2 DEF CInv, Ids
<1>4. Births'
  BY <1>2, SameRows DEF CInv, Births
<1>5. Owned'
  BY DEF CInv, Owned
<1>6. Lists'
  BY <1>1, AnswerLists DEF CInv
<1>7. CallsOfStage'
  BY AnswerOfStage DEF CInv
<1>8. Progress'
  <2>1. \A j \in Saves : Current(j)' => j = c.save
    BY <1>1, SaveOf
  <2> QED BY <2>1 DEF Progress
<1> QED BY <1>1, <1>3, <1>4, <1>5, <1>6, <1>7, <1>8 DEF CInv

\* What is not answered goes on waiting.
LEMMA StillWaits ==
  ASSUME NEW c \in calls, calls \ {c} \subseteq calls'
  PROVE  /\ \A n : ~MakesRow(c, n) /\ (\E d \in calls : MakesRow(d, n)) => \E d \in calls' : MakesRow(d, n)
         /\ \A n : ~UpdatesStep(c, n) /\ (\E d \in calls : UpdatesStep(d, n)) => \E d \in calls' : UpdatesStep(d, n)
         /\ \A l : ~TakesLink(c, l) /\ (\E d \in calls : TakesLink(d, l)) => \E d \in calls' : TakesLink(d, l)
         /\ \A l : ~AddsLink(c, l) /\ (\E d \in calls : AddsLink(d, l)) => \E d \in calls' : AddsLink(d, l)
         /\ \A r : ~DeletesRow(c, r) /\ (\E d \in calls : DeletesRow(d, r)) => \E d \in calls' : DeletesRow(d, r)
OBVIOUS

\* An updated row to which an approval's template is still to be made.
LEMMA RenewCalm ==
  ASSUME Typed, CInv, NEW c \in calls, Answer(c), AnswerUpdate(c), c.approval = "new"
  PROVE  CInv'
<1> DEFINE v == save[c.save]
<1>0. PICK f : f = [save |-> c.save, op |-> "finish", step |-> c.step, row |-> c.row]
  OBVIOUS
<1>1. /\ calls' = (calls \ {c}) \cup {f} /\ c.op = "update"
      /\ UNCHANGED <<steps, hidden, id, content, approval, known, link, modified, dirty, save, slips,
                     stored, rows, rel, nextRow>>
  BY <1>0 DEF Answer, AnswerUpdate
<1>2. /\ f.save = c.save /\ f.op = "finish" /\ f.step = c.step /\ f.row = c.row
  BY <1>0
<1>3. /\ WorkLeft(v) /\ ListsOf(v) /\ OfStage(c, v) /\ v' = v /\ v.stage \in 1..11
      /\ \A j \in Saves : Current(j) => j = c.save
  BY <1>1, SaveOf
<1> HIDE DEF v
<1>4. c.step \in v.edited /\ UpdateStage(approval[c.step]) = v.stage /\ c.row = id[c.step]
  BY <1>1, <1>3 DEF OfStage
<1>5. /\ Remaking(f) /\ ~Making(f) /\ ~Making(c) /\ ~Remaking(c)
      /\ \A d : (Making(d)' <=> Making(d)) /\ (Remaking(d)' <=> Remaking(d))
  BY <1>1, <1>2, <1>4, SameRows DEF Making, Remaking
<1>6. Turns' /\ \A j \in Saves : Current(j)' => Current(j)
  BY <1>1, <1>2, AnswerTurns DEF CInv
<1>7. Ids' /\ Edges'
  BY <1>1 DEF CInv, Ids, Edges, Visible
<1>8. Births'
  <2>1. c.step \in Keys /\ Visible' = Visible
    BY <1>1 DEF Typed, CallTyped, Visible
  <2>2. ASSUME NEW d \in calls, d.op = "finish", Making(d)
        PROVE  f.row # d.row
    BY <1>2, <1>4, <2>1, <2>2 DEF CInv, Births
  <2> QED BY <1>1, <1>2, <1>5, <2>1, <2>2 DEF CInv, Births
<1>9. Owned'
  BY <1>1 DEF CInv, Owned
<1>10. Lists'
  BY <1>1, <1>6, AnswerLists DEF CInv
<1>11. CallsOfStage'
  <2>1. OfStage(f, v)'
    BY <1>1, <1>2, <1>3, <1>4, <1>5 DEF OfStage
  <2>2. \A d \in calls : OfStage(d, save[d.save])'
    BY <1>1, <1>5 DEF CInv, CallsOfStage, OfStage
  <2> QED BY <1>1, <1>2, <2>1, <2>2 DEF CallsOfStage, v
<1>12. WorkLeft(v)'
  <2>1. \A n : (\E d \in calls : MakesRow(d, n)) => \E d \in calls' : MakesRow(d, n)
    BY <1>1, <1>5 DEF MakesRow
  <2>2. \A n : (\E d \in calls : UpdatesStep(d, n)) => \E d \in calls' : UpdatesStep(d, n)
    BY <1>1, <1>2, <1>5 DEF UpdatesStep
  <2>3. \A l : /\ (\E d \in calls : TakesLink(d, l)) => \E d \in calls' : TakesLink(d, l)
               /\ (\E d \in calls : AddsLink(d, l)) => \E d \in calls' : AddsLink(d, l)
    BY <1>1 DEF TakesLink, AddsLink
  <2>4. \A r : (\E d \in calls : DeletesRow(d, r)) => \E d \in calls' : DeletesRow(d, r)
    BY <1>1 DEF DeletesRow
  <2>5. DrawnRows' = DrawnRows
    BY <1>1, SameDrawing
  <2> QED BY <1>1, <1>3, <2>1, <2>2, <2>3, <2>4, <2>5, SameRows DEF WorkLeft, Left
<1>13. Progress'
  BY <1>3, <1>6, <1>12 DEF Progress, v
<1> QED BY <1>6, <1>7, <1>8, <1>9, <1>10, <1>11, <1>13 DEF CInv

LEMMA UpdateCalm ==
  ASSUME Typed, CInv, NEW c \in calls, Answer(c), AnswerUpdate(c), c.approval # "new"
  PROVE  CInv'
<1>1. /\ stored' = [stored EXCEPT ![c.row] = @ \/ c.new] /\ calls' = calls \ {c} /\ c.op = "update"
      /\ UNCHANGED <<steps, hidden, id, content, approval, known, link, modified, dirty, save, slips, rows, rel, nextRow>>
      /\ c.row \in rows
  BY DEF Answer, AnswerUpdate, Accepts
<1>2. ~Making(c) /\ ~Remaking(c)
  BY <1>1 DEF Making, Remaking
<1>3. Edges'
  BY <1>1 DEF CInv, Edges
<1>4. /\ \A n \in Visible : id[n] # 0 => id[n] \in rows'
      /\ \A d \in calls : d.op = "finish" /\ Making(d) => d.row \in rows'
  BY <1>1 DEF CInv, Ids, Births
<1> DEFINE v == save[c.save]
<1>5. WorkLeft(v) /\ OfStage(c, v) /\ v' = v /\ v.stage \in 1..11 /\ v \in SaveType
  BY <1>1, SaveOf
<1> HIDE DEF v
<1>6. stored \in [Rows -> BOOLEAN] /\ rows \subseteq Rows
  BY DEF Typed, TypeOK
<1>7. /\ \A r \in Rows : stored[r] => stored'[r]
      /\ stored'[c.row] = (stored[c.row] \/ c.new)
  BY <1>1, <1>6
<1>8. DrawnRows' = DrawnRows
  BY <1>1, SameDrawing
<1>9. c.row = id[c.step] /\ c.new = content[c.step]
  BY <1>1, <1>5 DEF OfStage
<1>18. \A d, n : (MakesRow(d, n)' <=> MakesRow(d, n)) /\ (UpdatesStep(d, n)' <=> UpdatesStep(d, n))
  BY <1>1, SameRows
<1>10. /\ \A n : ~MakesRow(c, n) /\ (UpdatesStep(c, n) => n = c.step)
       /\ \A l : ~TakesLink(c, l) /\ ~AddsLink(c, l)
       /\ \A r : ~DeletesRow(c, r)
  BY <1>1, <1>2 DEF MakesRow, UpdatesStep, TakesLink, AddsLink, DeletesRow
<1>11. \A n \in v.fresh :
         /\ id[n] = 0 => Left(v, CreateStage(approval[n]), \E d \in calls' : MakesRow(d, n))
         /\ id[n] # 0 => stored'[id[n]] /\ CreateStage(approval[n]) <= v.stage
  <2> TAKE n \in v.fresh
  <2>1. n \in Keys /\ id[n] \in 0..MaxRows /\ (id[n] # 0 => id[n] \in Rows)
    BY <1>5, BoundsAssumption DEF SaveType, Typed, TypeOK, Rows
  <2> QED BY <1>1, <1>5, <1>7, <1>10, <2>1, StillWaits DEF WorkLeft, Left
<1>12. \A n \in v.edited : "swallowed" \notin slips /\ content[n] /\ ~stored'[id[n]] =>
          Left(v, UpdateStage(approval[n]), \E d \in calls' : UpdatesStep(d, n))
  <2> SUFFICES ASSUME NEW n \in v.edited, "swallowed" \notin slips, content[n], ~stored'[id[n]]
               PROVE  Left(v, UpdateStage(approval[n]), \E d \in calls' : UpdatesStep(d, n))
    OBVIOUS
  <2>1. n # c.step
    BY <1>7, <1>9
  <2>2. ~stored[id[n]]
    BY <1>1, <1>6, <1>7
  <2> QED BY <1>1, <1>5, <1>10, <2>1, <2>2, StillWaits DEF WorkLeft, Left
<1>13. \A l \in v.unlink \cap rel : Left(v, UnlinkStage(l[3]), \E d \in calls' : TakesLink(d, l))
  BY <1>1, <1>5, <1>10, StillWaits DEF WorkLeft, Left
<1>14. \A l \in v.link \ rel : l[2] \in DrawnRows => Left(v, LinkStage(l[3]), \E d \in calls' : AddsLink(d, l))
  BY <1>1, <1>5, <1>10, StillWaits DEF WorkLeft, Left
<1>15. \A r \in v.deleted \cap rows : Left(v, LastStage, \E d \in calls' : DeletesRow(d, r))
  BY <1>1, <1>5, <1>10, StillWaits DEF WorkLeft, Left
<1>16. WorkLeft(v)'
  BY <1>1, <1>5, <1>8, <1>11, <1>12, <1>13, <1>14, <1>15, <1>18 DEF WorkLeft, Left
<1>17. WorkLeft(save[c.save])'
  BY <1>5, <1>16 DEF v
<1> QED BY <1>1, <1>2, <1>3, <1>4, <1>17, AnsweredCalm

\* The work on links when links change and nothing else does.
LEMMA LinksLeft ==
  ASSUME NEW c \in calls, calls' = calls \ {c}, c.op \in {"unlink", "link", "delete"},
         UNCHANGED <<id, content, approval, stored, DrawnRows>>,
         "swallowed" \in slips' <=> "swallowed" \in slips,
         NEW v, v' = v, WorkLeft(v), OfStage(c, v), v.stage \in 1..11,
         \A r \in v.deleted \cap rows' : r \in rows /\ ~DeletesRow(c, r),
         \A l \in v.unlink \cap rel' : l \in rel /\ ~TakesLink(c, l),
         \A l \in v.link \ rel' : l[2] \in DrawnRows =>
           \/ l \notin rel /\ ~AddsLink(c, l)
           \/ LinkStage(l[3]) > v.stage
  PROVE  WorkLeft(v)'
<1>1. \A n : ~MakesRow(c, n) /\ ~UpdatesStep(c, n)
  BY DEF MakesRow, Making, UpdatesStep, Remaking
<1>2. \A n \in v.fresh :
         /\ id[n] = 0 => Left(v, CreateStage(approval[n]), \E d \in calls' : MakesRow(d, n))
         /\ id[n] # 0 => stored[id[n]] /\ CreateStage(approval[n]) <= v.stage
  BY <1>1, StillWaits DEF WorkLeft, Left
<1>3. \A n \in v.edited : "swallowed" \notin slips /\ content[n] /\ ~stored[id[n]] =>
         Left(v, UpdateStage(approval[n]), \E d \in calls' : UpdatesStep(d, n))
  BY <1>1, StillWaits DEF WorkLeft, Left
<1>4. \A l \in v.unlink \cap rel' : Left(v, UnlinkStage(l[3]), \E d \in calls' : TakesLink(d, l))
  BY StillWaits DEF WorkLeft, Left
<1>5. \A l \in v.link \ rel' : l[2] \in DrawnRows => Left(v, LinkStage(l[3]), \E d \in calls' : AddsLink(d, l))
  <2> SUFFICES ASSUME NEW l \in v.link \ rel', l[2] \in DrawnRows
               PROVE  Left(v, LinkStage(l[3]), \E d \in calls' : AddsLink(d, l))
    OBVIOUS
  <2>1. CASE l \notin rel /\ ~AddsLink(c, l)
    BY <2>1, StillWaits DEF WorkLeft, Left
  <2>2. CASE LinkStage(l[3]) > v.stage
    BY <2>2, StageRanges DEF Left
  <2> QED BY <2>1, <2>2
<1>6. \A r \in v.deleted \cap rows' : Left(v, LastStage, \E d \in calls' : DeletesRow(d, r))
  BY StillWaits DEF WorkLeft, Left
<1> QED BY <1>2, <1>3, <1>4, <1>5, <1>6, SameRows DEF WorkLeft, Left

LEMMA UnlinkCalm ==
  ASSUME Typed, CInv, NEW c \in calls, Answer(c), AnswerUnlink(c)
  PROVE  CInv'
<1>1. /\ rel' = rel \ {Triple(c)} /\ calls' = calls \ {c} /\ c.op = "unlink"
      /\ UNCHANGED <<steps, hidden, id, content, approval, known, link, modified, dirty, save, slips, rows, stored, nextRow>>
  BY DEF Answer, AnswerUnlink, Triple
<1>2. ~Making(c) /\ ~Remaking(c)
  BY <1>1 DEF Making, Remaking
<1>3. Edges'
  BY <1>1 DEF CInv, Edges
<1>4. /\ \A n \in Visible : id[n] # 0 => id[n] \in rows'
      /\ \A d \in calls : d.op = "finish" /\ Making(d) => d.row \in rows'
  BY <1>1 DEF CInv, Ids, Births
<1> DEFINE v == save[c.save]
<1>5. WorkLeft(v) /\ OfStage(c, v) /\ v' = v /\ v.stage \in 1..11
  BY <1>1, SaveOf
<1> HIDE DEF v
<1>6. DrawnRows' = DrawnRows
  BY <1>1, SameDrawing
<1>7. \A l \in v.unlink \cap rel' : l \in rel /\ ~TakesLink(c, l)
  BY <1>1 DEF TakesLink
<1>8. \A l \in v.link \ rel' : \/ l \notin rel /\ ~AddsLink(c, l)
                               \/ LinkStage(l[3]) > v.stage
  <2> TAKE l \in v.link \ rel'
  <2>1. CASE l \in rel
    BY <1>1, <1>5, <2>1, StageRanges DEF OfStage
  <2>2. CASE l \notin rel
    BY <1>1, <2>2 DEF AddsLink
  <2> QED BY <2>1, <2>2
<1>9. \A r \in v.deleted \cap rows' : r \in rows /\ ~DeletesRow(c, r)
  BY <1>1 DEF DeletesRow
<1>10. WorkLeft(v)'
  BY <1>1, <1>5, <1>6, <1>7, <1>8, <1>9, LinksLeft
<1>11. WorkLeft(save[c.save])'
  BY <1>5, <1>10 DEF v
<1> QED BY <1>1, <1>2, <1>3, <1>4, <1>11, AnsweredCalm

\* The links a save makes and takes away are not the same, and those it makes
\* lead from a step to another that has its row.
LEMMA ListsOfLinks ==
  ASSUME Typed, Ids, Edges, NEW v, ListsOf(v), WorkLeft(v), v.stage \in 5..11,
         NEW l \in Links
  PROVE  /\ l \notin Unlinks
         /\ \E e \in DOMAIN link : /\ e[1] \in Marked /\ link[e].visible /\ link[e].type = l[3]
                                   /\ id[e[1]] = l[1] /\ id[e[2]] = l[2]
         /\ l[2] # 0
<1>1. PICK n \in Marked : \E w \in DrawnFrom(n) \ known[n] : l = <<id[n], w[1], w[2]>>
  BY DEF Links
<1>2. PICK w \in DrawnFrom(n) \ known[n] : l = <<id[n], w[1], w[2]>>
  BY <1>1
<1>3. PICK e \in DOMAIN link : e[1] = n /\ link[e].visible /\ w = <<id[e[2]], link[e].type>>
  BY DEF DrawnFrom, OutOf
<1>4. l[1] = id[n] /\ l[2] = id[e[2]] /\ l[3] = link[e].type /\ <<l[2], l[3]>> = w
  BY <1>2, <1>3
<1>5. n \in Visible /\ n \in Keys /\ e[2] \in steps
  BY DEF Marked, Visible, Typed, TypeOK
<1>6. l[2] # 0
  <2>1. CASE e[2] \in hidden
    BY <1>3, <1>4, <2>1 DEF ListsOf
  <2>2. CASE e[2] \notin hidden
    <3>1. e[2] \in Visible /\ CreateStage(approval[e[2]]) < v.stage
      BY <1>5, <2>2, StageRanges DEF Visible
    <3>2. id[e[2]] = 0 => e[2] \in v.fresh /\ CreateStage(approval[e[2]]) >= v.stage
      BY <3>1 DEF ListsOf, WorkLeft, Left
    <3>3. CreateStage(approval[e[2]]) \in Nat
      BY StageRanges
    <3> QED BY <1>4, <3>1, <3>2, <3>3
  <2> QED BY <2>1, <2>2
<1>7. l \notin Unlinks
  <2> SUFFICES ASSUME l \in Unlinks PROVE FALSE
    OBVIOUS
  <2>1. PICK m \in Marked : \E u \in known[m] : l = <<id[m], u[1], u[2]>>
    BY DEF Unlinks, UnlinksOf
  <2>2. PICK u \in known[m] : l = <<id[m], u[1], u[2]>>
    BY <2>1
  <2>3. m \in Keys /\ known[m] \subseteq Rows \X LinkTypes
    BY DEF Marked, Typed, TypeOK
  <2>4. u = <<l[2], l[3]>> /\ id[m] = l[1] /\ id[m] # 0
    BY <2>2, <2>3 DEF Edges
  <2>5. m = n
    BY <1>4, <1>5, <2>3, <2>4 DEF Ids
  <2> QED BY <1>4, <2>4, <2>5
<1> QED BY <1>3, <1>4, <1>6, <1>7

LEMMA LinkCalm ==
  ASSUME Typed, CInv, NEW c \in calls, Answer(c), AnswerLink(c)
  PROVE  CInv'
<1> DEFINE v == save[c.save]
<1>1. c.op = "link" /\ calls' = calls \ {c}
      /\ UNCHANGED <<steps, hidden, id, content, approval, known, link, modified, dirty, save, slips, stored>>
  BY DEF Answer, AnswerLink
<1>2. ~Making(c)
  BY <1>1 DEF Making
<1>3. WorkLeft(v) /\ ListsOf(v) /\ OfStage(c, v) /\ v' = v /\ v.stage \in 1..11
  BY <1>1, SaveOf
<1> HIDE DEF v
<1>4. Triple(c) \in v.link /\ v.stage \in 5..11
  BY <1>1, <1>3, StageRanges DEF OfStage
<1>5. v.link = Links /\ v.unlink = Unlinks
  BY <1>3, <1>4, NumberOfStages DEF ListsOf
<1>6. /\ Triple(c) \notin v.unlink
      /\ \E e \in DOMAIN link : id[e[1]] = c.row /\ id[e[2]] = c.to
      /\ c.to # 0
  BY <1>3, <1>4, <1>5, ListsOfLinks DEF CInv, Triple
<1>7. /\ rel' = rel \cup {Triple(c)} /\ UNCHANGED <<rows, nextRow>>
      /\ c.row \in rows /\ c.to \in rows
  BY <1>1, <1>6 DEF Answer, Accepts, AnswerLink, Triple
<1>8. Edges'
  <2>1. \A l \in rel' : /\ l[1] \in rows /\ l[2] \in rows
                        /\ \E e \in DOMAIN link : id[e[1]] = l[1] /\ id[e[2]] = l[2]
    BY <1>6, <1>7 DEF CInv, Edges, Triple
  <2> QED BY <1>1, <1>7, <2>1 DEF CInv, Edges
<1>9. /\ \A n \in Visible : id[n] # 0 => id[n] \in rows'
      /\ \A d \in calls : d.op = "finish" /\ Making(d) => d.row \in rows'
  BY <1>7 DEF CInv, Ids, Births
<1>10. DrawnRows' = DrawnRows
  BY <1>1, SameDrawing
<1>11. \A l \in v.unlink \cap rel' : l \in rel /\ ~TakesLink(c, l)
  BY <1>1, <1>6, <1>7 DEF TakesLink
<1>12. \A l \in v.link \ rel' : l \notin rel /\ ~AddsLink(c, l)
  BY <1>7 DEF AddsLink
<1>13. \A r \in v.deleted \cap rows' : r \in rows /\ ~DeletesRow(c, r)
  BY <1>1, <1>7 DEF DeletesRow
<1>14. WorkLeft(v)'
  BY <1>1, <1>3, <1>10, <1>11, <1>12, <1>13, LinksLeft
<1>15. WorkLeft(save[c.save])'
  BY <1>3, <1>14 DEF v
<1> QED BY <1>1, <1>2, <1>7, <1>8, <1>9, <1>15, AnsweredCalm

LEMMA DeleteCalm ==
  ASSUME Typed, CInv, NEW c \in calls, Answer(c), AnswerDelete(c)
  PROVE  CInv'
<1> DEFINE v == save[c.save]
<1>1. /\ c.op = "delete" /\ calls' = calls \ {c}
      /\ rows' = rows \ {c.row} /\ rel' = {l \in rel : c.row \notin {l[1], l[2]}}
      /\ UNCHANGED <<steps, hidden, id, content, approval, known, link, modified, dirty, save, slips, stored, nextRow>>
  BY DEF Answer, AnswerDelete
<1>2. ~Making(c)
  BY <1>1 DEF Making
<1>3. WorkLeft(v) /\ ListsOf(v) /\ OfStage(c, v) /\ v' = v /\ v.stage \in 1..11
  BY <1>1, SaveOf
<1>4. \A d \in calls : OfStage(d, v)
  BY SaveOf DEF CInv, CallsOfStage
<1> HIDE DEF v
<1>5. c.row \in v.deleted /\ v.stage = 11
  BY <1>1, <1>3, NumberOfStages DEF OfStage, LastStage
<1>6. PICK m \in hidden : c.row = id[m] /\ id[m] # 0
  BY <1>3, <1>5 DEF ListsOf
<1>7. /\ hidden \subseteq Keys /\ Visible \subseteq Keys /\ Visible \cap hidden = {}
  BY DEF Typed, TypeOK, Visible
<1>8. \A n \in Visible : id[n] # c.row
  BY <1>6, <1>7 DEF CInv, Ids
<1>9. /\ \A n \in Visible : id[n] # 0 => id[n] \in rows'
      /\ \A d \in calls : d.op = "finish" /\ Making(d) => d.row \in rows'
  <2>1. \A n \in Visible : id[n] # 0 => id[n] \in rows'
    BY <1>1, <1>8 DEF CInv, Ids
  <2>2. ASSUME NEW d \in calls, d.op = "finish"
        PROVE  d.row \in rows'
    BY <1>4, <1>5, <2>2, StageRanges DEF OfStage, Making, Remaking
  <2> QED BY <2>1, <2>2
<1>10. Edges'
  BY <1>1 DEF CInv, Edges
<1>11. DrawnRows' = DrawnRows
  BY <1>1, SameDrawing
<1>12. \A l \in v.unlink \cap rel' : l \in rel /\ ~TakesLink(c, l)
  BY <1>1 DEF TakesLink
<1>13. \A l \in v.link \ rel' : l[2] \in DrawnRows => l \notin rel /\ ~AddsLink(c, l)
  <2> SUFFICES ASSUME NEW l \in v.link \ rel', l[2] \in DrawnRows
               PROVE  l \notin rel
    BY <1>1 DEF AddsLink
  <2>1. l \in Links
    BY <1>3, <1>5, NumberOfStages DEF ListsOf
  <2>2. PICK e \in DOMAIN link : e[1] \in Marked /\ id[e[1]] = l[1]
    BY <1>3, <1>5, <2>1, ListsOfLinks DEF CInv
  <2>3. l[1] # c.row
    BY <1>8, <2>2 DEF Marked
  <2>4. l[2] # c.row
    BY <1>8 DEF DrawnRows
  <2> QED BY <1>1, <2>3, <2>4
<1>14. \A r \in v.deleted \cap rows' : r \in rows /\ ~DeletesRow(c, r)
  BY <1>1 DEF DeletesRow
<1>15. WorkLeft(v)'
  BY <1>1, <1>3, <1>11, <1>12, <1>13, <1>14, LinksLeft
<1>16. WorkLeft(save[c.save])'
  BY <1>3, <1>15 DEF v
<1> QED BY <1>1, <1>2, <1>9, <1>10, <1>16, AnsweredCalm

\* The template of an approval that has its row is made, and the links known of it
\* are forgotten.
LEMMA RemakeCalm ==
  ASSUME Typed, CInv, NEW c \in calls, Answer(c), AnswerFinish(c), Remaking(c)
  PROVE  CInv'
<1> DEFINE v == save[c.save]
           n == c.step
<1>1. /\ c.op = "finish" /\ calls' = calls \ {c} /\ id[n] = c.row
      /\ id' = [id EXCEPT ![n] = c.row] /\ known' = [known EXCEPT ![n] = {}]
      /\ stored' = [stored EXCEPT ![c.row] = TRUE] /\ slips \subseteq slips'
      /\ "half" \in slips' <=> "half" \in slips
      /\ "swallowed" \in slips' <=> "swallowed" \in slips
      /\ UNCHANGED <<steps, hidden, content, approval, link, modified, dirty, save, rows, rel, nextRow>>
  BY DEF Answer, AnswerFinish, Remaking
<1>2. /\ WorkLeft(v) /\ ListsOf(v) /\ OfStage(c, v) /\ v' = v /\ v.stage \in 1..11 /\ v \in SaveType
      /\ \A j \in Saves : Current(j) => j = c.save
      /\ \A d \in calls : d.save = c.save
  BY <1>1, SaveOf
<1>3. \A d \in calls : OfStage(d, v)
  BY <1>2 DEF CInv, CallsOfStage
<1> HIDE DEF v
<1>4. n \in v.edited /\ UpdateStage(approval[n]) = v.stage /\ v.stage \in 3..4
  BY <1>2, StageRanges DEF OfStage
<1>5. /\ id \in [Keys -> 0..MaxRows] /\ known \in [Keys -> SUBSET (Rows \X LinkTypes)]
      /\ stored \in [Rows -> BOOLEAN] /\ n \in Keys /\ c.row \in Rows /\ 0 \notin Rows
  BY <1>1 DEF Typed, TypeOK, CallTyped, Rows
<1> HIDE DEF n
<1>6. /\ id' = id /\ known'[n] = {} /\ \A m \in Keys : m # n => known'[m] = known[m]
      /\ stored'[c.row] /\ \A r \in Rows : stored[r] => stored'[r]
  BY <1>1, <1>5
<1>7. n \in steps
  BY <1>1, <1>5 DEF CInv, Ids
<1>8. Visible' = Visible /\ Marked' = Marked /\ DrawnRows' = DrawnRows
  BY <1>1, <1>6 DEF Visible, Marked, DrawnRows
<1>9. Turns' /\ \A j \in Saves : Current(j)' => j = c.save
  BY <1>1, <1>2, AnswerTurns DEF CInv
<1>10. \A d : (Making(d)' <=> Making(d)) /\ (Remaking(d)' <=> Remaking(d))
  BY <1>6, SameRows
<1>11. Ids' /\ Births'
  BY <1>1, <1>6, <1>8, <1>10 DEF CInv, Ids, Births
<1>12. Owned'
  BY <1>1, <1>6, <1>7 DEF CInv, Owned
<1>13. ListsOf(v)'
  <2>1. ~(v.stage >= FirstOfLinks)
    BY <1>4, NumberOfStages
  <2> QED BY <1>1, <1>2, <1>6, <1>8, <2>1 DEF ListsOf
<1>14. CallsOfStage'
  <2> SUFFICES ASSUME NEW d \in calls, d # c PROVE OfStage(d, v)'
    BY <1>1, <1>2 DEF CallsOfStage, v
  <2> QED BY <1>1, <1>2, <1>3, <1>6, <1>10 DEF OfStage
<1>15. WorkLeft(v)'
  <2>1. ASSUME NEW m \in v.fresh
        PROVE  /\ id[m] = 0 => Left(v, CreateStage(approval[m]), \E d \in calls' : MakesRow(d, m))
               /\ id[m] # 0 => stored'[id[m]] /\ CreateStage(approval[m]) <= v.stage
    <3>1. ~MakesRow(c, m)
      BY <1>1 DEF MakesRow, Making, n
    <3>2. (\E d \in calls : MakesRow(d, m)) => \E d \in calls' : MakesRow(d, m)
      BY <1>1, <3>1, StillWaits
    <3>3. id[m] # 0 => id[m] \in Rows
      BY <1>2, <1>5, BoundsAssumption DEF SaveType, Rows
    <3> QED BY <1>2, <1>6, <3>2, <3>3 DEF WorkLeft, Left
  <2>2. ASSUME NEW m \in v.edited, "swallowed" \notin slips, content[m], ~stored'[id[m]]
        PROVE  Left(v, UpdateStage(approval[m]), \E d \in calls' : UpdatesStep(d, m))
    <3>1. m # n
      BY <1>1, <1>6, <2>2
    <3>2. ~UpdatesStep(c, m)
      BY <3>1 DEF UpdatesStep, n
    <3>3. (\E d \in calls : UpdatesStep(d, m)) => \E d \in calls' : UpdatesStep(d, m)
      BY <1>1, <3>2, StillWaits
    <3>4. ~stored[id[m]]
      BY <1>1, <1>5, <2>2
    <3> QED BY <1>2, <2>2, <3>3, <3>4 DEF WorkLeft, Left
  <2>3. \A i \in 5..11 : \A waits : Left(v, i, waits)
    BY <1>4 DEF Left
  <2>4. /\ \A t : UnlinkStage(t) \in 5..11 /\ LinkStage(t) \in 5..11
        /\ LastStage \in 5..11
    BY StageRanges, NumberOfStages DEF LastStage
  <2>5. /\ \A t, waits : Left(v, UnlinkStage(t), waits) /\ Left(v, LinkStage(t), waits)
        /\ \A waits : Left(v, LastStage, waits)
    BY <2>3, <2>4
  <2>6. \A d, m : (MakesRow(d, m)' <=> MakesRow(d, m)) /\ (UpdatesStep(d, m)' <=> UpdatesStep(d, m))
    BY <1>6, SameRows
  <2> QED BY <1>1, <1>2, <1>6, <2>1, <2>2, <2>5, <2>6 DEF WorkLeft, Left
<1>16. Lists' /\ Progress'
  BY <1>2, <1>9, <1>13, <1>15 DEF Lists, Progress, v
<1>17. Edges'
  <2>1. \A a \in Keys : known'[a] \subseteq known[a]
    BY <1>6
  <2> QED BY <1>1, <1>6, <2>1 DEF CInv, Edges
<1> QED BY <1>9, <1>11, <1>12, <1>14, <1>16, <1>17 DEF CInv

\* Nothing is forgotten of a step that gets its first row.
LEMMA NewRowsForgetNothing ==
  ASSUME Typed, CInv, NEW c \in calls, Answer(c), c.op = "finish", Making(c)
  PROVE  known[c.step] = {} /\ slips' = slips
<1>1. c.step \in Keys /\ id[c.step] = 0
  BY DEF CInv, Births, Typed, CallTyped
<1>2. known[c.step] = {}
  BY <1>1 DEF CInv, Edges
<1>3. UnlinksOf(c.step) = {}
  BY <1>2 DEF UnlinksOf
<1> QED BY <1>2, <1>3 DEF Answer

\* A step gets to know its row.
LEMMA FinishCalm ==
  ASSUME Typed, CInv, NEW c \in calls, Answer(c), AnswerFinish(c), Making(c)
  PROVE  CInv'
<1> DEFINE v == save[c.save]
           n == c.step
<1>1. /\ c.op = "finish" /\ calls' = calls \ {c}
      /\ id' = [id EXCEPT ![n] = c.row] /\ known' = [known EXCEPT ![n] = {}]
      /\ stored' = [stored EXCEPT ![c.row] = TRUE]
      /\ UNCHANGED <<steps, hidden, content, approval, link, modified, dirty, save, slips, rows, rel, nextRow>>
  BY NewRowsForgetNothing DEF Answer, AnswerFinish
<1>2. Making(c)
  OBVIOUS
<1>3. /\ WorkLeft(v) /\ ListsOf(v) /\ OfStage(c, v) /\ v' = v /\ v.stage \in 1..11 /\ v \in SaveType
      /\ \A j \in Saves : Current(j) => j = c.save
      /\ \A d \in calls : d.save = c.save
  BY <1>1, SaveOf
<1>4. \A d \in calls : OfStage(d, v)
  BY <1>3 DEF CInv, CallsOfStage
<1> HIDE DEF v
<1>5. n \in v.fresh /\ CreateStage(approval[n]) = v.stage /\ v.stage \in 1..2
  BY <1>2, <1>3, StageRanges DEF OfStage
<1>6. /\ n \in Visible /\ id[n] = 0 /\ c.row \in rows
      /\ \A m \in Keys : id[m] # c.row
      /\ \A d \in calls : Making(d) /\ d.step = n => d = c
      /\ \A d \in calls : d.op = "finish" /\ d.row = c.row => d = c
  BY <1>1, <1>2 DEF CInv, Births
<1>7. /\ id \in [Keys -> 0..MaxRows] /\ known \in [Keys -> SUBSET (Rows \X LinkTypes)]
      /\ stored \in [Rows -> BOOLEAN] /\ rows \subseteq Rows
      /\ Visible \subseteq Keys /\ hidden \subseteq Keys /\ Visible \cap hidden = {} /\ n \in steps
      /\ Visible = steps \ hidden
  BY <1>6 DEF Typed, TypeOK, Visible
<1>8. 0 \notin Rows
  BY DEF Rows
<1> HIDE DEF n
<1>9. /\ id'[n] = c.row /\ \A m \in Keys : m # n => id'[m] = id[m]
      /\ known'[n] = {} /\ \A m \in Keys : m # n => known'[m] = known[m]
      /\ c.row # 0
  BY <1>1, <1>6, <1>7, <1>8
<1>10. stored'[c.row] /\ \A r \in Rows : stored[r] => stored'[r]
  BY <1>1, <1>6, <1>7
<1>11. Visible' = Visible /\ Marked' = Marked
  BY <1>1 DEF Visible, Marked
<1>12. Turns' /\ \A j \in Saves : Current(j)' => j = c.save
  BY <1>1, <1>3, AnswerTurns DEF CInv
<1>13. Ids'
  <2>1. \A a, b \in Keys : id'[a] = id'[b] /\ id'[a] # 0 => a = b
    BY <1>6, <1>7, <1>9 DEF CInv, Ids
  <2>2. \A a \in Keys : id'[a] < nextRow /\ (a \notin steps => id'[a] = 0)
    BY <1>6, <1>7, <1>9 DEF CInv, Ids
  <2>3. \A a \in Visible : id'[a] \in rows \cup {0}
    BY <1>6, <1>7, <1>9 DEF CInv, Ids
  <2> QED BY <1>1, <1>11, <2>1, <2>2, <2>3 DEF CInv, Ids
<1>21. ASSUME NEW d \in calls, d # c
       PROVE  (Making(d)' <=> Making(d)) /\ (Remaking(d)' => Remaking(d))
  <2>1. CASE d.op # "finish"
    BY <2>1 DEF Making, Remaking
  <2>2. CASE d.op = "finish" /\ d.step # n
    <3>1. d.step \in Keys
      BY <2>2 DEF Typed, CallTyped
    <3> QED BY <1>9, <2>2, <3>1 DEF Making, Remaking
  <2>3. CASE d.op = "finish" /\ d.step = n
    <3>1. ~Making(d)
      BY <1>6, <1>21, <2>3
    <3>2. d.row = 0 /\ d.row \in Rows
      BY <1>6, <2>3, <3>1 DEF Making, Typed, CallTyped
    <3> QED BY <1>8, <3>2
  <2> QED BY <2>1, <2>2, <2>3
<1>14. Births'
  <2>1. ASSUME NEW d \in calls, d # c, Making(d)
        PROVE  d.step \in Visible /\ id'[d.step] = 0
               /\ \A e \in calls' : Making(e)' /\ e.step = d.step => d = e
    <3>1. d.step \in Visible /\ id[d.step] = 0 /\ d.step # n
      BY <1>6, <2>1 DEF CInv, Births
    <3> QED BY <1>1, <1>7, <1>9, <1>21, <2>1, <3>1 DEF CInv, Births
  <2>2. ASSUME NEW d \in calls, d # c, d.op = "finish", Making(d)
        PROVE  d.row \in rows /\ (\A a \in Keys : id'[a] # d.row)
               /\ \A e \in calls' : e.op = "finish" /\ e.row = d.row => d = e
    <3>1. d.row # c.row
      BY <1>6, <2>2
    <3> QED BY <1>1, <1>9, <2>2, <3>1 DEF CInv, Births
  <2> QED BY <1>1, <1>11, <1>21, <2>1, <2>2 DEF Births
<1>15. Owned'
  <2> SUFFICES ASSUME "half" \notin slips, NEW r \in rows
               PROVE  \/ \E m \in steps : id'[m] = r
                      \/ \E d \in calls' : d.op = "finish" /\ d.row = r
    BY <1>1 DEF Owned
  <2>1. CASE r = c.row
    BY <1>7, <1>9, <2>1
  <2>2. CASE r # c.row
    <3>1. (\E m \in steps : id[m] = r) \/ \E d \in calls : d.op = "finish" /\ d.row = r
      BY DEF CInv, Owned
    <3>2. ASSUME NEW m \in steps, id[m] = r
          PROVE  id'[m] = r
      <4>1. r # 0 /\ m \in Keys
        BY <1>7, <1>8 DEF Typed, TypeOK
      <4> QED BY <1>6, <1>9, <3>2, <4>1
    <3> QED BY <1>1, <2>2, <3>1, <3>2
  <2> QED BY <2>1, <2>2
<1>16. ListsOf(v)'
  <2>1. \A m \in hidden : id'[m] = id[m]
    BY <1>6, <1>7, <1>9
  <2>2. v.deleted = {id'[m] : m \in {a \in hidden : id'[a] # 0}}
    BY <1>3, <2>1 DEF ListsOf
  <2>3. \A m \in Visible : id'[m] = 0 => m \in v.fresh
    BY <1>3, <1>7, <1>9 DEF ListsOf
  <2>4. ~(v.stage >= FirstOfLinks)
    BY <1>5, NumberOfStages
  <2>5. \A m \in Marked : \A e \in DOMAIN link :
          e[1] = m /\ link[e].visible /\ e[2] \in hidden => id'[e[2]] # 0
    BY <1>3, <2>1 DEF ListsOf
  <2> QED BY <1>1, <1>3, <1>11, <2>2, <2>3, <2>4, <2>5 DEF ListsOf
<1>17. CallsOfStage'
  <2> SUFFICES ASSUME NEW d \in calls, d # c PROVE OfStage(d, v)'
    BY <1>1, <1>3 DEF CallsOfStage, v
  <2>1. OfStage(d, v)
    BY <1>4
  <2>2. d.op \notin {"update", "unlink", "link", "delete"}
    BY <1>5, <2>1, StageRanges, NumberOfStages DEF OfStage, LastStage
  <2>3. Making(d) => d.step \in v.fresh /\ CreateStage(approval[d.step]) = v.stage
    BY <2>1 DEF OfStage
  <2>4. ~Remaking(d)
    BY <1>5, <2>1, StageRanges DEF OfStage
  <2> QED BY <1>1, <1>3, <1>21, <2>2, <2>3, <2>4 DEF OfStage
<1>18. WorkLeft(v)'
  <2>1. ASSUME NEW m \in v.fresh
        PROVE  /\ id'[m] = 0 => Left(v, CreateStage(approval[m]), \E d \in calls' : MakesRow(d, m)')
               /\ id'[m] # 0 => stored'[id'[m]] /\ CreateStage(approval[m]) <= v.stage
    <3>1. CASE m = n
      <4>1. id'[m] # 0 /\ id'[m] = c.row
        BY <1>9, <3>1
      <4>2. stored'[id'[m]]
        BY <1>10, <4>1
      <4>3. CreateStage(approval[m]) <= v.stage
        BY <1>5, <3>1
      <4> QED BY <4>1, <4>2, <4>3
    <3>2. CASE m # n
      <4>1. m \in Keys /\ id'[m] = id[m] /\ (id[m] # 0 => id[m] \in Rows)
        BY <1>3, <1>7, <1>9, <3>2, BoundsAssumption DEF SaveType, Rows
      <4>2. ~MakesRow(c, m)
        BY <3>2 DEF MakesRow, n
      <4>3. (\E d \in calls : MakesRow(d, m)) => \E d \in calls' : MakesRow(d, m)'
        BY <1>1, <1>21, <4>2 DEF MakesRow
      <4> QED BY <1>3, <1>10, <4>1, <4>3 DEF WorkLeft, Left
    <3> QED BY <3>1, <3>2
  <2>2. \A i \in 3..11 : \A waits : Left(v, i, waits)
    BY <1>5 DEF Left
  <2>3. /\ \A a : UpdateStage(a) \in 3..11
        /\ \A t : UnlinkStage(t) \in 3..11 /\ LinkStage(t) \in 3..11
        /\ LastStage \in 3..11
    BY StageRanges, NumberOfStages DEF LastStage
  <2>4. /\ \A a, waits : Left(v, UpdateStage(a), waits)
        /\ \A t, waits : Left(v, UnlinkStage(t), waits) /\ Left(v, LinkStage(t), waits)
        /\ \A waits : Left(v, LastStage, waits)
    BY <2>2, <2>3
  <2> QED BY <1>1, <1>3, <2>1, <2>4 DEF WorkLeft, Left
<1>19. Lists' /\ Progress'
  BY <1>3, <1>12, <1>16, <1>18 DEF Lists, Progress, v
<1>20. Edges'
  <2>1. ASSUME NEW a \in Keys, NEW w \in known'[a]
        PROVE  id'[a] # 0 /\ \E e \in DOMAIN link : e[1] = a /\ id'[e[2]] = w[1]
    <3>1. a # n /\ w \in known[a]
      BY <1>9, <2>1
    <3>2. id[a] # 0
      BY <3>1 DEF CInv, Edges
    <3>3. PICK e \in DOMAIN link : e[1] = a /\ id[e[2]] = w[1]
      BY <3>1 DEF CInv, Edges
    <3>4. e[2] \in Keys /\ w[1] \in Rows
      BY <1>7, <3>1 DEF Typed, TypeOK
    <3> QED BY <1>6, <1>8, <1>9, <3>1, <3>2, <3>3, <3>4
  <2>2. ASSUME NEW l \in rel
        PROVE  /\ l[1] \in rows /\ l[2] \in rows
               /\ \E e \in DOMAIN link : id'[e[1]] = l[1] /\ id'[e[2]] = l[2]
    <3>1. l[1] \in rows /\ l[2] \in rows
      BY DEF CInv, Edges
    <3>2. PICK e \in DOMAIN link : id[e[1]] = l[1] /\ id[e[2]] = l[2]
      BY DEF CInv, Edges
    <3>3. e[1] \in Keys /\ e[2] \in Keys /\ l[1] # 0 /\ l[2] # 0
      BY <1>7, <1>8, <3>1 DEF Typed, TypeOK
    <3> QED BY <1>6, <1>9, <3>1, <3>2, <3>3
  <2> QED BY <1>1, <2>1, <2>2 DEF Edges
<1> QED BY <1>12, <1>13, <1>14, <1>15, <1>17, <1>19, <1>20 DEF CInv

\* A request that fails is not on its way any more, and ends its save unless it
\* is an update that is only awaited to settle.
LEMMA FailsCalm ==
  ASSUME Typed, CInv, NEW c \in calls, Fails(c), faults' \in 0..MaxFaults
  PROVE  CInv'
<1> DEFINE v == save[c.save]
<1>1. /\ calls' = calls \ {c}
      /\ save' = IF Settled(c) THEN save ELSE [save EXCEPT ![c.save].failed = TRUE]
      /\ slips' = slips \cup (IF Settled(c) THEN {"swallowed"} ELSE {})
                        \cup (IF c.op = "finish" /\ id[c.step] # c.row THEN {"half"} ELSE {})
      /\ UNCHANGED <<steps, hidden, id, content, approval, known, link, modified, dirty, rows, stored, rel, nextRow>>
  BY DEF Fails, drawing, server
<1>2. /\ WorkLeft(v) /\ ListsOf(v) /\ v.stage \in 1..11 /\ v \in SaveType
      /\ c.save \in Saves /\ Current(c.save)
      /\ \A j \in Saves : Current(j) => j = c.save
  BY SaveOf
<1>0. PICK w : w = save'[c.save]
  OBVIOUS
<1>3. /\ save \in [Saves -> SaveType]
      /\ w.stage = v.stage /\ w.deleted = v.deleted /\ w.fresh = v.fresh /\ w.edited = v.edited
      /\ w.unlink = v.unlink /\ w.link = v.link /\ (v.failed => w.failed)
      /\ Settled(c) \/ w.failed
  BY <1>0, <1>1, <1>2 DEF Typed, SaveType
<1>4. \A j \in Saves : j # c.save => save'[j] = save[j]
  BY <1>1, <1>2, <1>3
<1>5. \A j \in Saves : /\ save'[j].stage = save[j].stage
                       /\ save[j].failed => save'[j].failed
  BY <1>0, <1>3, <1>4
<1>6. \A j \in Saves : /\ Running(j)' => Running(j)
                       /\ Current(j)' => Current(j)
  BY <1>1, <1>5 DEF Running, Current
<1>7. Visible' = Visible /\ Marked' = Marked /\ Unlinks' = Unlinks /\ Links' = Links /\ DrawnRows' = DrawnRows
  BY <1>1, SameDrawing
<1>8. Turns'
  <2>1. ~Over /\ ~Over'
    BY <1>2, <1>5, OneAtATime DEF Over, CInv
  <2> QED BY <1>5, <1>6, <2>1 DEF CInv, Turns
<1>9. Ids' /\ Edges'
  BY <1>1, <1>7 DEF CInv, Ids, Edges
<1>16. /\ \A d : (Making(d)' <=> Making(d)) /\ (Remaking(d)' <=> Remaking(d))
       /\ \A d, n : (MakesRow(d, n)' <=> MakesRow(d, n)) /\ (UpdatesStep(d, n)' <=> UpdatesStep(d, n))
  BY <1>1, SameRows
<1>10. Births'
  BY <1>1, <1>7, <1>16 DEF CInv, Births
<1>11. Owned'
  <2>1. "half" \notin slips' => "half" \notin slips /\ (c.op = "finish" => id[c.step] = c.row)
    BY <1>1
  <2>2. c.op = "finish" /\ id[c.step] = c.row => c.step \in steps
    BY DEF CInv, Ids, Typed, CallTyped, Rows
  <2> QED BY <1>1, <2>1, <2>2 DEF CInv, Owned
<1>12. CallsOfStage'
  <2> SUFFICES ASSUME NEW d \in calls PROVE OfStage(d, save[d.save])'
    BY <1>1 DEF CallsOfStage
  <2>1. OfStage(d, v) /\ d.save = c.save
    BY SaveOf DEF CInv, CallsOfStage
  <2> HIDE DEF v
  <2>2. OfStage(d, save[d.save])'
    BY <1>0, <1>1, <1>3, <1>16, <2>1 DEF OfStage
  <2> QED BY <2>2
<1>13. ListsOf(save[c.save])'
  <2> HIDE DEF v
  <2> QED BY <1>0, <1>1, <1>2, <1>3, <1>7 DEF ListsOf
<1>14. WorkLeft(save[c.save])'
  <2> HIDE DEF v
  <2>1. CASE Settled(c)
    <3>1. save' = save /\ c.op = "update" /\ "swallowed" \in slips'
      BY <1>1, <2>1 DEF Settled
    <3>2. /\ \A n : ~MakesRow(c, n)
          /\ \A l : ~TakesLink(c, l) /\ ~AddsLink(c, l)
          /\ \A r : ~DeletesRow(c, r)
      BY <3>1 DEF MakesRow, Making, TakesLink, AddsLink, DeletesRow
    <3>3. /\ \A n : (\E d \in calls : MakesRow(d, n)) => \E d \in calls' : MakesRow(d, n)
          /\ \A l : (\E d \in calls : TakesLink(d, l)) => \E d \in calls' : TakesLink(d, l)
          /\ \A l : (\E d \in calls : AddsLink(d, l)) => \E d \in calls' : AddsLink(d, l)
          /\ \A r : (\E d \in calls : DeletesRow(d, r)) => \E d \in calls' : DeletesRow(d, r)
      BY <1>1, <3>2, StillWaits
    <3> QED BY <1>0, <1>1, <1>2, <1>3, <1>7, <1>16, <3>1, <3>3 DEF WorkLeft, Left
  <2>2. CASE ~Settled(c)
    <3>1. w.failed /\ slips \subseteq slips'
      BY <1>1, <1>3, <2>2
    <3> QED BY <1>0, <1>1, <1>2, <1>3, <1>7, <1>16, <3>1 DEF WorkLeft, Left
  <2> QED BY <2>1, <2>2
<1>15. Lists' /\ Progress'
  BY <1>2, <1>6, <1>13, <1>14 DEF Lists, Progress
<1> QED BY <1>8, <1>9, <1>10, <1>11, <1>12, <1>15 DEF CInv

LEMMA AnswerCalm ==
  ASSUME Typed, CInv, NEW c \in calls, Answer(c)
  PROVE  CInv'
<1>1. AnswerFinish(c) => Making(c) \/ Remaking(c)
  BY DEF AnswerFinish, Making, Remaking
<1> QED BY <1>1, CreateCalm, FinishCalm, RemakeCalm, UpdateCalm, RenewCalm, UnlinkCalm, LinkCalm,
           DeleteCalm DEF Answer

-----------------------------------------------------------------------------
(* The invariant holds *)

\* What was not calm stays so, and links are only made by edits.
LEMMA SlipsStay == Next => slips \subseteq slips' /\ (Edit \/ DOMAIN link' = DOMAIN link)
<1>1. Edit => slips \subseteq slips'
  BY DEF Edit, AddStep, AddPlan, RemoveStep, EditStep, Connect, RemoveLink, SetLink, Edited
<1>2. ASSUME NEW k \in Saves, SavePress(k) \/ Advance(k)
      PROVE  slips \subseteq slips' /\ link' = link
  BY <1>2 DEF SavePress, Advance, Proceed
<1>3. ASSUME NEW c \in calls, Answer(c) \/ Refuse(c) \/ Break(c)
      PROVE  slips \subseteq slips' /\ link' = link
  BY <1>3 DEF Answer, Refuse, Break, Fails, drawing
<1> QED BY <1>1, <1>2, <1>3 DEF Next, Saves

LEMMA StepIInv == IInv /\ [Next]_vars => IInv'
<1> SUFFICES ASSUME IInv, [Next]_vars PROVE IInv'
  OBVIOUS
<1>1. Typed'
  BY StepTyped DEF IInv
<1>2. ASSUME "cycle" \notin slips' PROVE Acyclic'
  <2>0. Acyclic /\ Typed
    BY <1>2, SlipsStay DEF IInv, vars
  <2>1. CASE Edit
    BY <1>2, <2>0, <2>1, EditAcyclic
  <2>2. DOMAIN link' = DOMAIN link => Acyclic'
    BY <2>0 DEF Acyclic
  <2> QED BY <2>1, <2>2, SlipsStay DEF vars, drawing
<1>3. ASSUME Calm' PROVE CInv'
  <2>1. Calm /\ Typed /\ CInv
    BY <1>3, SlipsStay DEF Calm, IInv, vars
  <2>2. CASE Edit
    BY <1>3, <2>1, <2>2, EditCalm
  <2>3. ASSUME NEW k \in Saves, SavePress(k) \/ Advance(k)
        PROVE  CInv'
    BY <1>3, <2>1, <2>3, SavingCalm
  <2>4. ASSUME NEW c \in calls, Answer(c)
        PROVE  CInv'
    BY <2>1, <2>4, AnswerCalm
  <2>5. ASSUME NEW c \in calls, Refuse(c) \/ Break(c)
        PROVE  CInv'
    <3>1. Fails(c) /\ faults' \in 0..MaxFaults
      BY <2>5, BoundsAssumption DEF Refuse, Break, IInv, Typed, TypeOK
    <3> QED BY <2>1, <3>1, FailsCalm
  <2>6. CASE UNCHANGED vars
    <3>1. /\ Visible' = Visible /\ Marked' = Marked /\ Unlinks' = Unlinks /\ Links' = Links
          /\ DrawnRows' = DrawnRows
      BY <2>6, SameDrawing DEF vars, drawing
    <3>2. \A k \in Saves : Current(k)' <=> Current(k)
      BY <2>6 DEF Current, Running, vars
    <3>7. /\ \A d : (Making(d)' <=> Making(d)) /\ (Remaking(d)' <=> Remaking(d))
          /\ \A d, n : (MakesRow(d, n)' <=> MakesRow(d, n)) /\ (UpdatesStep(d, n)' <=> UpdatesStep(d, n))
      BY <2>6, SameRows DEF vars, drawing
    <3>3. Turns' /\ Births' /\ Ids' /\ Owned' /\ Edges'
      BY <2>1, <2>6, <3>1, <3>2, <3>7 DEF CInv, Turns, Births, Ids, Owned, Edges, Over, Running, vars, drawing, server
    <3>4. Lists'
      BY <2>1, <2>6, <3>1, <3>2 DEF CInv, Lists, ListsOf, vars, drawing, server
    <3>5. CallsOfStage'
      BY <2>1, <2>6, <3>7 DEF CInv, CallsOfStage, OfStage, vars, drawing, server
    <3>6. Progress'
      BY <2>1, <2>6, <3>1, <3>2, <3>7 DEF CInv, Progress, WorkLeft, Left, vars, drawing, server
    <3> QED BY <3>3, <3>4, <3>5, <3>6 DEF CInv
  <2> QED BY <2>2, <2>3, <2>4, <2>5, <2>6 DEF Next, Saves
<1> QED BY <1>1, <1>2, <1>3 DEF IInv

LEMMA Invariant == Spec => []IInv
BY InitIInv, StepIInv, PTL DEF Spec

-----------------------------------------------------------------------------
(* One row of each step *)

\* Saving again after a failure makes no second row of a step, and no row is
\* left that no step will know, whichever requests failed and however often the
\* drawing was edited and saved, unless that was done while a save was under way.
THEOREM NoStepHasTwoRows == Spec => []NoTwins
<1>1. IInv => NoTwins
  <2> SUFFICES ASSUME Typed, CInv, "half" \notin slips, NEW r \in rows
               PROVE  Cardinality({n \in steps : id[n] = r}
                        \cup {c.step : c \in {d \in calls : d.op = "finish" /\ d.row = r}}) = 1
    BY DEF IInv, NoTwins, Calm
  <2> DEFINE S == {n \in steps : id[n] = r}
             T == {c.step : c \in {d \in calls : d.op = "finish" /\ d.row = r}}
  <2>1. r # 0 /\ steps \subseteq Keys
    BY DEF Typed, TypeOK, Rows
  <2>2. \E x : S \cup T = {x}
    <3>1. CASE \E n \in steps : id[n] = r
      <4>1. PICK n \in steps : id[n] = r
        BY <3>1
      <4>2. S = {n}
        BY <2>1, <4>1 DEF CInv, Ids
      <4>3. ASSUME NEW c \in calls, c.op = "finish", c.row = r
            PROVE  c.step = n
        <5>1. c.step \in Keys /\ n \in Keys
          BY <2>1, <4>3 DEF Typed, CallTyped
        <5>2. id[c.step] = r
          BY <4>1, <4>3, <5>1 DEF CInv, Births, Making
        <5> QED BY <2>1, <4>1, <5>1, <5>2 DEF CInv, Ids
      <4>4. T \subseteq {n}
        BY <4>3
      <4> QED BY <4>2, <4>4
    <3>2. CASE ~\E n \in steps : id[n] = r
      <4>1. PICK c \in calls : c.op = "finish" /\ c.row = r
        BY <3>2 DEF CInv, Owned
      <4>5. Making(c)
        <5>1. c.step \in Keys
          BY <4>1 DEF Typed, CallTyped
        <5>2. id[c.step] # r
          BY <2>1, <3>2, <5>1 DEF CInv, Ids
        <5> QED BY <4>1, <5>2 DEF Making
      <4>2. \A d \in calls : d.op = "finish" /\ d.row = r => c = d
        BY <4>1, <4>5 DEF CInv, Births
      <4>3. T = {c.step}
        BY <4>1, <4>2
      <4>4. S = {}
        BY <3>2
      <4> QED BY <4>3, <4>4
    <3> QED BY <3>1, <3>2
  <2> HIDE DEF S, T
  <2>3. Cardinality(S \cup T) = 1
    BY <2>2, FS_Singleton
  <2> QED BY <2>3 DEF S, T
<1> QED BY <1>1, Invariant, PTL

-----------------------------------------------------------------------------
(* What is drawn is not taken away *)

\* A link a save takes away is not drawn.
LEMMA UnlinksAreNotDrawn ==
  ASSUME Typed, Ids, Edges, NEW l \in Unlinks
  PROVE  l \notin Drawn
<1>1. PICK n \in Marked :
        \E w \in known[n] : /\ l = <<id[n], w[1], w[2]>>
                            /\ \E e \in DOMAIN link : /\ e[1] = n /\ id[e[2]] = w[1]
                                                      /\ (link[e].type # w[2] \/ ~link[e].visible)
  BY DEF Unlinks, UnlinksOf
<1>2. PICK w \in known[n], e \in DOMAIN link :
        /\ l = <<id[n], w[1], w[2]>>
        /\ e[1] = n /\ id[e[2]] = w[1] /\ (link[e].type # w[2] \/ ~link[e].visible)
  BY <1>1
<1>3. n \in Keys /\ Visible \subseteq Keys /\ DOMAIN link \subseteq Keys \X Keys
  BY DEF Marked, Visible, Typed, TypeOK
<1>4. w \in Rows \X LinkTypes
  BY <1>3 DEF Typed, TypeOK
<1>5. l[1] = id[n] /\ l[2] = w[1] /\ l[3] = w[2] /\ l[1] # 0 /\ l[2] # 0
  BY <1>2, <1>3, <1>4 DEF Edges, Rows
<1> SUFFICES ASSUME l \in Drawn PROVE FALSE
  OBVIOUS
<1>6. PICK m \in Visible : \E u \in DrawnFrom(m) : l = <<id[m], u[1], u[2]>>
  BY DEF Drawn
<1>7. PICK u \in DrawnFrom(m) : l = <<id[m], u[1], u[2]>>
  BY <1>6
<1>8. PICK f \in DOMAIN link : f[1] = m /\ link[f].visible /\ u = <<id[f[2]], link[f].type>>
  BY DEF DrawnFrom, OutOf
<1>9. id[m] = l[1] /\ id[f[2]] = l[2] /\ link[f].type = l[3]
  BY <1>7, <1>8
<1>10. m = n
  BY <1>3, <1>5, <1>9 DEF Ids
<1>11. e[2] = f[2]
  BY <1>2, <1>3, <1>5, <1>9 DEF Ids
<1>12. e = f
  BY <1>2, <1>3, <1>8, <1>10, <1>11
<1> QED BY <1>2, <1>5, <1>8, <1>9, <1>12

\* What the server still has after a step, and what it only has since.
LEMMA RelChanges ==
  ASSUME Typed, CInv, NEW c \in calls, Answer(c)
  PROVE  /\ \A l \in rel \ rel' : l \notin Drawn \/ l[2] \notin DrawnRows
         /\ rel' # rel => UNCHANGED <<id, known>>
         /\ \A l \in rel' \ rel : l \in Drawn
<1> DEFINE v == save[c.save]
<1>1. WorkLeft(v) /\ ListsOf(v) /\ OfStage(c, v) /\ v.stage \in 1..11
  BY SaveOf
<1> HIDE DEF v
<1>2. CASE AnswerCreate(c) \/ AnswerFinish(c) \/ AnswerUpdate(c)
  BY <1>2 DEF AnswerCreate, AnswerFinish, AnswerUpdate, AddRow
<1>3. CASE AnswerUnlink(c)
  <2>1. rel' = rel \ {Triple(c)} /\ c.op = "unlink" /\ UNCHANGED <<id, known>>
    BY <1>3 DEF AnswerUnlink, Triple
  <2>2. Triple(c) \in v.unlink /\ v.stage >= FirstOfLinks
    BY <1>1, <2>1, StageRanges, NumberOfStages DEF OfStage
  <2>3. Triple(c) \notin Drawn
    BY <1>1, <2>2, UnlinksAreNotDrawn DEF ListsOf, CInv
  <2> QED BY <2>1, <2>3
<1>4. CASE AnswerLink(c)
  <2>1. c.op = "link" /\ UNCHANGED <<id, known>>
    BY <1>4 DEF AnswerLink
  <2>2. Triple(c) \in v.link /\ v.stage \in 8..10
    BY <1>1, <2>1, StageRanges DEF OfStage
  <2>3. Triple(c) \in Links
    BY <1>1, <2>2, NumberOfStages DEF ListsOf
  <2>4. c.to # 0
    BY <1>1, <2>2, <2>3, ListsOfLinks DEF Triple, CInv
  <2>5. rel' = rel \cup {Triple(c)}
    BY <1>4, <2>4 DEF AnswerLink, Triple
  <2>6. Links \subseteq Drawn
    BY DEF Links, Drawn, Marked
  <2> QED BY <2>1, <2>3, <2>5, <2>6
<1>5. CASE AnswerDelete(c)
  <2>1. c.op = "delete" /\ rel' = {l \in rel : c.row \notin {l[1], l[2]}} /\ UNCHANGED <<id, known>>
    BY <1>5 DEF AnswerDelete
  <2>2. PICK m \in hidden : c.row = id[m] /\ id[m] # 0
    BY <1>1, <2>1 DEF OfStage, ListsOf
  <2>3. hidden \subseteq Keys /\ Visible \subseteq Keys /\ Visible \cap hidden = {}
    BY DEF Typed, TypeOK, Visible
  <2>4. c.row \notin DrawnRows
    BY <2>2, <2>3 DEF DrawnRows, CInv, Ids
  <2>5. \A l \in Drawn : l[1] \in DrawnRows
    BY DEF Drawn, DrawnRows
  <2> QED BY <2>1, <2>4, <2>5
<1> QED BY <1>2, <1>3, <1>4, <1>5 DEF Answer

\* Only answers change what the server has.
LEMMA OnlyAnswers ==
  ASSUME Typed, [Next]_vars
  PROVE  \/ \E c \in calls : Answer(c)
         \/ UNCHANGED <<id, known, rel, rows, stored>>
<1>1. Edit => UNCHANGED <<id, known, rel, rows, stored>>
  BY EditDoes DEF server
<1>2. ASSUME NEW k \in Saves, SavePress(k) \/ Advance(k)
      PROVE  UNCHANGED <<id, known, rel, rows, stored>>
  BY <1>2 DEF SavePress, Advance, Proceed, server
<1>3. ASSUME NEW c \in calls, Refuse(c) \/ Break(c)
      PROVE  UNCHANGED <<id, known, rel, rows, stored>>
  BY <1>3 DEF Refuse, Break, Fails, drawing, server
<1> QED BY <1>1, <1>2, <1>3 DEF Next, Saves, vars, drawing, server

\* No answer of the server, in whichever order the requests of a stage are
\* answered, takes a link away that the drawing has between steps it has.
THEOREM DrawnLinksAreKept == Spec => KeepsDrawnLinks
<1>1. IInv /\ [Next]_vars => [slips' \cap {"phantom", "meanwhile", "again"} = {} =>
                                 \A l \in rel \ rel' : l \notin Drawn \/ l[2] \notin DrawnRows]_vars
  <2> SUFFICES ASSUME IInv, [Next]_vars, slips' \cap {"phantom", "meanwhile", "again"} = {}, rel' # rel
               PROVE  \A l \in rel \ rel' : l \notin Drawn \/ l[2] \notin DrawnRows
    OBVIOUS
  <2>1. Calm
    BY SlipsStay DEF vars, Calm
  <2>2. Typed /\ CInv
    BY <2>1 DEF IInv
  <2>3. PICK c \in calls : Answer(c)
    BY <2>2, OnlyAnswers
  <2> QED BY <2>2, <2>3, RelChanges
<1> QED BY <1>1, Invariant, PTL DEF Spec, KeepsDrawnLinks

-----------------------------------------------------------------------------
(* What is known of the server *)

\* What the drawing takes the server's links for.
KnownLinks == UNION {{<<id[a], w[1], w[2]>> : w \in known[a]} : a \in Keys}

\* A step that is not marked has its row and its data.
Unchanged == \A a \in Visible \ modified : id[a] # 0 /\ ~content[a]

\* The links of step a are those the server was known to have.
Same(a) ==
  /\ \A e \in DOMAIN link : e[1] = a /\ link[e].visible => <<id[e[2]], link[e].type>> \in known[a]
  /\ \A w \in known[a] : \E e \in DOMAIN link :
       /\ e[1] = a /\ id[e[2]] = w[1]
       /\ e[2] \in hidden \/ (link[e].visible /\ link[e].type = w[2])

\* No edit after Save was pressed, no request that failed but one that leaves a
\* row half made, and no links that were forgotten.
Steady == slips \subseteq {"half", "cycle"}
Unsaved == \A k \in Saves : save[k].stage = 0

Marking == "reverted" \notin slips /\ Calm /\ ~Over => Unchanged
Knowing ==
  Steady => /\ Unsaved => rel = KnownLinks
            /\ rel \subseteq Drawn \cup KnownLinks
            /\ \A l \in KnownLinks \cap Drawn : l[2] \in DrawnRows => l \in rel
            /\ ~Over => \A a \in Visible \ modified : Same(a)

LEMMA InitKnowing == Init => Marking /\ Knowing
<1> SUFFICES ASSUME Init PROVE Marking /\ Knowing
  OBVIOUS
<1>1. PICK g \in SavedGraphs :
        /\ steps = g.rows /\ hidden = {}
        /\ id = [n \in Keys |-> IF n \in g.rows THEN n ELSE 0]
        /\ content = [n \in Keys |-> FALSE]
        /\ known = [n \in Keys |-> {<<l[2], l[3]>> : l \in {m \in g.links : m[1] = n}}]
        /\ link = [e \in {<<l[1], l[2]>> : l \in g.links} |->
                 LET t == (CHOOSE l \in g.links : <<l[1], l[2]>> = e)[3]
                 IN [type |-> t, orig |-> t, visible |-> TRUE]]
        /\ rel = g.links
  BY DEF Init
<1>2. /\ g.rows \subseteq Keys /\ 0 \notin g.rows
      /\ g.links \subseteq g.rows \X g.rows \X LinkTypes
      /\ \A l, m \in g.links : <<l[1], l[2]>> = <<m[1], m[2]>> => l = m
  BY GraphsAssumption, KeysAssumption DEF Rows
<1>3. \A l \in g.links : /\ l[1] \in g.rows /\ l[2] \in g.rows /\ l = <<l[1], l[2], l[3]>>
                         /\ id[l[1]] = l[1] /\ id[l[2]] = l[2] /\ l[1] \in Keys
  BY <1>1, <1>2
<1>4. \A l \in g.links : <<l[1], l[2]>> \in DOMAIN link /\ link[<<l[1], l[2]>>].type = l[3]
                         /\ link[<<l[1], l[2]>>].visible
  <2> TAKE l \in g.links
  <2>1. (CHOOSE m \in g.links : <<m[1], m[2]>> = <<l[1], l[2]>>) = l
    BY <1>2
  <2> QED BY <1>1, <2>1
<1>5. \A e \in DOMAIN link : \E l \in g.links : e = <<l[1], l[2]>>
  BY <1>1
<1>6. \A l \in g.links : <<l[2], l[3]>> \in known[l[1]]
  BY <1>1, <1>3
<1>7. \A a \in Keys : \A w \in known[a] : \E l \in g.links : l[1] = a /\ w = <<l[2], l[3]>>
  BY <1>1
<1>8. rel = KnownLinks
  <2>1. ASSUME NEW l \in rel PROVE l \in KnownLinks
    <3>1. l = <<id[l[1]], <<l[2], l[3]>>[1], <<l[2], l[3]>>[2]>>
      BY <1>1, <1>3
    <3>2. l[1] \in Keys /\ <<l[2], l[3]>> \in known[l[1]]
      BY <1>1, <1>3, <1>6
    <3>3. l \in {<<id[l[1]], w[1], w[2]>> : w \in known[l[1]]}
      BY <3>1, <3>2
    <3> QED BY <3>2, <3>3 DEF KnownLinks
  <2>2. ASSUME NEW l \in KnownLinks PROVE l \in rel
    <3>1. PICK a \in Keys : \E w \in known[a] : l = <<id[a], w[1], w[2]>>
      BY DEF KnownLinks
    <3>2. PICK w \in known[a] : l = <<id[a], w[1], w[2]>>
      BY <3>1
    <3>3. PICK m \in g.links : m[1] = a /\ w = <<m[2], m[3]>>
      BY <1>7
    <3>4. l = m
      BY <1>3, <3>2, <3>3
    <3> QED BY <1>1, <3>4
  <2> QED BY <2>1, <2>2
<1>9. \A a \in Visible : Same(a)
  <2> TAKE a \in Visible
  <2>1. a \in Keys
    BY <1>1, <1>2 DEF Visible
  <2>2. \A e \in DOMAIN link : e[1] = a => <<id[e[2]], link[e].type>> \in known[a]
    <3> SUFFICES ASSUME NEW e \in DOMAIN link, e[1] = a
                 PROVE  <<id[e[2]], link[e].type>> \in known[a]
      OBVIOUS
    <3>1. PICK l \in g.links : e = <<l[1], l[2]>>
      BY <1>5
    <3>2. l[1] = a /\ id[e[2]] = l[2] /\ link[e].type = l[3]
      BY <1>3, <1>4, <3>1
    <3> QED BY <1>6, <3>2
  <2>3. \A w \in known[a] : \E e \in DOMAIN link :
          e[1] = a /\ id[e[2]] = w[1] /\ link[e].visible /\ link[e].type = w[2]
    <3> TAKE w \in known[a]
    <3>1. PICK l \in g.links : l[1] = a /\ w = <<l[2], l[3]>>
      BY <1>7, <2>1
    <3>2. PICK e \in DOMAIN link : e = <<l[1], l[2]>>
      BY <1>4
    <3>3. e[1] = a /\ id[e[2]] = w[1] /\ link[e].visible /\ link[e].type = w[2]
      BY <1>3, <1>4, <3>1, <3>2
    <3> QED BY <3>3
  <2> QED BY <2>2, <2>3 DEF Same
<1>10. Unchanged
  BY <1>1, <1>2 DEF Unchanged, Visible
<1> QED BY <1>8, <1>9, <1>10 DEF Marking, Knowing

\* An edit that takes no mark away wrongly leaves every step marked that is not
\* as the server has it.
LEMMA EditMarking ==
  ASSUME Typed, Edit, "reverted" \notin slips', Unchanged
  PROVE  Unchanged'
<1>0. /\ id' = id /\ Visible \subseteq Keys /\ content \in [Keys -> BOOLEAN]
      /\ Visible = steps \ hidden /\ Visible' = steps' \ hidden'
  BY EditDoes DEF Visible, Typed, TypeOK
<1>1. ASSUME NEW n \in Keys, AddStep(n) PROVE Unchanged'
  <2>1. /\ steps' = steps \cup {n} /\ hidden' = hidden
        /\ content' = [content EXCEPT ![n] = TRUE] /\ modified \cup {n} \subseteq modified'
    BY <1>1 DEF AddStep, Edited
  <2> QED BY <1>0, <2>1 DEF Unchanged
<1>2. ASSUME NEW a \in Keys, NEW b \in Keys, Connect(a, b) PROVE Unchanged'
  BY <1>0, <1>2 DEF Connect, Unchanged
<1>3. ASSUME NEW e \in DOMAIN link, NEW t \in LinkTypes, SetLink(e, t) PROVE Unchanged'
  <2>1. UNCHANGED <<steps, hidden, content, approval>>
    BY <1>3 DEF SetLink
  <2>2. \/ modified' = modified \cup {e[1]}
        \/ modified' = modified \ {e[1]} /\ ~content[e[1]] /\ id[e[1]] # 0
    BY <1>3 DEF SetLink
  <2> QED BY <1>0, <2>1, <2>2 DEF Unchanged
<1>4. ASSUME NEW e \in DOMAIN link, RemoveLink(e) PROVE Unchanged'
  BY <1>0, <1>4 DEF RemoveLink, Unchanged
<1>5. ASSUME NEW n \in Keys, EditStep(n) PROVE Unchanged'
  BY <1>0, <1>5 DEF EditStep, Unchanged
<1>6. ASSUME NEW n \in Keys, RemoveStep(n) PROVE Unchanged'
  <2>1. /\ steps' = steps /\ hidden' = hidden \cup {n} /\ content' = content /\ modified \subseteq modified'
    BY <1>6 DEF RemoveStep, Edited
  <2> QED BY <1>0, <2>1 DEF Unchanged
<1>7. ASSUME NEW ns \in SUBSET Keys, AddPlan(ns) PROVE Unchanged'
  <2>1. /\ steps' = steps \cup ns /\ hidden' = hidden /\ modified' = modified \cup ns
        /\ content' = [n \in Keys |-> content[n] \/ n \in ns]
    BY <1>7 DEF AddPlan
  <2> QED BY <1>0, <2>1 DEF Unchanged
<1> QED BY <1>1, <1>2, <1>3, <1>4, <1>5, <1>6, <1>7 DEF Edit

LEMMA SameKept ==
  ASSUME NEW a, Same(a), id' = id, known' = known, hidden \subseteq hidden',
         \A e : e[1] = a => (e \in DOMAIN link <=> e \in DOMAIN link'),
         \A e \in DOMAIN link : e[1] = a => \/ link'[e] = link[e]
                                            \/ ~link'[e].visible /\ e[2] \in hidden'
  PROVE  Same(a)'
BY DEF Same

LEMMA EditSame ==
  ASSUME Typed, Edit, "reverted" \notin slips', \A a \in Visible \ modified : Same(a)
  PROVE  \A a \in Visible' \ modified' : Same(a)'
<1>0. /\ id' = id /\ known' = known /\ Visible \subseteq Keys
      /\ Visible = steps \ hidden /\ Visible' = steps' \ hidden'
  BY EditDoes DEF Visible, Typed, TypeOK
<1>1. ASSUME NEW n \in Keys, AddStep(n), NEW a \in Visible' \ modified' PROVE Same(a)'
  <2>1. /\ steps' = steps \cup {n} /\ hidden' = hidden /\ modified \cup {n} \subseteq modified'
        /\ \/ link' = link
           \/ \E r \in Visible, t \in LinkTypes :
                link' = With(<<r, n>>, NewLink(t)) /\ r \in modified'
    BY <1>1 DEF AddStep, Edited
  <2>2. a \in Visible \ modified
    BY <1>0, <2>1
  <2>3. ASSUME NEW r \in Visible, NEW t \in LinkTypes,
               link' = With(<<r, n>>, NewLink(t)), r \in modified'
        PROVE  Same(a)'
    <3>1. \A e : e[1] = a => e # <<r, n>>
      BY <2>3
    <3> QED BY <1>0, <2>1, <2>2, <2>3, <3>1, SameKept DEF With
  <2> QED BY <1>0, <2>1, <2>2, <2>3, SameKept
<1>2. ASSUME NEW b \in Keys, NEW d \in Keys, Connect(b, d), NEW a \in Visible' \ modified' PROVE Same(a)'
  <2>1. /\ steps' = steps /\ hidden' = hidden /\ modified' = modified \cup {b}
        /\ link' = With(<<b, d>>, NewLink("always"))
    BY <1>2 DEF Connect
  <2>2. a \in Visible \ modified /\ \A e : e[1] = a => e # <<b, d>>
    BY <1>0, <2>1
  <2> QED BY <1>0, <2>1, <2>2, SameKept DEF With
<1>3. ASSUME NEW e \in DOMAIN link, NEW t \in LinkTypes, SetLink(e, t), NEW a \in Visible' \ modified'
      PROVE  Same(a)'
  <2> DEFINE set == [link EXCEPT ![e].type = t]
  <2>1. /\ UNCHANGED <<steps, hidden>> /\ link' = set
        /\ \/ modified' = modified \cup {e[1]}
           \/ modified' = modified \ {e[1]} /\ OutOf(e[1], set) = known[e[1]]
    BY <1>3 DEF SetLink
  <2>2. CASE a # e[1]
    <3>1. a \in Visible \ modified
      BY <1>0, <2>1, <2>2
    <3>2. DOMAIN link' = DOMAIN link /\ \A p \in DOMAIN link : p # e => link'[p] = link[p]
      BY <2>1
    <3> HIDE DEF set
    <3> QED BY <1>0, <2>1, <2>2, <3>1, <3>2, SameKept
  <2>3. CASE a = e[1]
    <3>1. OutOf(a, link') = known[a]
      BY <2>1, <2>3
    <3>2. OutOf(a, link') = {<<id[p[2]], link'[p].type>> : p \in {q \in DOMAIN link' : q[1] = a /\ link'[q].visible}}
      BY DEF OutOf
    <3> HIDE DEF set
    <3>3. \A p \in DOMAIN link' : p[1] = a /\ link'[p].visible => <<id[p[2]], link'[p].type>> \in known[a]
      BY <3>1, <3>2
    <3>4. \A w \in known[a] : \E p \in DOMAIN link' :
            p[1] = a /\ link'[p].visible /\ w = <<id[p[2]], link'[p].type>>
      BY <3>1, <3>2
    <3>5. \A w \in known[a] : \E p \in DOMAIN link' :
            p[1] = a /\ id[p[2]] = w[1] /\ link'[p].visible /\ link'[p].type = w[2]
      BY <3>4
    <3> QED BY <1>0, <3>3, <3>5 DEF Same
  <2> QED BY <2>2, <2>3
<1>4. ASSUME NEW e \in DOMAIN link, RemoveLink(e), NEW a \in Visible' \ modified' PROVE Same(a)'
  <2>1. /\ UNCHANGED <<steps, hidden>> /\ link' = [link EXCEPT ![e].visible = FALSE]
        /\ modified' = modified \cup {e[1], e[2]}
    BY <1>4 DEF RemoveLink
  <2>2. a \in Visible \ modified /\ a # e[1]
    BY <1>0, <2>1
  <2>3. DOMAIN link' = DOMAIN link /\ \A p \in DOMAIN link : p # e => link'[p] = link[p]
    BY <2>1
  <2> QED BY <1>0, <2>1, <2>2, <2>3, SameKept
<1>5. ASSUME NEW n \in Keys, EditStep(n), NEW a \in Visible' \ modified' PROVE Same(a)'
  <2>1. UNCHANGED <<steps, hidden, link>> /\ modified \subseteq modified'
    BY <1>5 DEF EditStep
  <2>2. a \in Visible \ modified
    BY <1>0, <2>1
  <2> QED BY <1>0, <2>1, <2>2, SameKept
<1>6. ASSUME NEW n \in Keys, RemoveStep(n), NEW a \in Visible' \ modified' PROVE Same(a)'
  <2>1. /\ steps' = steps /\ hidden' = hidden \cup {n}
        /\ modified' = modified \cup IF ChildrenOf(n) = {} THEN {} ELSE ParentsOf(n)
    BY <1>6 DEF RemoveStep, Edited, ChildrenOf, ParentsOf
  <2>2. a \in Visible \ modified /\ a # n
    BY <1>0, <2>1
  <2>3. \A e : e[1] = a => e \notin ParentsOf(n) \X ChildrenOf(n)
    BY <2>1
  <2>4. \A e : e[1] = a => (e \in DOMAIN link <=> e \in DOMAIN link')
    BY <1>6, <2>3, Removal
  <2>5. \A e \in DOMAIN link : e[1] = a => \/ link'[e] = link[e]
                                           \/ ~link'[e].visible /\ e[2] \in hidden'
    <3> SUFFICES ASSUME NEW e \in DOMAIN link, e[1] = a
                 PROVE  link'[e] = link[e] \/ (~link'[e].visible /\ e[2] \in hidden')
      OBVIOUS
    <3>1. CASE e[2] = n
      <4>1. link'[e] = [link[e] EXCEPT !.visible = FALSE]
        BY <1>6, <2>4, <3>1, Removal
      <4>2. link[e] \in [type : LinkTypes, orig : LinkTypes, visible : BOOLEAN]
        BY DEF Typed, TypeOK
      <4> QED BY <2>1, <3>1, <4>1, <4>2
    <3>2. CASE e[2] # n
      BY <1>6, <2>2, <2>3, <2>4, <3>2, Removal
    <3> QED BY <3>1, <3>2
  <2> QED BY <1>0, <2>1, <2>2, <2>4, <2>5, SameKept
<1>7. ASSUME NEW ns \in SUBSET Keys, AddPlan(ns), NEW a \in Visible' \ modified' PROVE Same(a)'
  <2>1. steps' = steps \cup ns /\ hidden' = hidden /\ modified' = modified \cup ns
    BY <1>7 DEF AddPlan
  <2>2. PICK es \in SUBSET (ns \X ns) : \E type \in [es -> LinkTypes] \cap Suggestions :
          link' = [e \in DOMAIN link \cup es |-> IF e \in es THEN NewLink(type[e]) ELSE link[e]]
    BY <1>7 DEF AddPlan
  <2>3. a \in Visible \ modified /\ a \notin ns
    BY <1>0, <2>1
  <2>4. \A e : e[1] = a => e \notin es
    BY <2>3
  <2>5. /\ DOMAIN link' = DOMAIN link \cup es
        /\ \A e \in DOMAIN link : e[1] = a => link'[e] = link[e]
    BY <2>2, <2>4
  <2> QED BY <1>0, <2>1, <2>3, <2>4, <2>5, SameKept
<1> QED BY <1>1, <1>2, <1>3, <1>4, <1>5, <1>6, <1>7 DEF Edit

\* While Save was not pressed there is nothing an answer could change.
LEMMA SteadyEdits ==
  ASSUME Typed, CInv
  PROVE  /\ Edit /\ Steady' => Unsaved
         /\ Unsaved => calls = {}
<1>1. \A k \in Saves : save[k].stage \in 0..Finished
  BY DEF Typed, SaveType
<1>2. ASSUME Edit, Steady' PROVE Unsaved
  <2>1. EditSlips \subseteq {"half", "cycle"} /\ Editable
    BY <1>2, EditDoes DEF Steady
  <2>2. \A k \in Saves : ~Running(k) /\ ~save[k].failed
    BY <2>1 DEF EditSlips, Quiet, Saves
  <2>3. \A k \in Saves : save[k].stage # Finished
    BY <2>1 DEF Editable, Saves
  <2>4. \A k \in Saves : save[k].stage \notin 1..Len(Stages)
    BY <2>2 DEF Running
  <2>5. \A i \in 0..Finished : i = 0 \/ i = Finished \/ i \in 1..Len(Stages)
    BY NumberOfStages
  <2> QED BY <1>1, <2>3, <2>4, <2>5 DEF Unsaved
<1>3. ASSUME Unsaved, NEW c \in calls PROVE FALSE
  BY <1>3, SaveOf DEF Unsaved
<1> QED BY <1>2, <1>3

LEMMA EditKnowing ==
  ASSUME Typed, CInv, Edit, Calm', Marking, Knowing
  PROVE  Marking' /\ Knowing'
<1>1. /\ UNCHANGED <<id, known, save, rel>> /\ slips \subseteq slips' /\ Editable
  BY EditDoes DEF server
<1>2. ~Over /\ ~Over'
  BY <1>1 DEF Over, Editable, Saves
<1>3. Calm
  BY <1>1 DEF Calm
<1>4. Marking'
  <2> SUFFICES ASSUME "reverted" \notin slips' PROVE Unchanged'
    BY DEF Marking
  <2>1. Unchanged
    BY <1>1, <1>2, <1>3 DEF Marking
  <2> QED BY <2>1, EditMarking
<1>5. Knowing'
  <2> SUFFICES ASSUME Steady'
               PROVE  /\ rel' = KnownLinks'
                      /\ \A a \in Visible' \ modified' : Same(a)'
    BY DEF Knowing
  <2>1. Steady /\ "reverted" \notin slips'
    BY <1>1 DEF Steady
  <2>2. Unsaved
    BY SteadyEdits
  <2>3. rel' = KnownLinks'
    BY <1>1, <2>1, <2>2 DEF Knowing, KnownLinks
  <2>4. \A a \in Visible \ modified : Same(a)
    BY <1>2, <2>1 DEF Knowing
  <2> QED BY <2>1, <2>3, <2>4, EditSame
<1> QED BY <1>4, <1>5

\* What a step that sends the requests of a stage, or finishes, leaves.
LEMMA SavingKeeps ==
  ASSUME Typed, NEW k \in Saves, SavePress(k) \/ Advance(k)
  PROVE  /\ UNCHANGED <<steps, hidden, id, content, approval, known, link, rows, stored, rel>>
         /\ modified' = modified \/ Over'
         /\ ~Unsaved'
<1>1. PICK v \in SaveType : v.stage \in 0..LastStage /\ Proceed(k, v)
  <2>1. CASE SavePress(k)
    <3>1. Sorted \in SaveType /\ Sorted.stage = 0
      BY ListsTyped DEF Sorted, Idle
    <3> QED BY <2>1, <3>1, NumberOfStages DEF SavePress, LastStage
  <2>2. CASE Advance(k)
    BY <2>2, NumberOfStages DEF Advance, Running, LastStage, Typed
  <2> QED BY <2>1, <2>2
<1>2. PICK s \in (v.stage + 1)..Finished : GoesTo(k, v, s)
  BY <1>1, Proceeds DEF Typed, TypeOK
<1>3. PICK w \in SaveType : save' = [save EXCEPT ![k] = [w EXCEPT !.stage = s]]
  BY <1>2, ReadyTyped DEF GoesTo
<1>4. save'[k].stage = s
  BY <1>3 DEF Typed, SaveType
<1>5. s # 0
  BY <1>1, NumberOfStages DEF LastStage
<1>6. ~Unsaved' /\ (s = Finished => Over')
  BY <1>4, <1>5 DEF Unsaved, Over
<1> QED BY <1>2, <1>6 DEF GoesTo, server

LEMMA AnswerKnowing ==
  ASSUME Typed, CInv, Calm, NEW c \in calls, Answer(c), Marking, Knowing
  PROVE  Marking' /\ Knowing'
<1>1. /\ UNCHANGED <<steps, hidden, content, approval, link, modified, save>> /\ slips \subseteq slips'
      /\ "reverted" \in slips' <=> "reverted" \in slips
  BY DEF Answer
<1>2. /\ ~Over /\ ~Over' /\ ~Unsaved /\ ~Unsaved' /\ Visible' = Visible
      /\ (Steady' => Steady) /\ (Calm' => Calm)
  BY <1>1, OneAtATime, SteadyEdits DEF CInv, Over, Unsaved, Visible, Steady, Calm
<1>3. CASE ~AnswerFinish(c)
  <2>1. UNCHANGED <<id, known>>
    BY <1>3 DEF Answer, AnswerCreate, AnswerUpdate, AnswerUnlink, AnswerLink, AnswerDelete
  <2>2. Drawn' = Drawn /\ DrawnRows' = DrawnRows /\ KnownLinks' = KnownLinks
    BY <1>1, <1>2, <2>1, SameDrawing DEF KnownLinks
  <2>3. Marking'
    BY <1>1, <1>2, <2>1 DEF Marking, Unchanged
  <2>4. Steady => rel' \subseteq Drawn \cup KnownLinks
    BY RelChanges DEF Knowing
  <2>5. Steady => \A l \in KnownLinks \cap Drawn : l[2] \in DrawnRows => l \in rel'
    BY RelChanges DEF Knowing
  <2>6. Steady => \A a \in Visible \ modified : Same(a)'
    BY <1>1, <1>2, <2>1 DEF Knowing, Same
  <2> QED BY <1>1, <1>2, <2>2, <2>3, <2>4, <2>5, <2>6 DEF Knowing
<1>5. CASE AnswerFinish(c) /\ Remaking(c)
  <2> DEFINE n == c.step
             v == save[c.save]
  <2>1. /\ c.op = "finish" /\ rel' = rel /\ id[n] = c.row
        /\ id' = [id EXCEPT ![n] = c.row] /\ known' = [known EXCEPT ![n] = {}]
    BY <1>5 DEF AnswerFinish, Remaking
  <2>2. n \in Marked
    <3>1. ListsOf(v) /\ OfStage(c, v)
      BY SaveOf
    <3> QED BY <1>5, <3>1 DEF OfStage, ListsOf
  <2>3. /\ Visible \subseteq Keys /\ id \in [Keys -> 0..MaxRows]
        /\ known \in [Keys -> SUBSET (Rows \X LinkTypes)]
    BY DEF Visible, Typed, TypeOK
  <2>4. Steady' => UnlinksOf(n) = {}
    BY <2>1 DEF Answer, Steady
  <2> HIDE DEF n, v
  <2>5. n \in Keys /\ n \in Visible /\ n \in modified
    BY <2>2, <2>3 DEF Marked
  <2>6. id' = id /\ known'[n] = {} /\ \A m \in Keys : m # n => known'[m] = known[m]
    BY <2>1, <2>3, <2>5
  <2>7. Drawn' = Drawn /\ DrawnRows' = DrawnRows
    BY <1>1, <1>2, <2>6 DEF Drawn, DrawnRows, DrawnFrom, OutOf
  <2>8. Marking'
    BY <1>1, <1>2, <2>6 DEF Marking, Unchanged
  <2>9. KnownLinks' \subseteq KnownLinks
    <3> SUFFICES ASSUME NEW l \in KnownLinks' PROVE l \in KnownLinks
      OBVIOUS
    <3>1. PICK a \in Keys : \E w \in known'[a] : l = <<id[a], w[1], w[2]>>
      BY <2>6 DEF KnownLinks
    <3>2. known'[a] \subseteq known[a]
      BY <2>6
    <3> QED BY <3>1, <3>2 DEF KnownLinks
  <2>10. ASSUME Steady', NEW l \in KnownLinks PROVE l \in Drawn \cup KnownLinks'
    <3>1. PICK a \in Keys : \E w \in known[a] : l = <<id[a], w[1], w[2]>>
      BY DEF KnownLinks
    <3>2. PICK w \in known[a] : l = <<id[a], w[1], w[2]>>
      BY <3>1
    <3>3. CASE a # n
      <4>1. w \in known'[a]
        BY <2>6, <3>3
      <4> QED BY <2>6, <3>2, <4>1 DEF KnownLinks
    <3>4. CASE a = n
      <4>1. PICK e \in DOMAIN link : e[1] = n /\ id[e[2]] = w[1]
        BY <2>5, <3>4 DEF CInv, Edges
      <4>2. link[e].type = w[2] /\ link[e].visible
        BY <2>4, <2>10, <3>4, <4>1 DEF UnlinksOf
      <4>3. w = <<w[1], w[2]>>
        BY <2>3
      <4>4. w \in DrawnFrom(n)
        BY <4>1, <4>2, <4>3 DEF DrawnFrom, OutOf
      <4> QED BY <2>5, <3>2, <3>4, <4>4 DEF Drawn
    <3> QED BY <3>3, <3>4
  <2>11. Steady' => rel \subseteq Drawn \cup KnownLinks'
    BY <1>2, <2>10 DEF Knowing
  <2>12. Steady' => \A l \in KnownLinks' \cap Drawn : l[2] \in DrawnRows => l \in rel
    BY <1>2, <2>9 DEF Knowing
  <2>13. Steady' => \A a \in Visible \ modified : Same(a)'
    <3> SUFFICES ASSUME Steady', NEW a \in Visible \ modified PROVE Same(a)'
      OBVIOUS
    <3>1. Same(a) /\ a \in Keys /\ a # n
      BY <1>2, <2>3, <2>5 DEF Knowing
    <3>2. known'[a] = known[a]
      BY <2>6, <3>1
    <3> QED BY <1>1, <2>6, <3>1, <3>2 DEF Same
  <2> QED BY <1>1, <1>2, <2>1, <2>7, <2>8, <2>11, <2>12, <2>13 DEF Knowing
<1>4. CASE AnswerFinish(c) /\ Making(c)
  <2> DEFINE n == c.step
  <2>0. slips' = slips
    BY <1>4, NewRowsForgetNothing DEF AnswerFinish
  <2>1. /\ c.op = "finish" /\ rel' = rel
        /\ id' = [id EXCEPT ![n] = c.row] /\ known' = [known EXCEPT ![n] = {}]
    BY <1>4 DEF AnswerFinish
  <2>2. /\ n \in Visible /\ id[n] = 0 /\ c.row \in rows /\ \A m \in Keys : id[m] # c.row
    BY <1>4, <2>1 DEF CInv, Births
  <2>3. /\ Visible \subseteq Keys /\ id \in [Keys -> 0..MaxRows]
        /\ known \in [Keys -> SUBSET (Rows \X LinkTypes)] /\ rows \subseteq Rows /\ 0 \notin Rows
        /\ DOMAIN link \subseteq Keys \X Keys
    BY DEF Visible, Typed, TypeOK, Rows
  <2> HIDE DEF n
  <2>4. /\ id'[n] = c.row /\ c.row # 0 /\ \A m \in Keys : m # n => id'[m] = id[m]
        /\ \A m \in Keys : m # n => known'[m] = known[m]
        /\ known'[n] = {}
    BY <2>1, <2>2, <2>3
  <2>5. known[n] = {}
    BY <2>2, <2>3 DEF CInv, Edges
  <2>6. known' = known
    BY <2>1, <2>3, <2>4, <2>5
  <2>7. \A a \in Keys : known[a] # {} => id'[a] = id[a]
    BY <2>3, <2>4, <2>5
  <2>8. KnownLinks' = KnownLinks
    BY <2>6, <2>7 DEF KnownLinks
  <2>9. Marking'
    BY <1>1, <1>2, <2>3, <2>4 DEF Marking, Unchanged
  <2>10. \A m \in Keys : id[m] # 0 => id'[m] = id[m]
    BY <2>2, <2>4
  <2>11. \A m \in Keys : id'[m] # c.row => id'[m] = id[m]
    BY <2>4
  <2>12. ASSUME NEW l \in Drawn, l[1] # 0, l[2] # 0
         PROVE  l \in Drawn'
    <3>1. PICK m \in Visible : \E u \in DrawnFrom(m) : l = <<id[m], u[1], u[2]>>
      BY DEF Drawn
    <3>2. PICK u \in DrawnFrom(m) : l = <<id[m], u[1], u[2]>>
      BY <3>1
    <3>3. PICK f \in DOMAIN link : f[1] = m /\ link[f].visible /\ u = <<id[f[2]], link[f].type>>
      BY DEF DrawnFrom, OutOf
    <3>4. id'[m] = id[m] /\ id'[f[2]] = id[f[2]]
      BY <2>3, <2>10, <2>12, <3>2, <3>3
    <3>5. u \in DrawnFrom(m)'
      BY <1>1, <3>3, <3>4 DEF DrawnFrom, OutOf
    <3> QED BY <1>2, <3>2, <3>4, <3>5 DEF Drawn
  <2>13. ASSUME NEW l \in Drawn', l[1] # c.row, l[2] # c.row
         PROVE  l \in Drawn
    <3>1. PICK m \in Visible : \E u \in DrawnFrom(m)' : l = <<id'[m], u[1], u[2]>>
      BY <1>2 DEF Drawn
    <3>2. PICK u \in DrawnFrom(m)' : l = <<id'[m], u[1], u[2]>>
      BY <3>1
    <3>3. PICK f \in DOMAIN link : f[1] = m /\ link[f].visible /\ u = <<id'[f[2]], link[f].type>>
      BY <1>1 DEF DrawnFrom, OutOf
    <3>4. id'[m] = id[m] /\ id'[f[2]] = id[f[2]]
      BY <2>3, <2>11, <2>13, <3>2, <3>3
    <3>5. u \in DrawnFrom(m)
      BY <3>3, <3>4 DEF DrawnFrom, OutOf
    <3> QED BY <3>2, <3>4, <3>5 DEF Drawn
  <2>14. \A l \in KnownLinks : l[1] # c.row /\ l[2] # c.row
    <3> TAKE l \in KnownLinks
    <3>1. PICK a \in Keys : \E w \in known[a] : l = <<id[a], w[1], w[2]>>
      BY DEF KnownLinks
    <3>2. PICK w \in known[a] : l = <<id[a], w[1], w[2]>>
      BY <3>1
    <3>3. PICK e \in DOMAIN link : e[1] = a /\ id[e[2]] = w[1]
      BY DEF CInv, Edges
    <3> QED BY <2>2, <2>3, <3>2, <3>3
  <2>15. \A l \in rel : l[1] # 0 /\ l[2] # 0
    BY <2>3 DEF CInv, Edges
  <2>16. \A r : r # c.row /\ r \in DrawnRows' => r \in DrawnRows
    BY <1>2, <2>3, <2>11 DEF DrawnRows
  <2>17. Steady => rel \subseteq Drawn' \cup KnownLinks
    BY <2>12, <2>15 DEF Knowing
  <2>18. Steady => \A l \in KnownLinks \cap Drawn' : l[2] \in DrawnRows' => l \in rel
    BY <2>13, <2>14, <2>16 DEF Knowing
  <2>19. ASSUME Steady, NEW a \in Visible \ modified
         PROVE  Same(a)'
    <3>1. id[a] # 0 /\ Same(a)
      BY <1>2, <2>19 DEF Marking, Knowing, Unchanged, Steady
    <3>2. ASSUME NEW e \in DOMAIN link, e[1] = a, link[e].visible
          PROVE  <<id'[e[2]], link[e].type>> \in known[a]
      <4>1. <<id[e[2]], link[e].type>> \in known[a]
        BY <3>1, <3>2 DEF Same
      <4>2. id[e[2]] # 0
        BY <2>3, <4>1
      <4> QED BY <2>3, <2>10, <4>1, <4>2
    <3>3. ASSUME NEW w \in known[a]
          PROVE  \E e \in DOMAIN link : /\ e[1] = a /\ id'[e[2]] = w[1]
                                        /\ e[2] \in hidden \/ (link[e].visible /\ link[e].type = w[2])
      <4>1. PICK e \in DOMAIN link : /\ e[1] = a /\ id[e[2]] = w[1]
                                     /\ e[2] \in hidden \/ (link[e].visible /\ link[e].type = w[2])
        BY <3>1 DEF Same
      <4>2. w[1] # 0
        BY <2>3
      <4>3. id'[e[2]] = w[1]
        BY <2>3, <2>10, <4>1, <4>2
      <4> QED BY <4>1, <4>3
    <3> QED BY <1>1, <2>6, <3>2, <3>3 DEF Same
  <2> QED BY <1>1, <1>2, <2>0, <2>1, <2>8, <2>9, <2>17, <2>18, <2>19 DEF Knowing
<1>6. AnswerFinish(c) => Making(c) \/ Remaking(c)
  BY DEF AnswerFinish, Making, Remaking
<1> QED BY <1>3, <1>4, <1>5, <1>6

\* A request that fails changes nothing of the drawing and the server.
LEMMA FailsKeeps ==
  ASSUME Typed, NEW c \in calls, Fails(c)
  PROVE  /\ UNCHANGED <<drawing, server>> /\ slips \subseteq slips'
         /\ \A j \in Saves : save'[j].stage = save[j].stage
<1>1. c.save \in Saves /\ save \in [Saves -> SaveType]
  BY DEF Typed, CallTyped
<1>2. \A j \in Saves : save'[j].stage = save[j].stage
  BY <1>1 DEF Fails, SaveType
<1> QED BY <1>2 DEF Fails

LEMMA StillKnowing ==
  ASSUME UNCHANGED <<steps, hidden, id, content, approval, known, link, rel>>, slips \subseteq slips',
         modified' = modified \/ Over', Over => Over', Unsaved' => Unsaved,
         Marking, Knowing
  PROVE  Marking' /\ Knowing'
<1>1. Visible' = Visible /\ Drawn' = Drawn /\ DrawnRows' = DrawnRows /\ KnownLinks' = KnownLinks
  BY DEF Visible, Drawn, DrawnRows, KnownLinks, DrawnFrom, OutOf
<1>2. Steady' => Steady
  BY DEF Steady
<1>3. Calm' => Calm
  BY DEF Calm
<1>4. Marking'
  BY <1>1, <1>3 DEF Marking, Unchanged
<1>5. Steady' /\ ~Over' => \A a \in Visible' \ modified' : Same(a)'
  BY <1>1, <1>2 DEF Knowing, Same
<1> QED BY <1>1, <1>2, <1>4, <1>5 DEF Knowing

-----------------------------------------------------------------------------
(* What a finished save has done *)

SavedAsDrawn ==
  slips \subseteq {"half", "later", "forgotten", "cycle"} =>
    /\ DrawnRows \subseteq rows
    /\ "half" \notin slips => rows = DrawnRows
    /\ \A n \in Visible : content[n] => stored[id[n]]
    /\ Steady => rel = {l \in Drawn : l[2] \in DrawnRows}

\* A save that has no stage left to go to has nothing left of its lists.
LEMMA NothingIsLeft ==
  ASSUME Typed, NEW k, NEW v \in SaveType, calls = {}, ~v.failed, v.stage \in 0..LastStage,
         ListsOf(v), WorkLeft(v),
         \A i \in (v.stage + 1)..LastStage : Requests(k, Ready(v), i) = {}
  PROVE  /\ \A n \in v.fresh : id[n] # 0 /\ stored[id[n]]
         /\ \A n \in v.edited : "swallowed" \notin slips /\ content[n] => stored[id[n]]
         /\ Unlinks \cap rel = {}
         /\ \A l \in Links \ rel : l[2] \notin DrawnRows
         /\ v.deleted \cap rows = {}
<1> DEFINE w == Ready(v)
<1>1. /\ w \in SaveType /\ w.fresh = v.fresh /\ w.edited = v.edited /\ w.deleted = v.deleted
      /\ w.unlink = Unlinks /\ w.link = Links
  <2>1. w \in SaveType
    BY ReadyTyped
  <2>2. v.stage \in 0..11 /\ FirstOfLinks = 5
    BY NumberOfStages DEF LastStage
  <2>3. v.stage < FirstOfLinks \/ v.stage >= FirstOfLinks
    BY <2>2
  <2> QED BY <2>1, <2>2, <2>3 DEF Ready, SaveType, ListsOf
<1> HIDE DEF w
<1>2. /\ \A n \in w.fresh : \E c \in Requests(k, w, CreateStage(approval[n])) : MakesRow(c, n)
      /\ \A n \in w.edited : \E c \in Requests(k, w, UpdateStage(approval[n])) : UpdatesStep(c, n)
      /\ \A l \in w.unlink : \E c \in Requests(k, w, UnlinkStage(l[3])) : TakesLink(c, l)
      /\ \A l \in w.link : \E c \in Requests(k, w, LinkStage(l[3])) : AddsLink(c, l)
      /\ \A r \in w.deleted : \E c \in Requests(k, w, LastStage) : DeletesRow(c, r)
  BY <1>1, EveryItemHasItsRequest
<1>3. v.stage \in Nat /\ LastStage = 11 /\ FirstOfLinks = 5 /\ v.stage <= 11
  BY NumberOfStages DEF LastStage
<1>4. \A i \in 1..11 : i > v.stage => Requests(k, w, i) = {}
  BY <1>3 DEF w
<1>5. /\ \A a : CreateStage(a) \in 1..11 /\ UpdateStage(a) \in 1..11
      /\ \A t : UnlinkStage(t) \in 5..11 /\ LinkStage(t) \in 5..11
      /\ \A t : UnlinkStage(t) \in 1..11 /\ LinkStage(t) \in 1..11
  BY StageRanges
<1>6. /\ \A n \in v.fresh : CreateStage(approval[n]) <= v.stage
      /\ \A n \in v.edited : UpdateStage(approval[n]) <= v.stage
      /\ \A l \in Unlinks : UnlinkStage(l[3]) <= v.stage
      /\ \A l \in Links : LinkStage(l[3]) <= v.stage
      /\ v.deleted # {} => LastStage <= v.stage
  <2>1. \A i \in 1..11 : Requests(k, w, i) # {} => i <= v.stage
    BY <1>3, <1>4
  <2> QED BY <1>1, <1>2, <1>3, <1>5, <2>1
<1>7. \A i, j \in Nat : i > j => ~(i <= j)
  OBVIOUS
<1>8. /\ \A n \in v.fresh : /\ id[n] = 0 => CreateStage(approval[n]) > v.stage
                            /\ id[n] # 0 => stored[id[n]] /\ CreateStage(approval[n]) <= v.stage
      /\ \A n \in v.edited : "swallowed" \notin slips /\ content[n] /\ ~stored[id[n]] =>
           UpdateStage(approval[n]) > v.stage
      /\ \A l \in v.unlink \cap rel : UnlinkStage(l[3]) > v.stage
      /\ \A l \in v.link \ rel : l[2] \in DrawnRows => LinkStage(l[3]) > v.stage
      /\ \A r \in v.deleted \cap rows : LastStage > v.stage
  BY <1>3, NothingWaits
<1>9. \A n \in v.fresh : id[n] # 0 /\ stored[id[n]]
  BY <1>3, <1>5, <1>6, <1>8
<1>10. \A n \in v.edited : "swallowed" \notin slips /\ content[n] => stored[id[n]]
  BY <1>3, <1>5, <1>6, <1>8
<1>11. v.deleted \cap rows = {}
  BY <1>3, <1>6, <1>8
<1>12. Unlinks \cap rel = {}
  <2> SUFFICES ASSUME NEW l \in Unlinks \cap rel PROVE FALSE
    OBVIOUS
  <2>1. UnlinkStage(l[3]) <= v.stage /\ UnlinkStage(l[3]) \in 5..11
    BY <1>5, <1>6
  <2>2. v.unlink = Unlinks
    BY <1>3, <2>1 DEF ListsOf
  <2> QED BY <1>3, <1>8, <2>1, <2>2
<1>13. \A l \in Links \ rel : l[2] \notin DrawnRows
  <2> SUFFICES ASSUME NEW l \in Links \ rel, l[2] \in DrawnRows PROVE FALSE
    OBVIOUS
  <2>1. LinkStage(l[3]) <= v.stage /\ LinkStage(l[3]) \in 5..11
    BY <1>5, <1>6
  <2>2. v.link = Links
    BY <1>3, <2>1 DEF ListsOf
  <2> QED BY <1>3, <1>8, <2>1, <2>2
<1> QED BY <1>9, <1>10, <1>11, <1>12, <1>13

LEMMA FinishSaves ==
  ASSUME Typed, Ids, Owned, Edges, Calm, ~Over, calls = {}, Marking, Knowing,
         NEW k, NEW v \in SaveType, v.stage \in 0..LastStage, ~v.failed, ListsOf(v), WorkLeft(v),
         \A i \in (v.stage + 1)..LastStage : Requests(k, Ready(v), i) = {}
  PROVE  SavedAsDrawn
<1> SUFFICES ASSUME slips \subseteq {"half", "later", "forgotten", "cycle"}
             PROVE  /\ DrawnRows \subseteq rows
                    /\ "half" \notin slips => rows = DrawnRows
                    /\ \A n \in Visible : content[n] => stored[id[n]]
                    /\ Steady => rel = {l \in Drawn : l[2] \in DrawnRows}
  BY DEF SavedAsDrawn
<1>1. /\ \A n \in v.fresh : id[n] # 0 /\ stored[id[n]]
      /\ \A n \in v.edited : content[n] => stored[id[n]]
      /\ Unlinks \cap rel = {}
      /\ \A l \in Links \ rel : l[2] \notin DrawnRows
      /\ v.deleted \cap rows = {}
  BY NothingIsLeft
<1>2. /\ steps \subseteq Keys /\ Visible \subseteq steps /\ hidden \subseteq steps /\ Visible = steps \ hidden
      /\ rows \subseteq Rows /\ 0 \notin Rows /\ DOMAIN link \subseteq steps \X steps
  BY DEF Typed, TypeOK, Visible, Rows
<1>3. /\ v.deleted = {id[n] : n \in {m \in hidden : id[m] # 0}}
      /\ \A n \in Visible : id[n] = 0 => n \in v.fresh
      /\ v.edited = Marked \ v.fresh
  BY DEF ListsOf
<1>4. \A n \in Visible : id[n] # 0 /\ id[n] \in rows
  BY <1>1, <1>3 DEF Ids
<1>5. \A m \in hidden : id[m] # 0 => id[m] \notin rows
  BY <1>1, <1>3
<1>6. DrawnRows \subseteq rows
  BY <1>4 DEF DrawnRows
<1>7. "half" \notin slips => rows = DrawnRows
  <2> SUFFICES ASSUME "half" \notin slips, NEW r \in rows PROVE r \in DrawnRows
    BY <1>6
  <2>1. PICK n \in steps : id[n] = r
    BY DEF Owned
  <2> QED BY <1>2, <1>5, <2>1 DEF DrawnRows
<1>8. Unchanged
  BY DEF Marking
<1>9. \A n \in Visible : content[n] => stored[id[n]]
  <2> TAKE n \in Visible
  <2>1. CASE n \in v.fresh
    BY <1>1, <2>1
  <2>2. CASE n \in Marked \ v.fresh
    BY <1>1, <1>3, <2>2
  <2>3. CASE n \notin Marked
    BY <1>8, <2>3 DEF Unchanged, Marked
  <2> QED BY <2>1, <2>2, <2>3
<1>10. ASSUME Steady
       PROVE  rel = {l \in Drawn : l[2] \in DrawnRows}
  <2>1. /\ rel \subseteq Drawn \cup KnownLinks
        /\ \A l \in KnownLinks \cap Drawn : l[2] \in DrawnRows => l \in rel
        /\ \A a \in Visible \ modified : Same(a)
    BY <1>10 DEF Knowing
  <2>2. \A l \in rel : /\ l[1] \in rows /\ l[2] \in rows
                       /\ \E e \in DOMAIN link : id[e[1]] = l[1] /\ id[e[2]] = l[2]
    BY DEF Edges
  <2>3. \A n \in steps : id[n] \in rows => n \in Visible
    BY <1>2, <1>5
  <2>4. \A l \in rel : l[2] \in DrawnRows
    BY <1>2, <2>2, <2>3 DEF DrawnRows
  <2>5. ASSUME NEW a \in Visible, NEW w \in known[a], <<id[a], w[1], w[2]>> \in rel
        PROVE  w \in DrawnFrom(a)
    <3>1. w = <<w[1], w[2]>>
      BY <1>2 DEF Typed, TypeOK
    <3>2. CASE a \in Marked
      <4>1. PICK e \in DOMAIN link : e[1] = a /\ id[e[2]] = w[1]
        BY <1>2 DEF Edges
      <4>2. <<id[a], w[1], w[2]>> \notin Unlinks
        BY <1>1, <2>5
      <4>3. link[e].type = w[2] /\ link[e].visible
        BY <3>2, <4>1, <4>2 DEF Unlinks, UnlinksOf
      <4> QED BY <3>1, <4>1, <4>3 DEF DrawnFrom, OutOf
    <3>3. CASE a \notin Marked
      <4>1. Same(a)
        BY <2>1, <3>3 DEF Marked
      <4>2. PICK e \in DOMAIN link : /\ e[1] = a /\ id[e[2]] = w[1]
                                     /\ e[2] \in hidden \/ (link[e].visible /\ link[e].type = w[2])
        BY <4>1 DEF Same
      <4>3. w[1] \in rows
        BY <2>2, <2>5
      <4>4. e[2] \notin hidden
        BY <1>2, <1>5, <4>2, <4>3
      <4> QED BY <3>1, <4>2, <4>4 DEF DrawnFrom, OutOf
    <3> QED BY <3>2, <3>3
  <2>6. ASSUME NEW l \in rel PROVE l \in Drawn
    <3> SUFFICES ASSUME l \in KnownLinks PROVE l \in Drawn
      BY <2>1
    <3>1. PICK a \in Keys : \E w \in known[a] : l = <<id[a], w[1], w[2]>>
      BY DEF KnownLinks
    <3>2. PICK w \in known[a] : l = <<id[a], w[1], w[2]>>
      BY <3>1
    <3>3. id[a] \in rows
      BY <2>2, <3>2
    <3>4. a \in Visible
      BY <1>2, <2>3, <3>3 DEF Ids
    <3>5. w \in DrawnFrom(a)
      BY <2>5, <2>6, <3>2, <3>4
    <3> QED BY <3>2, <3>4, <3>5 DEF Drawn
  <2>7. ASSUME NEW l \in Drawn, l[2] \in DrawnRows PROVE l \in rel
    <3>1. PICK a \in Visible : \E w \in DrawnFrom(a) : l = <<id[a], w[1], w[2]>>
      BY DEF Drawn
    <3>2. PICK w \in DrawnFrom(a) : l = <<id[a], w[1], w[2]>>
      BY <3>1
    <3>3. CASE w \in known[a]
      <4>1. l \in KnownLinks
        BY <1>2, <3>2, <3>3 DEF KnownLinks
      <4> QED BY <2>1, <2>7, <4>1
    <3>4. CASE w \notin known[a]
      <4>1. a \in Marked
        <5> SUFFICES ASSUME a \notin Marked PROVE FALSE
          OBVIOUS
        <5>1. Same(a)
          BY <2>1 DEF Marked
        <5>2. PICK e \in DOMAIN link : e[1] = a /\ link[e].visible /\ w = <<id[e[2]], link[e].type>>
          BY DEF DrawnFrom, OutOf
        <5> QED BY <3>4, <5>1, <5>2 DEF Same
      <4>2. l \in Links
        BY <3>2, <3>4, <4>1 DEF Links
      <4> QED BY <1>1, <2>7, <4>2
    <3> QED BY <3>3, <3>4
  <2> QED BY <2>4, <2>6, <2>7
<1> QED BY <1>6, <1>7, <1>9, <1>10

Saved == Calm /\ Over => SavedAsDrawn

\* After a save has finished nothing more happens: the drawing is loaded again.
LEMMA OverIsTheEnd ==
  ASSUME Typed, CInv, Over, [Next]_vars
  PROVE  UNCHANGED vars
<1>1. calls = {} /\ ~dirty /\ \A k \in Saves : ~Running(k)
  BY DEF CInv, Turns
<1>2. ~Editable
  BY DEF Over, Editable, Saves
<1>3. ~Edit
  BY <1>2, EditDoes
<1>4. \A k \in Saves : ~SavePress(k) /\ ~Advance(k)
  BY <1>1 DEF SavePress, Advance
<1> QED BY <1>1, <1>3, <1>4 DEF Next, Saves

LEMMA StepSaved ==
  ASSUME IInv, Marking, Knowing, Saved, [Next]_vars
  PROVE  Marking' /\ Knowing' /\ Saved'
<1>1. slips \subseteq slips'
  BY SlipsStay DEF vars
<1>2. Typed /\ (Calm' => Calm /\ CInv) /\ (Steady' => Calm')
  BY <1>1 DEF IInv, Calm, Steady
<1>3. Marking' /\ Knowing'
  <2> SUFFICES ASSUME Calm' PROVE Marking' /\ Knowing'
    BY <1>2 DEF Marking, Knowing
  <2>1. Calm /\ CInv
    BY <1>2
  <2>2. CASE Edit
    BY <1>2, <2>1, <2>2, EditKnowing
  <2>3. ASSUME NEW k \in Saves, SavePress(k) \/ Advance(k)
        PROVE  Marking' /\ Knowing'
    <3>1. /\ UNCHANGED <<steps, hidden, id, content, approval, known, link, rows, stored, rel>>
          /\ modified' = modified \/ Over'
          /\ ~Unsaved'
      BY <1>2, <2>3, SavingKeeps
    <3>2. ~Over
      BY <2>1, <2>3, SaveStarts, SaveGoesOn, <1>2
    <3> QED BY <1>1, <3>1, <3>2, StillKnowing
  <2>4. ASSUME NEW c \in calls, Answer(c)
        PROVE  Marking' /\ Knowing'
    BY <1>2, <2>1, <2>4, AnswerKnowing
  <2>5. ASSUME NEW c \in calls, Refuse(c) \/ Break(c)
        PROVE  Marking' /\ Knowing'
    <3>1. UNCHANGED <<drawing, server>> /\ \A j \in Saves : save'[j].stage = save[j].stage
      BY <1>2, <2>5, FailsKeeps DEF Refuse, Break
    <3>2. (Over => Over') /\ (Unsaved' => Unsaved)
      BY <3>1 DEF Over, Unsaved
    <3> QED BY <1>1, <3>1, <3>2, StillKnowing DEF drawing, server
  <2>6. CASE UNCHANGED vars
    <3>1. (Over => Over') /\ (Unsaved' => Unsaved)
      BY <2>6 DEF Over, Unsaved, vars
    <3> QED BY <1>1, <2>6, <3>1, StillKnowing DEF vars, drawing, server
  <2> QED BY <2>2, <2>3, <2>4, <2>5, <2>6 DEF Next, Saves
<1>4. Saved'
  <2> SUFFICES ASSUME Calm', Over' PROVE SavedAsDrawn'
    BY DEF Saved
  <2>0. Calm /\ CInv
    BY <1>2
  <2>1. CASE Over
    <3>1. UNCHANGED vars /\ SavedAsDrawn
      BY <1>2, <2>0, <2>1, OverIsTheEnd DEF Saved
    <3>2. DrawnRows' = DrawnRows /\ Drawn' = Drawn /\ Visible' = Visible
      BY <3>1, SameDrawing DEF vars, drawing
    <3> QED BY <3>1, <3>2 DEF SavedAsDrawn, Steady, vars, drawing, server
  <2>2. CASE ~Over
    <3>1. \E j \in Saves : save'[j].stage # save[j].stage
      BY <2>2 DEF Over
    <3>2. save' # save
      BY <3>1
    <3>3. ~Edit /\ ~UNCHANGED vars
      BY <1>2, <3>2, EditDoes DEF vars
    <3>4. \A c \in calls : ~Answer(c) /\ ~Refuse(c) /\ ~Break(c)
      BY <1>2, <3>1, <3>2, FailsKeeps DEF Answer, Refuse, Break
    <3>5. PICK k \in Saves : SavePress(k) \/ Advance(k)
      BY <3>3, <3>4 DEF Next, Saves
    <3>6. /\ calls = {} /\ slips' = slips
          /\ \E v \in SaveType : /\ v.stage \in 0..LastStage /\ ~v.failed
                                 /\ ListsOf(v) /\ WorkLeft(v) /\ Proceed(k, v)
      BY <1>2, <2>0, <3>5, SaveStarts, SaveGoesOn
    <3>7. PICK v \in SaveType : /\ v.stage \in 0..LastStage /\ ~v.failed
                                /\ ListsOf(v) /\ WorkLeft(v) /\ Proceed(k, v)
      BY <3>6
    <3>8. PICK s \in (v.stage + 1)..Finished : GoesTo(k, v, s)
      BY <1>2, <3>7, Proceeds DEF Typed, TypeOK
    <3>9. s = Finished
      <4>1. PICK w \in SaveType : save' = [save EXCEPT ![k] = [w EXCEPT !.stage = s]]
        BY <1>2, <3>7, <3>8, ReadyTyped DEF GoesTo
      <4>2. \A j \in Saves : save'[j].stage = IF j = k THEN s ELSE save[j].stage
        BY <1>2, <4>1 DEF Typed, SaveType
      <4> QED BY <2>2, <4>2 DEF Over
    <3>10. \A i \in (v.stage + 1)..LastStage : Requests(k, Ready(v), i) = {}
      <4>1. LastStage = 11 /\ Finished = 12 /\ v.stage \in Nat
        BY <3>7, NumberOfStages DEF LastStage
      <4>2. \A i \in (v.stage + 1)..LastStage : i < Finished
        BY <4>1
      <4> QED BY <3>8, <3>9, <4>2 DEF GoesTo
    <3>11. SavedAsDrawn
      BY <1>2, <2>0, <2>2, <3>6, <3>7, <3>10, FinishSaves DEF CInv
    <3>12. UNCHANGED <<steps, hidden, id, content, approval, link, rows, stored, rel, slips>>
      BY <1>2, <3>5, <3>6, SavingKeeps
    <3>13. DrawnRows' = DrawnRows /\ Drawn' = Drawn /\ Visible' = Visible
      BY <3>12 DEF DrawnRows, Drawn, DrawnFrom, OutOf, Visible
    <3> QED BY <3>11, <3>12, <3>13 DEF SavedAsDrawn, Steady
  <2> QED BY <2>1, <2>2
<1> QED BY <1>3, <1>4

LEMMA Knowledge == Spec => [](Marking /\ Knowing /\ Saved)
<1>1. Init => Saved
  BY DEF Init, Saved, Over, Idle, Saves, Finished
<1>2. IInv /\ Marking /\ Knowing /\ Saved /\ [Next]_vars => Marking' /\ Knowing' /\ Saved'
  BY StepSaved
<1> QED BY <1>1, <1>2, InitKnowing, Invariant, PTL DEF Spec

\* "Successfully saved" means that the template is what is drawn: one row of
\* each step, with its data, and the links between them, also when saves before
\* it were broken off at any request.  Links are not claimed once the drawing was
\* edited after that, or has forgotten what the server had.
THEOREM SavedIsDrawn == Spec => []DrawnIsSaved
<1>1. Saved => DrawnIsSaved
  BY DEF Saved, SavedAsDrawn, DrawnIsSaved, Steady, Over, Calm, Saves
<1> QED BY <1>1, Knowledge, PTL

-----------------------------------------------------------------------------
(* What the server takes *)

\* Nothing that can be reached from the end of a link leads back to its start.
LEMMA LinkEndsBelow ==
  ASSUME Acyclic, DOMAIN link \subseteq Keys \X Keys, NEW e \in DOMAIN link
  PROVE  e[1] \notin Reachable(Keys, DOMAIN link, e[2])
<1> DEFINE D == Reachable(Keys, DOMAIN link, e[2])
<1>1. e[1] \in Keys /\ e[2] \in Keys
  OBVIOUS
<1>2. D \in SUBSET Keys /\ e[2] \in D
  BY <1>1, ReachableIsClosed DEF Reachable
<1>3. \A f \in DOMAIN link : f[1] \in D /\ f[2] \in Keys => f[2] \in D
  BY <1>1, ReachableIsClosed
<1> SUFFICES ASSUME e[1] \in D PROVE FALSE
  OBVIOUS
<1>4. PICK n \in D : \A f \in DOMAIN link : f[2] = n => f[1] \notin D
  BY <1>2 DEF Acyclic
<1>5. n # e[2]
  BY <1>4
<1> DEFINE X == D \ {n}
<1>6. X \in SUBSET Keys /\ e[2] \in X
  BY <1>2, <1>5
<1>7. \A f \in DOMAIN link : f[1] \in X => f[2] \in X
  BY <1>3, <1>4
<1> HIDE DEF X
<1>8. D \subseteq X
  BY <1>6, <1>7, ReachableIsLeast
<1> QED BY <1>4, <1>8 DEF X

\* Nor does the server have a way back.
LEMMA NoWayBack ==
  ASSUME Typed, Acyclic, Ids, Edges, NEW e \in DOMAIN link, id[e[1]] # 0, id[e[2]] \in rows
  PROVE  id[e[1]] \notin Reaches(id[e[2]])
<1> DEFINE D == Reachable(Keys, DOMAIN link, e[2])
           X == {r \in Rows : \E m \in D : id[m] = r}
           R == {<<l[1], l[2]>> : l \in rel}
<1>1. DOMAIN link \subseteq Keys \X Keys /\ rows \subseteq Rows /\ 0 \notin Rows
      /\ rel \subseteq Rows \X Rows \X LinkTypes
  BY DEF Typed, TypeOK, Rows
<1>2. e[1] \in Keys /\ e[2] \in Keys
  BY <1>1
<1>3. D \subseteq Keys /\ e[2] \in D /\ e[1] \notin D
  BY <1>1, <1>2, ReachableIsClosed, LinkEndsBelow DEF Reachable
<1>4. \A f \in DOMAIN link : f[1] \in D /\ f[2] \in Keys => f[2] \in D
  BY <1>2, ReachableIsClosed
<1> HIDE DEF D
<1>5. X \in SUBSET Rows /\ id[e[2]] \in X
  BY <1>1, <1>3
<1>6. \A p \in R : p[1] \in X => p[2] \in X
  <2> SUFFICES ASSUME NEW l \in rel, l[1] \in X PROVE l[2] \in X
    OBVIOUS
  <2>1. PICK f \in DOMAIN link : id[f[1]] = l[1] /\ id[f[2]] = l[2]
    BY DEF Edges
  <2>2. PICK m \in D : id[m] = l[1]
    OBVIOUS
  <2>3. l[1] # 0 /\ f[1] \in Keys /\ f[2] \in Keys /\ l[2] \in Rows
    BY <1>1
  <2>4. f[1] = m
    BY <1>3, <2>1, <2>2, <2>3 DEF Ids
  <2>5. f[2] \in D
    BY <1>4, <2>2, <2>3, <2>4
  <2> QED BY <2>1, <2>3, <2>5
<1>7. id[e[1]] \notin X
  BY <1>2, <1>3 DEF Ids
<1> HIDE DEF X, R
<1>8. Reachable(Rows, R, id[e[2]]) \subseteq X
  BY <1>5, <1>6, ReachableIsLeast
<1> QED BY <1>7, <1>8 DEF Reaches, R

\* The requests of a save are taken, if the rows of removed steps are there.
LEMMA RequestsAreTaken ==
  ASSUME Typed, Acyclic, CInv, Calm, Marking, Knowing, slips = {},
         \A n \in hidden : id[n] \in rows \cup {0},
         NEW c \in calls, c.op # "create", ~(c.op = "update" /\ c.approval = "unset")
  PROVE  Accepts(c)
<1> DEFINE v == save[c.save]
<1>1. WorkLeft(v) /\ ListsOf(v) /\ OfStage(c, v) /\ v.stage \in 1..11
  BY SaveOf
<1> HIDE DEF v
<1>2. /\ steps \subseteq Keys /\ Visible = steps \ hidden /\ DOMAIN link \subseteq steps \X steps
      /\ rows \subseteq Rows /\ 0 \notin Rows /\ Marked \subseteq Visible
      /\ known \in [Keys -> SUBSET (Rows \X LinkTypes)]
      /\ hidden \subseteq steps
  BY DEF Typed, TypeOK, Visible, Rows, Marked
<1>3. \A n \in steps : id[n] # 0 => id[n] \in rows
  BY <1>2 DEF CInv, Ids
<1>4. c.op \in {"finish", "update", "unlink", "link", "delete"}
  BY DEF Typed, CallTyped
<1>5. CASE c.op = "finish"
  <2>1. CASE Making(c)
    BY <1>5, <2>1 DEF CInv, Births, Accepts
  <2>2. CASE Remaking(c)
    <3>1. c.step \in Marked /\ c.row = id[c.step]
      BY <1>1, <2>2 DEF OfStage, ListsOf, Remaking
    <3>2. c.row \in Rows
      BY <1>5 DEF Typed, CallTyped
    <3> QED BY <1>2, <1>3, <1>5, <3>1, <3>2 DEF Accepts
  <2> QED BY <1>5, <2>1, <2>2 DEF Making, Remaking
<1>6. CASE c.op = "update"
  <2>1. c.step \in Marked \ v.fresh /\ c.row = id[c.step]
    BY <1>1, <1>6 DEF OfStage, ListsOf
  <2>2. c.row # 0
    BY <1>1, <1>2, <2>1 DEF ListsOf
  <2> QED BY <1>2, <1>3, <1>6, <2>1, <2>2 DEF Accepts
<1>7. CASE c.op = "delete"
  <2>1. PICK m \in hidden : c.row = id[m] /\ id[m] # 0
    BY <1>1, <1>7 DEF OfStage, ListsOf
  <2> QED BY <1>7, <2>1 DEF Accepts
<1>8. CASE c.op = "unlink"
  <2>1. Triple(c) \in Unlinks
    BY <1>1, <1>8, StageRanges, NumberOfStages DEF OfStage, ListsOf
  <2>2. PICK n \in Marked : \E w \in known[n] : Triple(c) = <<id[n], w[1], w[2]>>
    BY <2>1 DEF Unlinks, UnlinksOf
  <2>3. PICK w \in known[n] : Triple(c) = <<id[n], w[1], w[2]>>
    BY <2>2
  <2>4. PICK e \in DOMAIN link : e[1] = n /\ id[e[2]] = w[1]
    BY <1>2 DEF CInv, Edges
  <2>5. c.row = id[n] /\ c.to = id[e[2]] /\ id[n] # 0 /\ w[1] # 0
    BY <1>2, <2>3, <2>4 DEF CInv, Edges, Triple
  <2>6. c.row \in rows /\ c.to \in rows
    BY <1>2, <1>3, <2>4, <2>5
  <2> QED BY <1>8, <2>6 DEF Accepts
<1>9. CASE c.op = "link"
  <2>1. Triple(c) \in Links /\ v.stage \in 8..10
    BY <1>1, <1>9, StageRanges, NumberOfStages DEF OfStage, ListsOf
  <2>2. PICK e \in DOMAIN link :
          /\ e[1] \in Marked /\ link[e].visible /\ link[e].type = c.type
          /\ id[e[1]] = c.row /\ id[e[2]] = c.to /\ c.to # 0
    BY <1>1, <2>1, ListsOfLinks DEF CInv, Triple
  <2>3. c.row # 0
    <3>1. CreateStage(approval[e[1]]) \in 1..2 /\ e[1] \in Visible
      BY <1>2, <2>2, StageRanges
    <3>2. c.row = 0 => CreateStage(approval[e[1]]) >= v.stage
      BY <1>1, <2>2, <3>1 DEF ListsOf, WorkLeft, Left
    <3> QED BY <2>1, <3>1, <3>2
  <2>4. c.row \in rows /\ c.to \in rows
    BY <1>2, <1>3, <2>2, <2>3
  <2>5. c.row \notin Reaches(c.to)
    BY <2>2, <2>3, <2>4, NoWayBack DEF CInv
  <2>6. ASSUME NEW t \in LinkTypes \ {c.type}, <<c.row, c.to, t>> \in rel
        PROVE  FALSE
    <3>1. <<c.row, c.to, t>> \in Drawn \cup KnownLinks
      BY <2>6 DEF Knowing, Steady
    <3>2. e[1] \in Keys /\ e[2] \in Keys /\ e = <<e[1], e[2]>>
      BY <1>2
    <3>3. CASE <<c.row, c.to, t>> \in Drawn
      <4>1. PICK a \in Visible : \E w \in DrawnFrom(a) : <<c.row, c.to, t>> = <<id[a], w[1], w[2]>>
        BY <3>3 DEF Drawn
      <4>2. PICK w \in DrawnFrom(a) : <<c.row, c.to, t>> = <<id[a], w[1], w[2]>>
        BY <4>1
      <4>3. PICK f \in DOMAIN link : f[1] = a /\ link[f].visible /\ w = <<id[f[2]], link[f].type>>
        BY DEF DrawnFrom, OutOf
      <4>4. id[f[1]] = c.row /\ id[f[2]] = c.to /\ link[f].type = t
        BY <4>2, <4>3
      <4>5. f[1] \in Keys /\ f[2] \in Keys /\ f = <<f[1], f[2]>>
        BY <1>2
      <4>6. f[1] = e[1] /\ f[2] = e[2]
        BY <2>2, <2>3, <3>2, <4>4, <4>5 DEF CInv, Ids
      <4>7. f = e
        BY <3>2, <4>5, <4>6
      <4> QED BY <2>2, <4>4, <4>7
    <3>4. CASE <<c.row, c.to, t>> \in KnownLinks
      <4>1. PICK a \in Keys : \E w \in known[a] : <<c.row, c.to, t>> = <<id[a], w[1], w[2]>>
        BY <3>4 DEF KnownLinks
      <4>2. PICK w \in known[a] : <<c.row, c.to, t>> = <<id[a], w[1], w[2]>>
        BY <4>1
      <4>3. id[a] = c.row /\ w[1] = c.to /\ w[2] = t
        BY <4>2
      <4>4. a = e[1]
        BY <2>2, <2>3, <3>2, <4>3 DEF CInv, Ids
      <4>5. <<c.row, c.to, t>> \in Unlinks
        <5>1. id[e[2]] = w[1] /\ link[e].type # w[2]
          BY <2>2, <4>3
        <5> QED BY <2>2, <4>2, <4>4, <5>1 DEF Unlinks, UnlinksOf
      <4>6. v.unlink = Unlinks
        BY <1>1, <2>1, NumberOfStages DEF ListsOf
      <4>7. UnlinkStage(t) >= v.stage
        <5>1. <<c.row, c.to, t>> \in v.unlink \cap rel /\ <<c.row, c.to, t>>[3] = t
          BY <2>6, <4>5, <4>6
        <5> QED BY <1>1, <5>1 DEF WorkLeft, Left
      <4>8. UnlinkStage(t) \in 5..7
        BY StageRanges
      <4> QED BY <2>1, <4>7, <4>8
    <3> QED BY <3>1, <3>3, <3>4
  <2>7. \A t \in LinkTypes \ {c.type} : <<c.row, c.to, t>> \notin rel
    BY <2>6
  <2> QED BY <1>9, <2>2, <2>4, <2>5, <2>7 DEF Accepts
<1> QED BY <1>4, <1>5, <1>6, <1>7, <1>8, <1>9

\* As long as nothing has failed, no suggestion had a cycle and the rows of removed
\* steps are there, the server refuses nothing of a save but a new row for which
\* there is no room and an approval without its template:
\* links are taken away before others are made between the same steps, and no
\* link of the drawing closes a cycle with those the server still has.
THEOREM NoneIsRefused == Spec => []NeverRefused
<1>1. IInv /\ Marking /\ Knowing => NeverRefused
  BY RequestsAreTaken DEF IInv, Calm, NeverRefused
<1> QED BY <1>1, Invariant, Knowledge, PTL
=============================================================================
