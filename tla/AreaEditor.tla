----------------------------- MODULE AreaEditor ------------------------------
(***************************************************************************)
(* The page on which an admin edits an area with its floor plan, spaces    *)
(* and attributes (ui/src/pages/admin/locations/[id].tsx).  Save is a      *)
(* chain of calls: the area, its attributes beside the rest, all changed   *)
(* spaces in one call, then the floor plan, after which the page is loaded *)
(* anew.  The editor keeps what is to be sent: spaces marked as changed,   *)
(* rows to be deleted, attributes set and deleted.  Any call of the chain  *)
(* may be refused, after which the page goes on, and so may single rows of *)
(* the call with the spaces, which the page does not look at.              *)
(*                                                                         *)
(* A space is where it is on the plan (place), the rest of its fields      *)
(* (look) and its attributes.  These are objects the spaces refer to: a    *)
(* copy refers to that of the original.                                    *)
(***************************************************************************)
EXTENDS WebPage

CONSTANTS
    MaxSpaces,      \* rows and objects there can be (bound)
    PlanSize,       \* places of the floor plan
    Attributes,     \* attributes of an area
    MaxEdits,       \* clicks on this page (bound)
    HastyEdits      \* those of an admin who is not careful (bound)

ASSUME PlanAssumption == PlanSize \in Nat \ {0} /\ MaxSpaces \in Nat

Ids == 1 .. MaxSpaces
Places == 0 .. PlanSize
Values == 0 .. 1
Unset == 2

Row(place, look, attr) == [place |-> place, look |-> look, attr |-> attr]

NoRow == Row(-1, 0, Unset)
TopLeft == Row(0, 0, Unset)

(* newSpaceState: from a row, or at the corner for one that is to be made. *)
SpaceState(row, data, object) ==
    [row |-> row, place |-> data.place, org |-> data.place, look |-> data.look,
     object |-> object, changed |-> TRUE]

Loaded(rows) ==
    LET known == {r \in Ids : rows[r] # NoRow}
        nth[n \in 1 .. Cardinality(known)] ==
            CHOOSE r \in known : Cardinality({q \in known : q < r}) = n - 1
    IN  [n \in DOMAIN nth |->
            [SpaceState(nth[n], rows[nth[n]], n) EXCEPT !.changed = FALSE]]

(* loadData, with the row of the area it reads first.                      *)
LoadOf(stored, n) == [what |-> "load", n |-> n, form |-> stored.form,
                      type |-> stored.type, scale |-> stored.scale]

(* The page of an area that exists, or of one that is to be made.  careful: *)
(* does nothing while the page waits for an answer, nor any of the things  *)
(* the page cannot deal with: edit attributes that two spaces share, add   *)
(* an attribute of the area again before its removal is saved, or save     *)
(* attributes together with a floor plan, which loads the page anew while  *)
(* they are being saved.                                                   *)
AreaInit ==
    /\ page = "area" /\ blocked = FALSE /\ clicks = 0
    /\ \E exists, careful \in BOOLEAN, type \in {"upload", "designed"} :
          /\ server = [rows |-> [r \in Ids |-> IF exists /\ r = 1 THEN Row(1, 0, 0)
                                               ELSE NoRow],
                       form |-> 0, design |-> 0, type |-> type, scale |-> 1,
                       attrs |-> [a \in Attributes |-> Unset]]
          /\ state = [entity |-> exists, form |-> 0, items |-> <<>>,
                      heap |-> [o \in Ids |-> Unset], selected |-> 0,
                      details |-> FALSE,
                      dropped |-> {}, changed |-> FALSE, saved |-> FALSE,
                      submitting |-> FALSE, dialog |-> "none", gone |-> FALSE,
                      scale |-> 1, scaleOnLoad |-> 1, type |-> "upload",
                      file |-> FALSE, design |-> 0,
                      attrs |-> [a \in Attributes |-> Unset],
                      changedAttrs |-> {}, droppedAttrs |-> {},
                      loading |-> exists, careful |-> careful,
                      error |-> FALSE, unstored |-> FALSE]
          /\ calls = IF exists THEN {LoadOf(server, 0)} ELSE {}

-----------------------------------------------------------------------------
(* What the admin does.                                                    *)
Admin ==
    /\ Click("area") /\ clicks < MaxEdits
    /\ ~state.gone /\ ~state.loading
    /\ IF state.careful THEN calls = {} ELSE clicks < HastyEdits
    /\ UNCHANGED server

Edits(next) == Admin /\ state.dialog = "none" /\ ~state.details
                 /\ state' = next /\ UNCHANGED calls

Selected == state.selected \in DOMAIN state.items
Chosen == state.items[state.selected]

(* The fields of the form; they do not mark the page as changed.           *)
EditForm == Edits([state EXCEPT !.form = 1 - @])

ChooseType(type) ==
    /\ type # state.type
    /\ Edits([state EXCEPT !.type = type,
                           !.file = @ /\ type # "designed"])

ChooseFile ==
    /\ state.type = "upload"
    /\ Edits([state EXCEPT !.file = TRUE, !.scale = 1])

EditDesign ==
    /\ state.type = "designed"
    /\ Edits([state EXCEPT !.design = 1 - @, !.changed = TRUE])

FreeObject(o) == \A i \in DOMAIN state.items : state.items[i].object # o

AddSpace ==
    /\ state.entity /\ state.scale = state.scaleOnLoad
    /\ \E o \in Ids :
          /\ FreeObject(o)
          /\ Edits([state EXCEPT !.items = Append(@, SpaceState(0, TopLeft, o)),
                                 !.heap[o] = Unset, !.changed = TRUE])

SelectArea(i) ==
    /\ state.entity /\ i # state.selected
    /\ Edits([state EXCEPT !.selected = i])

(* All of setSpace...: the item is replaced by a changed copy.             *)
Replaced(item) == [state EXCEPT !.items[state.selected] =
                                    [item EXCEPT !.changed = TRUE],
                                !.changed = TRUE]

(* Dragged, resized or turned; clampPosition keeps it on the plan.         *)
Clamp(place) == IF place < 0 THEN 0 ELSE IF place > PlanSize THEN PlanSize
                ELSE place

MoveSpace(by) ==
    /\ Selected
    /\ Edits(Replaced([Chosen EXCEPT !.place = Clamp(@ + by)]))

(* The dialogue with the details of a space.                               *)
OpenDetails == Selected /\ Edits([state EXCEPT !.details = TRUE])

CloseDetails ==
    /\ Admin /\ state.details
    /\ state' = [state EXCEPT !.details = FALSE]
    /\ UNCHANGED calls

EditSpace ==
    /\ Admin /\ state.details /\ Selected
    /\ state' = Replaced([Chosen EXCEPT !.look = 1 - @])
    /\ UNCHANGED calls

Shared(o) == \E i, j \in DOMAIN state.items :
    i # j /\ state.items[i].object = o /\ state.items[j].object = o

(* setSpaceAttributeValue, setSpaceAttributeEnabled: in the object.        *)
EditSpaceAttribute(value) ==
    /\ Admin /\ state.details /\ Selected
    /\ value # state.heap[Chosen.object]
    /\ state.careful => ~Shared(Chosen.object)
    /\ state' = [Replaced(Chosen) EXCEPT !.heap[Chosen.object] = value]
    /\ UNCHANGED calls

CopySpace ==
    /\ Selected /\ Len(state.items) < MaxSpaces
    /\ Edits([state EXCEPT
                !.items = Append(@, [Chosen EXCEPT !.row = 0, !.place = @ + 1,
                                                   !.changed = TRUE]),
                !.selected = 0, !.changed = TRUE])

(* The mutated form of DeleteSpace: the row is not remembered.             *)
DeleteSpaceForgotten ==
    /\ Selected
    /\ Edits([state EXCEPT
                !.items = RemovedAt(@, state.selected),
                !.selected = 0, !.changed = TRUE])

DeleteSpace ==
    /\ Selected
    /\ Edits([state EXCEPT
                !.items = RemovedAt(@, state.selected),
                !.dropped = IF Chosen.row = 0 THEN @ ELSE @ \cup {Chosen.row},
                !.selected = 0, !.changed = TRUE])

SetMapScale(scale) ==
    /\ state.entity /\ ~state.file /\ state.type # "designed"
    /\ scale # state.scale
    /\ Edits([state EXCEPT
                !.items = [i \in DOMAIN @ |->
                    [@[i] EXCEPT
                        !.place = (state.items[i].org * scale) \div state.scaleOnLoad,
                        !.changed = TRUE]],
                !.changed = TRUE, !.scale = scale])

SetAttribute(a, value) ==
    /\ state.entity /\ value # state.attrs[a]
    /\ state.careful => a \notin state.droppedAttrs
    /\ Edits([state EXCEPT !.attrs[a] = value,
                           !.changedAttrs = @ \cup {a}])

DeleteAttribute(a) ==
    /\ state.entity /\ state.attrs[a] # Unset
    /\ Edits([state EXCEPT !.attrs[a] = Unset,
                           !.droppedAttrs = @ \cup {a}])

(* Back asks before it discards; deleting the area asks always.            *)
GoBack == Edits([state EXCEPT !.dialog = IF state.changed THEN "discard" ELSE @,
                              !.gone = ~state.changed])

AskDelete == state.entity /\ Edits([state EXCEPT !.dialog = "delete"])

ConfirmDialog(yes) ==
    /\ Admin /\ state.dialog # "none"
    /\ state' = [state EXCEPT !.dialog = "none",
                              !.gone = yes /\ state.dialog = "discard"]
    /\ calls' = IF yes /\ state.dialog = "delete"
                THEN calls \cup {[what |-> "delete", n |-> clicks]} ELSE calls

(* onSubmit, up to its first call.                                         *)
SubmitArea ==
    /\ Admin /\ state.dialog = "none" /\ ~state.details /\ ~state.submitting
    /\ ~state.entity /\ state.type = "upload" => state.file
    /\ state.careful /\ (state.file \/ state.type = "designed")
       => state.changedAttrs \cup state.droppedAttrs = {}
    /\ state' = [state EXCEPT !.submitting = TRUE, !.error = FALSE]
    /\ calls' = calls \cup {[what |-> "save", n |-> clicks, form |-> state.form,
                             type |-> state.type, scale |-> state.scale]}

-----------------------------------------------------------------------------
(* Answers; an answer is given when the call is carried out.               *)
AreaTakes(call, what) == Goes("area") /\ call.what = what /\ ~state.gone

(* The end of onSubmit.                                                    *)
Done(s) == [s EXCEPT !.saved = TRUE, !.changed = FALSE, !.submitting = FALSE,
                     !.scaleOnLoad = s.scale,
                     !.items = [i \in DOMAIN @ |-> [@[i] EXCEPT !.org = s.items[i].place]]]

(* What follows the spaces.                                                *)
Last(s, n, others) ==
    IF s.type = "designed" \/ s.file
    THEN /\ state' = s
         /\ calls' = others \cup
                {[what |-> "plan", n |-> n, design |-> s.design, type |-> s.type]}
    ELSE state' = Done(s) /\ calls' = others

(* The area is saved: saveAttributes starts its calls and does not wait    *)
(* for them, saveSpaces sends what is marked, in the order of the list.    *)
AreaSaved(call) ==
    LET attrs == [what |-> "attributes", n |-> call.n,
                  refused |-> FALSE,
                  todo |-> {<<a, state.attrs[a]>> : a \in
                               {b \in Attributes : state.attrs[b] # Unset}}
                           \cup {<<a, Unset>> : a \in state.droppedAttrs}]
        marked == {i \in DOMAIN state.items : state.items[i].changed}
        others == (calls \ {call}) \cup {attrs}
        known == [state EXCEPT !.entity = TRUE]
    IN
    /\ AreaTakes(call, "save")
    /\ server' = [server EXCEPT !.form = call.form, !.type = call.type,
                                !.scale = call.scale]
    /\ IF marked = {} /\ state.dropped = {} THEN Last(known, call.n, others)
       ELSE /\ state' = known
            /\ calls' = others \cup
                 {[what |-> "spaces", n |-> call.n, dropped |-> state.dropped,
                   send |-> [i \in marked |->
                      LET item == state.items[i] IN
                      [row |-> item.row,
                       data |-> Row(item.place, item.look,
                                    state.heap[item.object])]]]}

(* Rows for the spaces that have none, in their order.                     *)
NewRows(send, rows) ==
    LET free == {r \in Ids : rows[r] = NoRow}
        new == {i \in DOMAIN send : send[i].row = 0}
    IN  {f \in [new -> free] : \A i, j \in new : i # j => f[i] # f[j]}

(* One by one on the server: failed are those whose INSERT or UPDATE fails, *)
(* left those whose DELETE does.  The page takes them for done.            *)
SpacesStored(call, failed, left) ==
    LET kept == [r \in Ids |-> IF r \in call.dropped \ left THEN NoRow
                               ELSE server.rows[r]]
        news == {i \in DOMAIN call.send : call.send[i].row = 0}
        open == {i \in DOMAIN state.items :
                    state.items[i].changed /\ state.items[i].row = 0}
        before(i, S) == Cardinality({j \in S : j < i})
    IN
    \E rows \in NewRows(call.send, server.rows) :
         LET of(i) == IF i \in failed THEN 0
                      ELSE IF i \in news THEN rows[i] ELSE call.send[i].row
             answered == {i \in open : before(i, open) < Cardinality(news)}
             made(i) == CHOOSE r \in Ids \cup {0} :
                \E j \in news : r = of(j) /\ before(j, news) = before(i, open)
             s == [state EXCEPT
                    !.items = [i \in DOMAIN @ |->
                        [@[i] EXCEPT
                            !.row = IF i \in answered THEN made(i)
                                    ELSE state.items[i].row,
                            !.changed = FALSE]],
                    !.dropped = {},
                    !.unstored = @ \/ failed # {} \/ left # {}]
         IN /\ server' = [server EXCEPT !.rows = [r \in Ids |->
                  IF \E i \in DOMAIN call.send : of(i) = r
                        /\ (i \in news \/ kept[r] # NoRow)
                  THEN call.send[CHOOSE i \in DOMAIN call.send : of(i) = r].data
                  ELSE kept[r]]]
            /\ Last(s, call.n, calls \ {call})

SpacesSaved(call) ==
    /\ AreaTakes(call, "spaces")
    /\ \E failed \in SUBSET DOMAIN call.send, left \in SUBSET call.dropped :
          SpacesStored(call, failed, left)

(* A new plan, designed or uploaded, has scale 1.                          *)
PlanSaved(call) ==
    LET s == Done(state) IN
    /\ AreaTakes(call, "plan")
    /\ server' = [server EXCEPT !.design = IF call.type = "designed"
                                           THEN call.design ELSE @,
                                !.scale = 1]
    /\ state' = [s EXCEPT !.file = @ /\ call.type = "designed"]
    /\ calls' = (calls \ {call}) \cup {LoadOf(server', call.n)}

AttributeSaved(call) ==
    /\ AreaTakes(call, "attributes") /\ UNCHANGED state
    /\ \E pair \in call.todo :
          /\ server' = [server EXCEPT !.attrs[pair[1]] = pair[2]]
          /\ calls' = (calls \ {call}) \cup
                          {[call EXCEPT !.todo = @ \ {pair}]}

AttributesSaved(call) ==
    /\ AreaTakes(call, "attributes") /\ call.todo = {}
    /\ state' = IF call.refused THEN state
                ELSE [state EXCEPT !.changedAttrs = {}, !.droppedAttrs = {}]
    /\ calls' = calls \ {call}
    /\ UNCHANGED server

(* loadData sets the spaces as soon as it has them, all else at the end.   *)
SpacesLoaded(call) ==
    LET items == Loaded(server.rows) IN
    /\ AreaTakes(call, "load")
    /\ state' = [state EXCEPT
            !.items = items,
            !.heap = [o \in Ids |-> IF o \in DOMAIN items
                                    THEN server.rows[items[o].row].attr
                                    ELSE Unset]]
    /\ calls' = (calls \ {call}) \cup {[call EXCEPT !.what = "rest"]}
    /\ UNCHANGED server

AreaLoaded(call) ==
    /\ AreaTakes(call, "rest")
    /\ state' = [state EXCEPT !.form = call.form, !.type = call.type,
                              !.scale = call.scale,
                              !.scaleOnLoad = call.scale,
                              !.design = IF call.type = "designed"
                                         THEN server.design ELSE 0,
                              !.attrs = server.attrs,
                              !.loading = FALSE]
    /\ calls' = calls \ {call}
    /\ UNCHANGED server

AreaDeleted(call) ==
    /\ AreaTakes(call, "delete")
    /\ state' = [state EXCEPT !.gone = TRUE]
    /\ calls' = {}
    /\ server' = [server EXCEPT !.rows = [r \in Ids |-> NoRow]]

(* An answer with an application code.  onSubmit catches it, for any call  *)
(* of its chain but setMap: the page says so and can be used again.        *)
Caught(call) ==
    \/ call.what \in {"save", "spaces"}
    \/ call.what = "plan" /\ call.type = "designed"

AreaCallRefused(call) ==
    /\ AreaTakes(call, call.what) /\ call.what # "attributes"
    /\ state' = IF Caught(call)
                THEN [state EXCEPT !.saved = FALSE, !.error = TRUE,
                                   !.submitting = FALSE]
                ELSE state
    /\ calls' = calls \ {call}
    /\ UNCHANGED server

(* The promise of saveAttributes then never settles; nobody waits for it,  *)
(* and the other attributes are saved all the same.                        *)
AttributeRefused(call) ==
    /\ AreaTakes(call, "attributes") /\ UNCHANGED <<state, server>>
    /\ \E pair \in call.todo :
          calls' = (calls \ {call}) \cup
                       {[call EXCEPT !.todo = @ \ {pair}, !.refused = TRUE]}

AreaCallFails == Blocks("area") /\ calls # {} /\ calls' = {} /\ UNCHANGED server

AreaAnswer ==
    \E call \in calls :
        \/ AreaSaved(call) \/ SpacesSaved(call) \/ PlanSaved(call)
        \/ AttributeSaved(call) \/ AttributesSaved(call)
        \/ SpacesLoaded(call) \/ AreaLoaded(call) \/ AreaDeleted(call)
        \/ AreaCallRefused(call) \/ AttributeRefused(call)

AreaAdmin ==
    \/ EditForm \/ ChooseFile \/ EditDesign \/ AddSpace
    \/ \E type \in {"upload", "designed"} : ChooseType(type)
    \/ \E i \in 0 .. Len(state.items) : SelectArea(i)
    \/ \E by \in {-1, 1} : MoveSpace(by)
    \/ OpenDetails \/ CloseDetails \/ EditSpace
    \/ \E value \in Values \cup {Unset} : EditSpaceAttribute(value)
    \/ CopySpace \/ DeleteSpace
    \/ \E scale \in 1 .. 2 : SetMapScale(scale)
    \/ \E a \in Attributes : DeleteAttribute(a)
    \/ \E a \in Attributes, value \in Values : SetAttribute(a, value)
    \/ GoBack \/ AskDelete \/ SubmitArea
    \/ \E yes \in BOOLEAN : ConfirmDialog(yes)

AreaNext == (page = "area" /\ (AreaAdmin \/ AreaAnswer)) \/ AreaCallFails

AreaSpec == AreaInit /\ [][AreaNext]_webVars

-----------------------------------------------------------------------------
(* For a careful admin, whatever the database has otherwise than the page  *)
(* shows it will be sent with the next save, and Back asks before spaces   *)
(* are lost, whichever call of a chain was refused and wherever the chain  *)
(* was when the page was left alone.  Rows of the spaces that failed one   *)
(* by one are lost: the page marks all as saved.                           *)
NothingLost ==
    page = "area" /\ state.careful /\ calls = {} /\ ~blocked /\ ~state.gone
    /\ ~state.loading /\ ~state.unstored
    =>
    LET items == state.items
        shown == {items[i].row : i \in DOMAIN items}
        data(i) == Row(items[i].place, items[i].look, state.heap[items[i].object])
    IN
    /\ \A i \in DOMAIN items :
          \/ items[i].changed
          \/ items[i].row # 0 /\ server.rows[items[i].row] = data(i)
    /\ \A r \in Ids : server.rows[r] # NoRow => r \in shown \cup state.dropped
    /\ (\E i \in DOMAIN items : items[i].changed) \/ state.dropped # {}
       => state.changed
    /\ \A a \in Attributes :
          server.attrs[a] # state.attrs[a]
          => a \in state.changedAttrs \cup state.droppedAttrs
=============================================================================
