--------------------------- MODULE PromotionPanel ---------------------------
(***************************************************************************)
(* The restaurant's table of promotions, as its panel changes it.  Saving  *)
(* one replaces the whole row and then makes room for it: running          *)
(* promotions with the same targets are stopped or lose those targets, one *)
(* write at a time.  Orders count their use in the same rows meanwhile.    *)
(***************************************************************************)
EXTENDS Promotions

CONSTANTS Manager,    \* people at the panel
          PromoId,    \* bound: promotions
          Form,       \* what may be filled in
          MaxDay      \* bound: days

VARIABLES promos,     \* the table, newest first
          panel,      \* of each manager: the request being served
          day         \* the day

panelVars == <<promos, panel, day>>

(* The handler's checks of a form; targets that do not apply are emptied.  *)
Fields == [type : Type, unit : {"percent", "amount"}, value : Nat \ {0}, min : Nat, max : Nat,
           previous : Nat, products : SUBSET Product, categories : SUBSET Category,
           whole : BOOLEAN, start : Int, end : Int, active : BOOLEAN]
IsValidForm(f) ==
  /\ f \in Fields
  /\ f.type = "percent" => f.unit = "percent"
  /\ f.type = "fixed_amount" => f.unit = "amount"
  /\ f.unit = "percent" => f.value <= 100
  /\ f.whole \/ f.products # {} \/ f.categories # {}
  /\ f.start <= f.end

ASSUME FormsAreValid == \A f \in Form : IsValidForm(f)
ASSUME BoundOfDays == MaxDay \in Nat

Row(id, form, used) ==
  [x \in {"id", "used"} \cup DOMAIN form |->
     IF x = "id" THEN id ELSE IF x = "used" THEN used ELSE form[x]]
Ids == {promos[i].id : i \in DOMAIN promos}

(* ReplaceOne with upsert; a new row comes first.                          *)
Saved(row) ==
  IF row.id \in Ids
  THEN [i \in DOMAIN promos |-> IF promos[i].id = row.id THEN row ELSE promos[i]]
  ELSE <<row>> \o promos

NoRequest == [pc |-> "idle"]

PanelTypeOK ==
  /\ \A i, j \in DOMAIN promos : promos[i].id = promos[j].id => i = j
  /\ \A p \in ToSet(promos) : p.id \in PromoId /\ p.used \in Nat
  /\ \A m \in Manager : panel[m].pc \in {"idle", "save", "list", "write"}
  /\ day \in 0..MaxDay

PanelInit == promos = <<>> /\ panel = [m \in Manager |-> NoRequest] /\ day = 0

-----------------------------------------------------------------------------
(* What is left of another promotion when a new one takes its targets.     *)
WithoutTargets(other, incoming) ==
  IF incoming.whole \/ other.whole THEN [other EXCEPT !.active = FALSE]
  ELSE [other EXCEPT !.products = @ \ incoming.products,
                     !.categories = @ \ incoming.categories]

InTheWay(incoming) ==
  Kept(promos, {i \in DOMAIN promos : LET p == promos[i] IN
                  /\ p.id # incoming.id /\ ComputeStatus(p, day) = "active"
                  /\ WithoutTargets(p, incoming) # p})

-----------------------------------------------------------------------------
(* POST /restaurants/{id}/promotions: an edit takes the use counted so far *)
(* from the row it read, in a step before the write; from no row if the    *)
(* read failed.                                                            *)
ReadPromotion(m) ==
  /\ panel[m].pc = "idle"
  /\ \E id \in PromoId, f \in Form :
       \E used \in {0} \cup {p.used : p \in {q \in ToSet(promos) : q.id = id}} :
         panel' = [panel EXCEPT ![m] = [pc |-> "save", row |-> Row(id, f, used)]]
  /\ UNCHANGED <<promos, day>>

SavePromotion(m) ==
  /\ panel[m].pc = "save"
  /\ promos' = Saved(panel[m].row)
  /\ panel' = [panel EXCEPT ![m] = IF @.row.active THEN [@ EXCEPT !.pc = "list"] ELSE NoRequest]
  /\ UNCHANGED day

ListOthers(m) ==
  /\ panel[m].pc = "list"
  /\ LET incoming == panel[m].row
         others == InTheWay(incoming)
     IN  panel' = [panel EXCEPT ![m] =
           [pc |-> "write", row |-> incoming,
            queue |-> [i \in DOMAIN others |-> WithoutTargets(others[i], incoming)]]]
  /\ UNCHANGED <<promos, day>>

(* A write that fails is skipped.                                          *)
WriteOther(m) ==
  /\ panel[m].pc = "write" /\ panel[m].queue # <<>>
  /\ LET other == Head(panel[m].queue)
     IN  \/ /\ promos' = Saved(other)
            /\ panel' = [panel EXCEPT ![m].queue = Tail(@)]
         \/ /\ panel' = [panel EXCEPT ![m].queue = Tail(@)]
            /\ UNCHANGED promos
  /\ UNCHANGED day

PromotionSaved(m) ==
  /\ panel[m].pc = "write" /\ panel[m].queue = <<>>
  /\ panel' = [panel EXCEPT ![m] = NoRequest]
  /\ UNCHANGED <<promos, day>>

DeletePromotion(m) ==
  /\ panel[m].pc = "idle"
  /\ \E id \in Ids : promos' = Kept(promos, {i \in DOMAIN promos : promos[i].id # id})
  /\ UNCHANGED <<panel, day>>

NextDay ==
  /\ day < MaxDay
  /\ day' = day + 1
  /\ UNCHANGED <<promos, panel>>

(* IncrementUsage: the row's counter alone, if the row is still there.     *)
IncrementUsage(id) ==
  promos' = [i \in DOMAIN promos |->
               IF promos[i].id = id THEN [promos[i] EXCEPT !.used = @ + 1] ELSE promos[i]]

PanelNext ==
  \/ \E m \in Manager : \/ ReadPromotion(m) \/ SavePromotion(m) \/ ListOthers(m)
                        \/ WriteOther(m) \/ PromotionSaved(m) \/ DeletePromotion(m)
  \/ NextDay
=============================================================================
