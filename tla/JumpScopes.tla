----------------------------- MODULE JumpScopes -----------------------------
(* The scopes and labels of one function while its statements are lowered to *)
(* GENERIC (gcc/d/d-codegen.cc, called by the visitors of gcc/d/toir.cc).    *)
(* Each statement that has a scope pushes a binding level and pops it; a     *)
(* goto, a switch and a label leave an entry in cfun->language->labels.  The *)
(* code checks, in one pass and without the syntax tree, that no jump enters *)
(* a try or a catch block.                                                   *)
EXTENDS Naturals, Sequences, SequencesExt, FiniteSets

CONSTANTS
    Labels,      \* LabelStatements, CaseStatements and DefaultStatements
    MaxLevels,   \* bound: binding levels made in the function
    MaxDepth,    \* bound: binding levels open at once
    MaxJumps     \* bound: gotos and switch jumps in the function

ASSUME BoundsAssumption ==
    MaxLevels \in Nat \ {0} /\ MaxDepth \in Nat \ {0} /\ MaxJumps \in Nat \ {0}

(* level_block stands for the kinds that no check looks at: block, finally,  *)
(* cond, switch, loop and with.                                              *)
Kinds == {"level_block", "level_try", "level_catch"}
Guarded == {"level_try", "level_catch"}

VARIABLES
    scopes,    \* the binding levels from level_function to current_binding_level
    made,      \* how many binding levels were made; a level is named by its number
    labels,    \* cfun->language->labels
    jumps,     \* every jump seen: its target, and the scopes it was made in
    places,    \* the scopes each defined label stands in
    errors,    \* the jumps for which an error was reported
    closed     \* jumps to undefined labels during which a scope was popped

vars == <<scopes, made, labels, jumps, places, errors, closed>>

Level(k, n) == [kind |-> k, id |-> n]
Current == Last(scopes)

(* d_label_entry: level is 0 until the label is defined, then DECL_INITIAL   *)
(* is set; fwdrefs holds the jumps that wait for the definition, each with   *)
(* the level it is believed to stand in.                                     *)
NoEntry == [level |-> 0, in_try_scope |-> FALSE, in_catch_scope |-> FALSE, fwdrefs |-> {}]

Init ==
    /\ scopes = <<Level("level_function", 1)>>
    /\ made = 1
    /\ labels = [l \in Labels |-> NoEntry]
    /\ jumps = <<>>
    /\ places = [l \in Labels |-> {}]
    /\ errors = {}
    /\ closed = {}

(* IRVisitor::start_scope, push_binding_level *)
PushLevel(k) ==
    /\ made < MaxLevels /\ Len(scopes) < MaxDepth
    /\ scopes' = Append(scopes, Level(k, made + 1))
    /\ made' = made + 1
    /\ UNCHANGED <<labels, jumps, places, errors, closed>>

(* pop_binding_label: what leaving the level bl for obl does to one entry    *)
PopBindingLabel_RefsStay(ent, bl, obl) ==       \* seeded fault: pending jumps are not moved
    IF ent.level = bl.id
    THEN [ent EXCEPT !.in_try_scope = @ \/ bl.kind = "level_try",
                     !.in_catch_scope = @ \/ bl.kind = "level_catch",
                     !.level = obl.id]
    ELSE ent
PopBindingLabel_LastKind(ent, bl, obl) ==       \* seeded fault: flags are set, not added
    IF ent.level = bl.id
    THEN [ent EXCEPT !.in_try_scope = bl.kind = "level_try",
                     !.in_catch_scope = bl.kind = "level_catch",
                     !.level = obl.id]
    ELSE [ent EXCEPT !.fwdrefs = {[ref EXCEPT !.level = obl.id] : ref \in @}]
PopBindingLabel(ent, bl, obl) ==
    IF ent.level = bl.id
    THEN [ent EXCEPT !.in_try_scope = @ \/ bl.kind = "level_try",
                     !.in_catch_scope = @ \/ bl.kind = "level_catch",
                     !.level = obl.id]
    ELSE [ent EXCEPT !.fwdrefs = {[ref EXCEPT !.level = obl.id] : ref \in @}]

(* IRVisitor::end_scope, pop_binding_level *)
PopLevel ==
    /\ Len(scopes) > 1
    /\ scopes' = Front(scopes)
    /\ labels' = [l \in Labels |-> PopBindingLabel(labels[l], Current, Last(Front(scopes)))]
    /\ closed' = closed \cup {j \in DOMAIN jumps : labels[jumps[j].to].level = 0}
    /\ UNCHANGED <<made, jumps, places, errors>>

(* check_goto, from GotoStatement and from each case of SwitchStatement: a   *)
(* jump to a label already defined is judged by the flags of the label, one  *)
(* to a label not yet defined is remembered.                                 *)
Goto(l) ==
    LET j == Len(jumps) + 1
        ent == labels[l]
    IN  /\ j <= MaxJumps
        /\ jumps' = Append(jumps, [to |-> l, from |-> ToSet(scopes), forward |-> ent.level = 0])
        /\ IF ent.level = 0
           THEN /\ labels' = [labels EXCEPT ![l].fwdrefs = @ \cup {[level |-> Current.id, jump |-> j]}]
                /\ errors' = errors
           ELSE /\ errors' = errors \cup (IF ent.in_try_scope \/ ent.in_catch_scope THEN {j} ELSE {})
                /\ labels' = labels
        /\ UNCHANGED <<scopes, made, places, closed>>

(* check_previous_goto: the levels walked from current_binding_level outward *)
(* until the one the jump is believed to stand in                            *)
CheckPreviousGoto_Current(ref) ==       \* seeded fault: one level is looked at
    Current.kind \in Guarded /\ Current.id # ref.level
CheckPreviousGoto(ref) ==
    \E i \in DOMAIN scopes :
        /\ scopes[i].kind \in Guarded
        /\ \A k \in i .. Len(scopes) : scopes[k].id # ref.level

(* define_label, from LabelStatement, CaseStatement and DefaultStatement *)
DefineLabel(l) ==
    /\ labels[l].level = 0
    /\ labels' = [labels EXCEPT ![l].level = Current.id, ![l].fwdrefs = {}]
    /\ errors' = errors \cup {ref.jump : ref \in {r \in labels[l].fwdrefs : CheckPreviousGoto(r)}}
    /\ places' = [places EXCEPT ![l] = ToSet(scopes)]
    /\ UNCHANGED <<scopes, made, jumps, closed>>

(* The function ends with every label defined: semantic analysis has refused *)
(* a goto to an undefined label.                                             *)
Done ==
    /\ Len(scopes) = 1
    /\ \A j \in DOMAIN jumps : labels[jumps[j].to].level # 0
    /\ UNCHANGED vars

Next ==
    \/ \E k \in Kinds : PushLevel(k)
    \/ PopLevel
    \/ \E l \in Labels : Goto(l) \/ DefineLabel(l)
    \/ Done

Spec == Init /\ [][Next]_vars
-----------------------------------------------------------------------------
Scope == [kind : Kinds \cup {"level_function"}, id : Nat]
TypeOK ==
    /\ made \in Nat
    /\ scopes \in Seq(Scope) /\ Len(scopes) > 0
    /\ labels \in [Labels -> [level : Nat, in_try_scope : BOOLEAN, in_catch_scope : BOOLEAN,
                              fwdrefs : SUBSET [level : Nat, jump : Nat]]]
    /\ jumps \in Seq([to : Labels, from : SUBSET Scope, forward : BOOLEAN])
    /\ places \in [Labels -> SUBSET Scope]
    /\ errors \subseteq DOMAIN jumps

(* What the jump really does: it enters a try or a catch block.              *)
Resolved(j) == labels[jumps[j].to].level # 0
Enters(j) == \E s \in places[jumps[j].to] \ jumps[j].from : s.kind \in Guarded

(* No legal jump is refused, whatever scopes were opened and closed between  *)
(* the jump and the definition of its label: pop_binding_label moves the     *)
(* pending jump outward with the scopes that end.                            *)
LegalJumpsAccepted == \A j \in errors : Resolved(j) /\ Enters(j)

(* A jump back into a try or catch block that has ended is reported: the     *)
(* flags of a label outlive the scopes it stood in.                          *)
BackwardJumpsChecked ==
    \A j \in DOMAIN jumps : ~jumps[j].forward /\ Enters(j) => j \in errors

(* A jump forward into a try or catch block is reported when its label is    *)
(* defined, provided no scope at all ended in between.                       *)
ForwardJumpsChecked ==
    \A j \in DOMAIN jumps \ closed :
        jumps[j].forward /\ Resolved(j) /\ Enters(j) => j \in errors

(* toir.cc: "Need to error if the goto is jumping into a try or catch        *)
(* block."  It does not, for a jump forward past the end of a scope inside   *)
(* the block: pop_binding_label moves every pending jump of the label into   *)
(* the scope around the one that ends, and with it the jumps that were made  *)
(* outside of both.                                                          *)
EveryJumpChecked ==
    \A j \in DOMAIN jumps : Resolved(j) /\ Enters(j) => j \in errors
=============================================================================
