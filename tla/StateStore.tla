------------------------------ MODULE StateStore ------------------------------
(***************************************************************************)
(* The names a program works on: its value table, made anew for every run, *)
(* and the state slots of the session, which outlive the run.  Both own    *)
(* the tensors they hold and close what they replace.                      *)
(*                                                                         *)
(* A value is [kind, id, data]: id is the tensor's, 0 for a host value.    *)
(* data is what the properties need: tokens, a length, a position, the     *)
(* deltas applied to the latents, the page table, the contents of the      *)
(* cache.  The key and value halves of the cache are always passed and     *)
(* updated together, and one stands for both.  An id that no name holds    *)
(* any more is reused.                                                     *)
(***************************************************************************)
EXTENDS Integers, Sequences, SequencesExt, FiniteSets, FiniteSetsExt, Functions

CONSTANTS TensorIds, PageSize, Positions, NoToken

ASSUME StoreAssumption ==
    /\ TensorIds \subseteq Nat \ {0}
    /\ PageSize \in Nat \ {0}
    /\ Positions \in Nat \ {0}

HostValue(kind, data)  == [kind |-> kind, id |-> 0, data |-> data]
TensorValue(id, data)  == [kind |-> "tensor", id |-> id, data |-> data]

\* NewStateStore and MaterializeStateTensors: what a declared slot starts as.
Materialized(type, id) ==
    CASE type = "counter"      -> HostValue("counter", 0)
      [] type = "tensor"       -> TensorValue(id, 0)
      [] type = "page_table"   -> HostValue("table", <<>>)
      [] type = "paged_tensor" -> HostValue("paged", [p \in 0..(Positions - 1) |-> NoToken])

\* declarations is a sequence of <<name, type>>.
NewState(declarations) ==
    [n \in {d[1] : d \in ToSet(declarations)} |->
       LET i == CHOOSE i \in DOMAIN declarations : declarations[i][1] = n
       IN  Materialized(declarations[i][2], i)]

\* The tensors a table holds.
IdsIn(table) == {table[n].id : n \in DOMAIN table} \ {0}

\* Only tensors that some name still holds are remembered as closed.
Env(values, slots, closed) ==
    [values |-> values, slots |-> slots,
     closed |-> closed \cap (IdsIn(values) \cup IdsIn(slots))]

NoValues == [n \in {} |-> 0]

NewRun(slots) == Env(NoValues, slots, {})

ValueIds(e) == IdsIn(e.values)
SlotIds(e)  == IdsIn(e.slots)

\* A second tensor, uploaded before the ones in held are stored.
UploadAlso(e, held, data) ==
    TensorValue(Min(TensorIds \ (held \cup ValueIds(e) \cup SlotIds(e))), data)

\* Upload: a tensor no name holds yet.
Upload(e, data) == UploadAlso(e, {}, data)

\* What closing the value a name held so far closes, when v replaces it.
Replaced(previous, v) == IF previous.id # v.id THEN {previous.id} ELSE {}

Update(f, name, v) == [n \in DOMAIN f \cup {name} |-> IF n = name THEN v ELSE f[n]]

\* Fault: what was there is closed even if it is what is stored.
SetReferenceAlwaysClosing(e, name, v) ==
    Env(e.values, Update(e.slots, name, v), e.closed \cup {e.slots[name].id})

\* SetReference: the slot's tensor is closed unless it stays.
SetReference(e, name, v) ==
    Env(e.values, Update(e.slots, name, v), e.closed \cup Replaced(e.slots[name], v))

\* setRuntimeValue
SetValue(e, name, v) ==
    Env(Update(e.values, name, v), e.slots,
        e.closed \cup (IF name \in DOMAIN e.values THEN Replaced(e.values[name], v) ELSE {}))

DropValue(e, name) ==
    Env(Restrict(e.values, DOMAIN e.values \ {name}), e.slots, e.closed)

\* A name that begins with "state." is a slot.
Write(e, name, v) ==
    IF name \in DOMAIN e.slots THEN SetReference(e, name, v) ELSE SetValue(e, name, v)

\* resolveValue
Known(e, name) == name \in DOMAIN e.slots \cup DOMAIN e.values
Lookup(e, name) == IF name \in DOMAIN e.slots THEN e.slots[name] ELSE e.values[name]

\* Reading a closed tensor is an error.
Readable(e, name) == Known(e, name) /\ Lookup(e, name).id \notin e.closed

\* closeRuntimeValues at the end of a run: everything but the state's tensors.
CloseRun(e) ==
    Env(NoValues, e.slots, e.closed \cup (ValueIds(e) \ SlotIds(e)))

-----------------------------------------------------------------------------
(* BuildPagedPlan                                                          *)

\* Where the k-th of the next tokens goes.
PlanPages(start, n)   == [k \in 1..n |-> (start + k - 1) \div PageSize]
PlanOffsets(start, n) == [k \in 1..n |-> (start + k - 1) % PageSize]

\* Fault: the table ends with the page the batch begins in.
PlanTableToStart(start, n) == [p \in 1..(start \div PageSize + 1) |-> p - 1]

\* Every page up to that of the last token.
PlanTable(start, n) == [p \in 1..((start + n - 1) \div PageSize + 1) |-> p - 1]
=============================================================================
