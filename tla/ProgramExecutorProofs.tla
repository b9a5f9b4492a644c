------------------------ MODULE ProgramExecutorProofs ------------------------
(***************************************************************************)
(* Proofs about the program executor (src/runtime) and the shipped         *)
(* programs, for every number of turns, runs, pages, prompts and           *)
(* inference steps.                                                        *)
(*                                                                         *)
(* Every program: the stack of frames stays nested in the program's text,  *)
(* every name a step writes is one the program declares or assigns, and    *)
(* no open tensor has two names; so none is closed while a name holds it.  *)
(* The chat program: the page table, the pages and the position agree at   *)
(* every stage of a turn.  The diffusion program: the latents hold the     *)
(* deltas up to the step counter at every place of the loop.               *)
(***************************************************************************)
EXTENDS RuntimePrograms, FiniteSetTheorems, SequenceTheorems, WellFoundedInduction, TLAPS
------------------------------------------------------------------------------
(* Tensors and the names that hold them.                                     *)

\* A table in which no tensor has two names.
OneNameEach(table) ==
  \A m, n \in DOMAIN table : m # n /\ table[m].id # 0 => table[m].id # table[n].id

\* Two tables that share no tensor.
HoldApart(s, t) == IdsIn(s) \cap IdsIn(t) = {}

\* Every tensor has one name, and none is closed.
Owns(program, e) ==
  /\ e = [values |-> e.values, slots |-> e.slots, closed |-> {}]
  /\ DOMAIN e.slots = Declared(program)
  /\ DOMAIN e.values \subseteq Assigned(program)
  /\ OneNameEach(e.slots) /\ OneNameEach(e.values) /\ HoldApart(e.slots, e.values)

\* An environment is owned by its program when its two tables are.
LEMMA TablesOwned ==
  ASSUME NEW program, NEW values, NEW slots,
         DOMAIN slots = Declared(program), DOMAIN values \subseteq Assigned(program),
         OneNameEach(slots), OneNameEach(values), HoldApart(slots, values),
         NEW e, e = [values |-> values, slots |-> slots, closed |-> {}]
  PROVE  Owns(program, e) /\ e.slots = slots /\ e.values = values
<1>1. e.slots = slots /\ e.values = values
  OBVIOUS
<1>2. e = [values |-> e.values, slots |-> e.slots, closed |-> {}]
  OBVIOUS
<1> QED
  BY <1>1, <1>2 DEF Owns

\* A tensor no name of e holds, or no tensor.
IsFresh(e, v) == v.id \notin IdsIn(e.slots) \cup IdsIn(e.values)

LEMMA HeldIds ==
  ASSUME NEW table, NEW name \in DOMAIN table
  PROVE  table[name].id # 0 => table[name].id \in IdsIn(table)
BY DEF IdsIn

\* What a table holds after one of its names was given another value.
LEMMA UpdatedIds ==
  ASSUME NEW table, NEW name, NEW v, OneNameEach(table)
  PROVE  /\ DOMAIN Update(table, name, v) = DOMAIN table \cup {name}
         /\ IdsIn(Update(table, name, v)) \subseteq IdsIn(table) \cup ({v.id} \ {0})
         /\ v.id # 0 => v.id \in IdsIn(Update(table, name, v))
         /\ name \in DOMAIN table /\ table[name].id # v.id =>
              table[name].id \notin IdsIn(Update(table, name, v))
<1> DEFINE new == Update(table, name, v)
<1>1. /\ DOMAIN new = DOMAIN table \cup {name}
      /\ \A n \in DOMAIN new : new[n] = IF n = name THEN v ELSE table[n]
  BY DEF Update
<1> HIDE DEF new
<1>2. IdsIn(new) \subseteq IdsIn(table) \cup ({v.id} \ {0})
  BY <1>1 DEF IdsIn
<1>3. v.id # 0 => v.id \in IdsIn(new)
  BY <1>1 DEF IdsIn
<1>4. ASSUME name \in DOMAIN table, table[name].id # v.id, table[name].id \in IdsIn(new)
      PROVE  FALSE
  <2>1. PICK n \in DOMAIN new : new[n].id = table[name].id /\ table[name].id # 0
    BY <1>4 DEF IdsIn
  <2>2. n # name /\ n \in DOMAIN table /\ new[n] = table[n]
    BY <1>1, <1>4, <2>1
  <2> QED
    BY <1>4, <2>1, <2>2 DEF OneNameEach
<1> QED
  BY <1>1, <1>2, <1>3, <1>4 DEF new

\* A name may be given a tensor no other name of the table holds.
LEMMA UpdatedOnce ==
  ASSUME NEW table, NEW name, NEW v, OneNameEach(table),
         \/ v.id = 0 \/ v.id \notin IdsIn(table)
         \/ name \in DOMAIN table /\ v.id = table[name].id
  PROVE  OneNameEach(Update(table, name, v))
<1> PICK new : new = Update(table, name, v)
  OBVIOUS
<1>1. /\ DOMAIN new = DOMAIN table \cup {name}
      /\ \A n \in DOMAIN new : new[n] = IF n = name THEN v ELSE table[n]
  BY DEF Update
<1>2. \A n \in DOMAIN table : n # name /\ v.id # 0 => table[n].id # v.id
  <2> SUFFICES ASSUME NEW n \in DOMAIN table, n # name, v.id # 0, table[n].id = v.id
               PROVE  FALSE
    OBVIOUS
  <2>1. v.id \in IdsIn(table)
    BY HeldIds
  <2> QED
    BY <2>1 DEF OneNameEach
<1>3. \A m, n \in DOMAIN new : m # n /\ new[m].id # 0 => new[m].id # new[n].id
  <2> SUFFICES ASSUME NEW m \in DOMAIN new, NEW n \in DOMAIN new, m # n, new[m].id # 0
               PROVE  new[m].id # new[n].id
    OBVIOUS
  <2>1. CASE m = name
    BY <1>1, <1>2, <2>1
  <2>2. CASE n = name
    BY <1>1, <1>2, <2>2
  <2>3. CASE m # name /\ n # name
    BY <1>1, <2>3 DEF OneNameEach
  <2> QED
    BY <2>1, <2>2, <2>3
<1> QED
  BY <1>3 DEF OneNameEach

\* What may be stored under a name that holds the tensor old: a host value, a
\* fresh tensor, or, unless it was closed, the old one. closed are the tensors
\* the operation has closed itself.
MayStore(e, closed, old, v) ==
  /\ closed \subseteq {old}
  /\ \/ v.id = 0
     \/ IsFresh(e, v)
     \/ v.id = old /\ closed = {}

LEMMA SetReferenceOwns ==
  ASSUME NEW program, NEW e, Owns(program, e), NEW name \in Declared(program),
         NEW closed, NEW v, MayStore(e, closed, e.slots[name].id, v)
  PROVE  /\ Owns(program, SetReference(Env(e.values, e.slots, closed), name, v))
         /\ SetReference(Env(e.values, e.slots, closed), name, v).values = e.values
         /\ SetReference(Env(e.values, e.slots, closed), name, v).slots = Update(e.slots, name, v)
<1> PICK old : old = e.slots[name].id
  OBVIOUS
<1> PICK slots : slots = Update(e.slots, name, v)
  OBVIOUS
<1> PICK values : values = e.values
  OBVIOUS
<1> PICK c : c = Env(e.values, e.slots, closed).closed
  OBVIOUS
<1> PICK all : all = c \cup Replaced(e.slots[name], v)
  OBVIOUS
<1>1. name \in DOMAIN e.slots /\ OneNameEach(e.slots) /\ DOMAIN e.slots = Declared(program)
      /\ OneNameEach(values) /\ HoldApart(e.slots, values) /\ DOMAIN values \subseteq Assigned(program)
  BY DEF Owns
<1>2. c = closed \cap (IdsIn(values) \cup IdsIn(e.slots))
  BY DEF Env
<1>3. SetReference(Env(e.values, e.slots, closed), name, v) = Env(values, slots, all)
  BY DEF SetReference, Env
<1>4. /\ DOMAIN slots = DOMAIN e.slots
      /\ IdsIn(slots) \subseteq IdsIn(e.slots) \cup ({v.id} \ {0})
      /\ old # v.id => old \notin IdsIn(slots)
  <2>1. /\ DOMAIN slots = DOMAIN e.slots \cup {name}
        /\ IdsIn(slots) \subseteq IdsIn(e.slots) \cup ({v.id} \ {0})
        /\ e.slots[name].id # v.id => e.slots[name].id \notin IdsIn(slots)
    BY <1>1, UpdatedIds
  <2>2. DOMAIN e.slots \cup {name} = DOMAIN e.slots
    BY <1>1
  <2> QED
    BY <2>1, <2>2
<1>5. old # 0 => old \in IdsIn(e.slots)
  BY <1>1, HeldIds
<1>6. OneNameEach(slots)
  BY <1>1, UpdatedOnce DEF MayStore, IsFresh
<1>7. HoldApart(slots, values)
  BY <1>1, <1>4, <1>5 DEF MayStore, IsFresh, HoldApart
<1>8. all \cap (IdsIn(values) \cup IdsIn(slots)) = {}
  <2>1. all \subseteq {old} /\ (v.id = old => all \ {0} = {})
    <3>1. closed \subseteq {old}
      BY DEF MayStore
    <3>2. v.id = old => closed \ {0} = {}
      <4> SUFFICES ASSUME v.id = old, old # 0 PROVE closed = {}
        BY <3>1
      <4>1. ~IsFresh(e, v)
        BY <1>5 DEF IsFresh
      <4> QED
        BY <4>1 DEF MayStore
    <3>3. Replaced(e.slots[name], v) = IF old # v.id THEN {old} ELSE {}
      BY DEF Replaced
    <3> QED
      BY <1>2, <3>1, <3>2, <3>3
  <2>2. 0 \notin IdsIn(values) \cup IdsIn(slots)
    BY DEF IdsIn
  <2>3. old # 0 => old \notin IdsIn(values)
    BY <1>1, <1>5 DEF HoldApart
  <2> QED
    BY <1>4, <2>1, <2>2, <2>3
<1>9. Env(values, slots, all) = [values |-> values, slots |-> slots, closed |-> {}]
  BY <1>8 DEF Env
<1>10. DOMAIN values \subseteq Assigned(program) /\ OneNameEach(values)
  BY <1>1
<1>11. DOMAIN slots = Declared(program) /\ OneNameEach(slots)
  BY <1>1, <1>4, <1>6
<1> PICK after : after = Env(values, slots, all)
  OBVIOUS
<1>12. Owns(program, after) /\ after.slots = slots /\ after.values = values
  BY <1>7, <1>9, <1>10, <1>11, TablesOwned
<1> QED
  BY <1>3, <1>12

LEMMA SetValueOwns ==
  ASSUME NEW program, NEW e, Owns(program, e), NEW name \in Assigned(program),
         NEW closed, NEW v,
         IF name \in DOMAIN e.values THEN MayStore(e, closed, e.values[name].id, v)
                                     ELSE MayStore(e, closed, 0, v)
  PROVE  /\ Owns(program, SetValue(Env(e.values, e.slots, closed), name, v))
         /\ SetValue(Env(e.values, e.slots, closed), name, v).slots = e.slots
         /\ SetValue(Env(e.values, e.slots, closed), name, v).values = Update(e.values, name, v)
<1> PICK old : old = IF name \in DOMAIN e.values THEN e.values[name].id ELSE 0
  OBVIOUS
<1> PICK slots : slots = e.slots
  OBVIOUS
<1> PICK values : values = Update(e.values, name, v)
  OBVIOUS
<1> PICK c : c = Env(e.values, e.slots, closed).closed
  OBVIOUS
<1> PICK replaced : replaced = IF name \in DOMAIN e.values THEN Replaced(e.values[name], v) ELSE {}
  OBVIOUS
<1> PICK all : all = c \cup replaced
  OBVIOUS
<1>1. /\ OneNameEach(e.values) /\ DOMAIN e.values \subseteq Assigned(program)
      /\ OneNameEach(slots) /\ HoldApart(slots, e.values) /\ DOMAIN slots = Declared(program)
      /\ MayStore(e, closed, old, v)
  BY DEF Owns
<1>2. c = closed \cap (IdsIn(e.values) \cup IdsIn(slots))
  BY DEF Env
<1>3. SetValue(Env(e.values, e.slots, closed), name, v) = Env(values, slots, all)
  BY DEF SetValue, Env
<1>4. /\ DOMAIN values = DOMAIN e.values \cup {name}
      /\ IdsIn(values) \subseteq IdsIn(e.values) \cup ({v.id} \ {0})
      /\ old # v.id => old \notin IdsIn(values)
  <2>1. 0 \notin IdsIn(values)
    BY DEF IdsIn
  <2> QED
    BY <1>1, <2>1, UpdatedIds
<1>5. old # 0 => old \in IdsIn(e.values) /\ name \in DOMAIN e.values
  BY <1>1, HeldIds
<1>6. OneNameEach(values)
  BY <1>1, <1>5, UpdatedOnce DEF MayStore, IsFresh
<1>7. HoldApart(slots, values)
  BY <1>1, <1>4, <1>5 DEF MayStore, IsFresh, HoldApart
<1>8. all \cap (IdsIn(values) \cup IdsIn(slots)) = {}
  <2>1. all \subseteq {old} /\ (v.id = old => all \ {0} = {})
    <3>1. closed \subseteq {old}
      BY <1>1 DEF MayStore
    <3>2. v.id = old => closed \ {0} = {}
      <4> SUFFICES ASSUME v.id = old, old # 0 PROVE closed = {}
        BY <3>1
      <4>1. ~IsFresh(e, v)
        BY <1>5 DEF IsFresh
      <4> QED
        BY <1>1, <4>1 DEF MayStore
    <3>3. replaced \subseteq IF old # v.id THEN {old} ELSE {}
      BY DEF Replaced
    <3> QED
      BY <1>2, <3>1, <3>2, <3>3
  <2>2. 0 \notin IdsIn(values) \cup IdsIn(slots)
    BY DEF IdsIn
  <2>3. old # 0 => old \notin IdsIn(slots)
    BY <1>1, <1>5 DEF HoldApart
  <2> QED
    BY <1>4, <2>1, <2>2, <2>3
<1>9. Env(values, slots, all) = [values |-> values, slots |-> slots, closed |-> {}]
  BY <1>8 DEF Env
<1>10. DOMAIN values \subseteq Assigned(program) /\ OneNameEach(values)
  BY <1>1, <1>4, <1>6
<1>11. DOMAIN slots = Declared(program) /\ OneNameEach(slots)
  BY <1>1
<1> PICK after : after = Env(values, slots, all)
  OBVIOUS
<1>12. Owns(program, after) /\ after.slots = slots /\ after.values = values
  BY <1>7, <1>9, <1>10, <1>11, TablesOwned
<1> QED
  BY <1>3, <1>12
------------------------------------------------------------------------------
(* Uploads.                                                                  *)

LEMMA LeastOf ==
  ASSUME NEW S \in SUBSET Nat, S # {}
  PROVE  Min(S) \in S
<1>1. PICK x \in S : \A y \in S : ~ (<<y, x>> \in OpToRel(<, Nat))
  BY NatLessThanWellFounded, WFMin
<1>2. \A y \in S : x <= y
  <2>1. \A y \in S : ~ (y < x)
    BY <1>1 DEF OpToRel
  <2> QED
    BY <2>1
<1> QED
  BY <1>2 DEF Min

\* A table does not hold more tensors than it has names.
LEMMA HeldTensorsAreFew ==
  ASSUME NEW table, IsFiniteSet(DOMAIN table)
  PROVE  /\ IsFiniteSet(IdsIn(table))
         /\ Cardinality(IdsIn(table)) <= Cardinality(DOMAIN table)
         /\ Cardinality(IdsIn(table)) \in Nat
<1> DEFINE ids == {table[n].id : n \in DOMAIN table}
           f   == [n \in DOMAIN table |-> table[n].id]
<1>1. f \in Surjection(DOMAIN table, ids)
  BY DEF Surjection
<1>2. IsFiniteSet(ids) /\ Cardinality(ids) <= Cardinality(DOMAIN table)
  BY <1>1, FS_Surjection
<1>3. IdsIn(table) \in SUBSET ids
  BY DEF IdsIn
<1> HIDE DEF ids
<1>4. IsFiniteSet(IdsIn(table)) /\ Cardinality(IdsIn(table)) <= Cardinality(ids)
  BY <1>2, <1>3, FS_Subset
<1>5. Cardinality(IdsIn(table)) \in Nat /\ Cardinality(ids) \in Nat /\ Cardinality(DOMAIN table) \in Nat
  BY <1>2, <1>4, FS_CardinalityType
<1> QED
  BY <1>2, <1>4, <1>5

\* There is a tensor for an upload, also while one that is not stored yet is held.
LEMMA UploadIsFresh ==
  ASSUME NEW program \in Programs, NEW e, Owns(program, e), NEW held, IsFiniteSet(held), Cardinality(held) <= 1,
         NEW data
  PROVE  /\ UploadAlso(e, held, data) \in [kind : {"tensor"}, id : TensorIds, data : {data}]
         /\ UploadAlso(e, held, data).id \notin held
         /\ IsFresh(e, UploadAlso(e, held, data))
         /\ UploadAlso(e, held, data).id # 0
<1> DEFINE taken == held \cup IdsIn(e.values) \cup IdsIn(e.slots)
           free  == TensorIds \ taken
<1>a. IsFiniteSet(Assigned(program)) /\ IsFiniteSet(Declared(program))
  BY TensorIdsAssumption, ProgramsAssumption DEF IsProgram
<1>b. DOMAIN e.values \in SUBSET Assigned(program) /\ DOMAIN e.slots = Declared(program)
  BY DEF Owns
<1>1. /\ IsFiniteSet(DOMAIN e.values) /\ Cardinality(DOMAIN e.values) <= Cardinality(Assigned(program))
      /\ Cardinality(DOMAIN e.values) \in Nat /\ Cardinality(Assigned(program)) \in Nat
      /\ Cardinality(Declared(program)) \in Nat
  BY <1>a, <1>b, FS_Subset, FS_CardinalityType
<1>2. /\ IsFiniteSet(IdsIn(e.values)) /\ Cardinality(IdsIn(e.values)) <= Cardinality(Assigned(program))
      /\ Cardinality(IdsIn(e.values)) \in Nat
  BY <1>1, HeldTensorsAreFew
<1>3. /\ IsFiniteSet(IdsIn(e.slots)) /\ Cardinality(IdsIn(e.slots)) <= Cardinality(Declared(program))
      /\ Cardinality(IdsIn(e.slots)) \in Nat
  BY <1>a, <1>b, HeldTensorsAreFew
<1>4. Cardinality(held) \in Nat
  BY FS_CardinalityType
<1>5. /\ IsFiniteSet(taken)
      /\ Cardinality(taken) <= Cardinality(Declared(program)) + Cardinality(Assigned(program)) + 1
  <2>1. /\ IsFiniteSet(held \cup IdsIn(e.values))
        /\ Cardinality(held \cup IdsIn(e.values)) <= 1 + Cardinality(Assigned(program))
        /\ Cardinality(held \cup IdsIn(e.values)) \in Nat
    <3>1. /\ IsFiniteSet(held \cup IdsIn(e.values))
          /\ Cardinality(held \cup IdsIn(e.values))
               = Cardinality(held) + Cardinality(IdsIn(e.values)) - Cardinality(held \cap IdsIn(e.values))
          /\ IsFiniteSet(held \cap IdsIn(e.values))
      BY <1>2, <1>4, FS_Union, FS_Intersection
    <3>2. Cardinality(held \cap IdsIn(e.values)) \in Nat /\ Cardinality(held \cup IdsIn(e.values)) \in Nat
      BY <3>1, FS_CardinalityType
    <3> QED
      BY <1>1, <1>2, <1>4, <3>1, <3>2
  <2> PICK u : u = held \cup IdsIn(e.values)
    OBVIOUS
  <2>2. /\ IsFiniteSet(u \cup IdsIn(e.slots))
        /\ Cardinality(u \cup IdsIn(e.slots))
             = Cardinality(u) + Cardinality(IdsIn(e.slots)) - Cardinality(u \cap IdsIn(e.slots))
        /\ IsFiniteSet(u \cap IdsIn(e.slots))
    BY <1>3, <2>1, FS_Union, FS_Intersection
  <2>3. Cardinality(u \cap IdsIn(e.slots)) \in Nat /\ Cardinality(u \cup IdsIn(e.slots)) \in Nat
    BY <2>2, FS_CardinalityType
  <2>4. Cardinality(u \cup IdsIn(e.slots)) <= Cardinality(Declared(program)) + Cardinality(Assigned(program)) + 1
    BY <1>1, <1>3, <2>1, <2>2, <2>3
  <2> QED
    BY <2>2, <2>4
<1> HIDE DEF taken
<1>6. free # {}
  <2> SUFFICES ASSUME TensorIds \in SUBSET taken PROVE FALSE
    OBVIOUS
  <2>1. IsFiniteSet(TensorIds) /\ Cardinality(TensorIds) <= Cardinality(taken)
    BY <1>5, FS_Subset
  <2>2. Cardinality(TensorIds) \in Nat /\ Cardinality(taken) \in Nat
    BY <1>5, <2>1, FS_CardinalityType
  <2>3. Cardinality(Declared(program)) + Cardinality(Assigned(program)) + 1 < Cardinality(TensorIds)
    BY <2>1, TensorIdsAssumption
  <2> QED
    BY <1>1, <1>5, <2>1, <2>2, <2>3
<1>7. free \in SUBSET Nat /\ 0 \notin free
  BY StoreAssumption
<1>8. Min(free) \in free
  BY <1>6, <1>7, LeastOf
<1>9. UploadAlso(e, held, data) = [kind |-> "tensor", id |-> Min(free), data |-> data]
  BY DEF UploadAlso, TensorValue, taken, ValueIds, SlotIds
<1> QED
  BY <1>7, <1>8, <1>9 DEF taken, IsFresh
------------------------------------------------------------------------------
(* Bodies being executed.                                                    *)

IsFrame(program, f) ==
  /\ f = [kind |-> f.kind, body |-> f.body, pc |-> f.pc, left |-> f.left, before |-> f.before]
  /\ f.body \in Seq(StepsOf(program))
  /\ f.pc \in 1..(Len(f.body) + 1)

\* g executes the body of the step at which f stands.
LoopOps == {"until_eof", "loop_count", "loop_each"}

Encloses(f, g) ==
  /\ f.pc <= Len(f.body)
  /\ f.body[f.pc].op \in LoopOps
  /\ g.kind = f.body[f.pc].op
  /\ g.body = f.body[f.pc].body

\* The stack of a run: the steps of the program, and in each frame the body of the
\* step at which the one below stands.
Nested(program, stack) ==
  /\ stack \in Seq(ToSet(stack)) /\ stack # <<>>
  /\ \A i \in 1..Len(stack) : IsFrame(program, stack[i])
  /\ stack[1].kind = "main" /\ stack[1].body = program.steps
  /\ \A i \in 1..(Len(stack) - 1) : Encloses(stack[i], stack[i + 1])

LEMMA ListIsSequence ==
  ASSUME NEW n \in Nat, NEW s, s = [i \in 1..n |-> s[i]]
  PROVE  s \in Seq(ToSet(s)) /\ Len(s) = n /\ DOMAIN s = 1..n
<1>1. \A i \in 1..n : s[i] \in ToSet(s)
  BY DEF ToSet
<1>2. s \in [1..n -> ToSet(s)]
  BY <1>1
<1> QED
  BY <1>2, SeqDef, LenProperties

LEMMA ListOfItsOwn ==
  ASSUME NEW T, NEW s \in Seq(T)
  PROVE  s \in Seq(ToSet(s))
<1>1. Len(s) \in Nat /\ DOMAIN s = 1..Len(s)
  BY LenProperties
<1>2. s = [i \in 1..Len(s) |-> s[i]]
  BY <1>1, SeqDef
<1> QED
  BY <1>1, <1>2, ListIsSequence

LEMMA ListOfFive ==
  ASSUME NEW a, NEW b, NEW c, NEW d, NEW e
  PROVE  LET s == <<a, b, c, d, e>>
         IN /\ Len(s) = 5 /\ s[1] = a /\ s[2] = b /\ s[3] = c /\ s[4] = d /\ s[5] = e
            /\ s \in Seq(ToSet(s))
<1> PICK s : s = <<a, b, c, d, e>>
  OBVIOUS
<1>1. Len(s) = 5 /\ s[1] = a /\ s[2] = b /\ s[3] = c /\ s[4] = d /\ s[5] = e
  OBVIOUS
<1>2. s \in Seq({a, b, c, d, e})
  OBVIOUS
<1> QED
  BY <1>1, <1>2, ListOfItsOwn

\* A list of one element, and a list that grew by one.
LEMMA SingleList ==
  ASSUME NEW f
  PROVE  Len(<<f>>) = 1 /\ <<f>>[1] = f /\ <<f>> \in Seq(ToSet(<<f>>)) /\ <<f>> # <<>>
<1> PICK s : s = <<f>>
  OBVIOUS
<1>1. Len(s) = 1 /\ s[1] = f /\ s \in Seq({f}) /\ s # <<>>
  OBVIOUS
<1> QED
  BY <1>1, ListOfItsOwn

LEMMA GrownList ==
  ASSUME NEW s, s \in Seq(ToSet(s)), NEW f
  PROVE  LET new == Append(s, f)
         IN /\ new \in Seq(ToSet(new)) /\ new # <<>> /\ Len(new) = Len(s) + 1
            /\ \A i \in 1..Len(s) : new[i] = s[i]
            /\ new[Len(s) + 1] = f /\ Last(new) = f
<1> PICK new : new = Append(s, f)
  OBVIOUS
<1> PICK T : T = ToSet(s) \cup {f}
  OBVIOUS
<1>1. s \in Seq(T) /\ f \in T
  BY SeqDef
<1>2. /\ new \in Seq(T) /\ new # <<>> /\ Len(new) = Len(s) + 1
      /\ \A i \in 1..Len(s) : new[i] = s[i]
      /\ new[Len(s) + 1] = f
  BY <1>1, AppendProperties
<1>3. Last(new) = f
  BY <1>2 DEF Last
<1>4. new \in Seq(ToSet(new))
  BY <1>2, ListOfItsOwn
<1> QED
  BY <1>2, <1>3, <1>4

LEMMA SequenceFacts ==
  ASSUME NEW s, s \in Seq(ToSet(s))
  PROVE  /\ Len(s) \in Nat /\ DOMAIN s = 1..Len(s) /\ s = [i \in 1..Len(s) |-> s[i]]
         /\ s # <<>> => Len(s) >= 1
<1>1. Len(s) \in Nat /\ DOMAIN s = 1..Len(s)
  BY LenProperties
<1>2. s # <<>> => Len(s) # 0
  BY EmptySeq
<1>3. s = [i \in 1..Len(s) |-> s[i]]
  BY <1>1, SeqDef
<1> QED
  BY <1>1, <1>2, <1>3

\* The bodies of a program hold steps of the program.
LEMMA BodiesHoldSteps ==
  ASSUME NEW program, IsProgram(program), NEW step \in StepsOf(program)
  PROVE  /\ step.body \in Seq(StepsOf(program))
         /\ ToSet(step.out) \subseteq Assigned(program)
         /\ step.out \in Seq(ToSet(step.out))
<1>1. ToSet(step.body) \in {ToSet(s.body) : s \in StepsOf(program)}
  OBVIOUS
<1>2. ToSet(step.body) \subseteq WithBodies(StepsOf(program))
  BY <1>1 DEF WithBodies
<1>3. ToSet(step.body) \subseteq StepsOf(program)
  BY <1>2 DEF IsProgram
<1>4. step.body \in Seq(ToSet(step.body)) /\ step.out \in Seq(ToSet(step.out))
  BY DEF IsProgram
<1>5. step.body \in Seq(StepsOf(program))
  BY <1>3, <1>4, SeqDef
<1>6. ToSet(step.out) \in {ToSet(s.out) : s \in StepsOf(program)}
  OBVIOUS
<1> QED
  BY <1>4, <1>5, <1>6 DEF Assigned

LEMMA MainSteps ==
  ASSUME NEW program, IsProgram(program)
  PROVE  program.steps \in Seq(StepsOf(program))
<1>1. ToSet(program.steps) \subseteq StepsOf(program)
  BY DEF StepsOf, WithBodies
<1> QED
  BY <1>1, SeqDef DEF IsProgram

LEMMA FreshFrame ==
  ASSUME NEW program, NEW kind, NEW body \in Seq(StepsOf(program)), NEW left, NEW before
  PROVE  /\ IsFrame(program, Frame(kind, body, left, before))
         /\ Frame(kind, body, left, before).kind = kind
         /\ Frame(kind, body, left, before).body = body
         /\ Frame(kind, body, left, before).pc = 1
         /\ Frame(kind, body, left, before).left = left
         /\ Frame(kind, body, left, before).before = before
<1>1. Len(body) \in Nat
  BY LenProperties
<1> QED
  BY <1>1 DEF IsFrame, Frame

LEMMA MainNested ==
  ASSUME NEW program, IsProgram(program), NEW left, NEW before
  PROVE  /\ Nested(program, <<Frame("main", program.steps, left, before)>>)
         /\ Len(<<Frame("main", program.steps, left, before)>>) = 1
         /\ <<Frame("main", program.steps, left, before)>>[1] = Frame("main", program.steps, left, before)
<1> PICK f : f = Frame("main", program.steps, left, before)
  OBVIOUS
<1>1. IsFrame(program, f) /\ f.kind = "main" /\ f.body = program.steps
  BY MainSteps, FreshFrame
<1> PICK s : s = <<f>>
  OBVIOUS
<1>2. Len(s) = 1 /\ s[1] = f /\ s \in Seq(ToSet(s)) /\ s # <<>>
  BY SingleList
<1>3. \A i \in 1..Len(s) : IsFrame(program, s[i])
  <2>1. \A i \in 1..1 : i = 1
    OBVIOUS
  <2> QED
    BY <1>1, <1>2, <2>1
<1>4. \A i \in 1..(Len(s) - 1) : Encloses(s[i], s[i + 1])
  BY <1>2
<1>5. Nested(program, s)
  BY <1>1, <1>2, <1>3, <1>4 DEF Nested
<1> QED
  BY <1>2, <1>5

\* A step that is a loop puts a frame with its body on the stack.
LEMMA Pushed ==
  ASSUME NEW program, IsProgram(program), NEW stack, Nested(program, stack),
         Last(stack).pc <= Len(Last(stack).body), NEW left, NEW before,
         NEW step, step = Last(stack).body[Last(stack).pc], step.op \in LoopOps,
         NEW new, new = Append(stack, Frame(step.op, step.body, left, before))
  PROVE  /\ Nested(program, new) /\ Len(new) = Len(stack) + 1
         /\ Last(new) = Frame(step.op, step.body, left, before)
         /\ \A i \in 1..Len(stack) : new[i] = stack[i]
         /\ step \in StepsOf(program)
<1> PICK n : n = Len(stack)
  OBVIOUS
<1> PICK f : f = Frame(step.op, step.body, left, before)
  OBVIOUS
<1>1. n \in Nat /\ n >= 1 /\ stack \in Seq(ToSet(stack))
  BY SequenceFacts DEF Nested
<1>2. IsFrame(program, stack[n]) /\ Last(stack) = stack[n]
  BY <1>1 DEF Nested, Last
<1>3. step \in StepsOf(program)
  <2>1. Last(stack).pc \in 1..Len(Last(stack).body) /\ Last(stack).body \in Seq(StepsOf(program))
    <3>1. /\ Last(stack).body \in Seq(StepsOf(program))
          /\ Last(stack).pc \in 1..(Len(Last(stack).body) + 1)
      BY <1>2 DEF IsFrame
    <3>2. Len(Last(stack).body) \in Nat
      BY <3>1, LenProperties
    <3> PICK k, l : k = Last(stack).pc /\ l = Len(Last(stack).body)
      OBVIOUS
    <3>3. k \in 1..l
      BY <3>1, <3>2
    <3> QED
      BY <3>1, <3>3
  <2> QED
    BY <2>1, ElementOfSeq
<1>4. IsFrame(program, f) /\ f.kind = step.op /\ f.body = step.body
  BY <1>3, BodiesHoldSteps, FreshFrame
<1>5. /\ new \in Seq(ToSet(new)) /\ new # <<>> /\ Len(new) = n + 1
      /\ \A i \in 1..n : new[i] = stack[i]
      /\ new[n + 1] = f /\ Last(new) = f
  BY <1>1, GrownList
<1>8. \A i \in 1..(n + 1) : IsFrame(program, new[i])
  <2>1. \A i \in 1..n : IsFrame(program, stack[i])
    BY DEF Nested
  <2> QED
    <3>1. \A i \in 1..(n + 1) : i \in 1..n \/ i = n + 1
      BY <1>1
    <3> QED
      BY <1>4, <1>5, <2>1, <3>1
<1>9. Encloses(stack[n], f)
  BY <1>2, <1>4 DEF Encloses
<1>10. \A i \in 1..n : Encloses(new[i], new[i + 1])
  <2>1. \A i \in 1..(n - 1) : Encloses(stack[i], stack[i + 1])
    BY DEF Nested
  <2>2. \A i \in 1..(n - 1) : Encloses(new[i], new[i + 1])
    <3>1. \A i \in 1..(n - 1) : i \in 1..n /\ i + 1 \in 1..n
      BY <1>1
    <3> QED
      BY <1>5, <2>1, <3>1
  <2>3. Encloses(new[n], new[n + 1])
    <3>1. n \in 1..n
      BY <1>1
    <3> QED
      BY <1>5, <1>9, <3>1
  <2>4. \A i \in 1..n : i \in 1..(n - 1) \/ i = n
    BY <1>1
  <2> QED
    BY <2>2, <2>3, <2>4
<1>11. new[1] = stack[1]
  <2>1. 1 \in 1..n
    BY <1>1
  <2> QED
    BY <1>5, <2>1
<1>12. Nested(program, new)
  <2>1. Len(new) - 1 = n
    <3>1. n \in Nat
      BY <1>1
    <3>2. Len(new) = n + 1
      BY <1>5
    <3> QED
      BY <3>1, <3>2
  <2>2. \A i \in 1..Len(new) : IsFrame(program, new[i])
    BY <1>5, <1>8
  <2>3. new[1].kind = "main" /\ new[1].body = program.steps
    BY <1>11 DEF Nested
  <2> QED
    BY <1>5, <1>10, <2>1, <2>2, <2>3 DEF Nested
<1> QED
  BY <1>3, <1>5, <1>12

\* The frame stack[k] with its next step due, and nothing above it.
LEMMA CutAt ==
  ASSUME NEW program, NEW stack, Nested(program, stack), NEW k \in 1..Len(stack),
         stack[k].pc <= Len(stack[k].body), NEW new, new = Advanced(SubSeq(stack, 1, k))
  PROVE  /\ Nested(program, new) /\ Len(new) = k
         /\ \A i \in 1..(k - 1) : new[i] = stack[i]
         /\ new[k].kind = stack[k].kind /\ new[k].body = stack[k].body
         /\ new[k].pc = stack[k].pc + 1
         /\ new[k].left = stack[k].left /\ new[k].before = stack[k].before
<1>1. Len(stack) \in Nat /\ stack \in Seq(ToSet(stack)) /\ k \in Nat /\ k >= 1 /\ k <= Len(stack)
  BY SequenceFacts DEF Nested
<1> PICK s : s = SubSeq(stack, 1, k)
  OBVIOUS
<1>2. s = [i \in 1..k |-> s[i]] /\ Len(s) = k /\ \A i \in 1..k : s[i] = stack[i]
  <2>1. s \in Seq(ToSet(stack)) /\ Len(s) = k /\ \A i \in 1..k : s[i] = stack[i]
    BY <1>1
  <2> QED
    BY <2>1, SeqDef, LenProperties
<1> PICK f : f = stack[k]
  OBVIOUS
<1>3. IsFrame(program, f)
  BY <1>1 DEF Nested
<1> PICK g : g = [f EXCEPT !.pc = f.pc + 1]
  OBVIOUS
<1>4. g = [kind |-> f.kind, body |-> f.body, pc |-> f.pc + 1, left |-> f.left, before |-> f.before]
  BY <1>3 DEF IsFrame
<1>5. new = [i \in 1..k |-> IF i = k THEN g ELSE s[i]]
  <2>1. new = [s EXCEPT ![k] = [s[k] EXCEPT !.pc = s[k].pc + 1]]
    BY <1>2 DEF Advanced
  <2>2. s[k] = f
    BY <1>1, <1>2
  <2>3. DOMAIN s = 1..k
    BY <1>2
  <2> QED
    BY <2>1, <2>2, <2>3
<1>6. new = [i \in 1..k |-> new[i]] /\ new[k] = g /\ \A i \in 1..(k - 1) : new[i] = stack[i]
  <2>1. k \in 1..k /\ \A i \in 1..(k - 1) : i \in 1..k /\ i # k
    BY <1>1
  <2> QED
    BY <1>2, <1>5, <2>1
<1>7. new \in Seq(ToSet(new)) /\ Len(new) = k /\ new # <<>>
  BY <1>1, <1>6, ListIsSequence
<1>8. IsFrame(program, g)
  <2>1. Len(f.body) \in Nat
    BY <1>3, LenProperties DEF IsFrame
  <2> QED
    BY <1>3, <1>4, <2>1 DEF IsFrame
<1>9. \A i \in 1..k : IsFrame(program, new[i])
  <2>1. \A i \in 1..(k - 1) : IsFrame(program, stack[i])
    BY <1>1 DEF Nested
  <2> QED
    BY <1>1, <1>6, <1>8, <2>1
<1>10. \A i \in 1..(k - 1) : Encloses(new[i], new[i + 1])
  <2>1. \A i \in 1..(k - 1) : Encloses(stack[i], stack[i + 1])
    <3>1. \A i \in 1..(k - 1) : i \in 1..(Len(stack) - 1)
      BY <1>1
    <3> QED
      BY <3>1 DEF Nested
  <2> SUFFICES ASSUME NEW i \in 1..(k - 1) PROVE Encloses(new[i], new[i + 1])
    OBVIOUS
  <2>2. new[i] = stack[i] /\ Encloses(stack[i], stack[i + 1])
    BY <1>6, <2>1
  <2>3. new[i + 1].kind = stack[i + 1].kind /\ new[i + 1].body = stack[i + 1].body
    <3>1. CASE i + 1 = k
      BY <1>4, <1>6, <3>1
    <3>2. CASE i + 1 # k
      <4>1. i + 1 \in 1..(k - 1)
        BY <1>1, <3>2
      <4> QED
        BY <1>6, <4>1
    <3> QED
      BY <3>1, <3>2
  <2> QED
    BY <2>2, <2>3 DEF Encloses
<1>11. new[1].kind = stack[1].kind /\ new[1].body = stack[1].body
  <2>1. CASE k = 1
    BY <1>4, <1>6, <2>1
  <2>2. CASE k # 1
    <3>1. 1 \in 1..(k - 1)
      BY <1>1, <2>2
    <3> QED
      BY <1>6, <3>1
  <2> QED
    BY <2>1, <2>2
<1>12. Nested(program, new)
  BY <1>7, <1>9, <1>10, <1>11 DEF Nested
<1>13. /\ g.kind = f.kind /\ g.body = f.body /\ g.pc = f.pc + 1
       /\ g.left = f.left /\ g.before = f.before
  BY <1>4
<1>14. new[k] = g /\ \A i \in 1..(k - 1) : new[i] = stack[i]
  BY <1>6
<1> QED
  BY <1>7, <1>12, <1>13, <1>14

LEMMA AdvancedStack ==
  ASSUME NEW program, NEW stack, Nested(program, stack),
         Last(stack).pc <= Len(Last(stack).body), NEW new, new = Advanced(stack)
  PROVE  /\ Nested(program, new) /\ Len(new) = Len(stack)
         /\ \A i \in 1..(Len(stack) - 1) : new[i] = stack[i]
         /\ Last(new).kind = Last(stack).kind /\ Last(new).body = Last(stack).body
         /\ Last(new).pc = Last(stack).pc + 1
         /\ Last(new).left = Last(stack).left /\ Last(new).before = Last(stack).before
<1> PICK n : n = Len(stack)
  OBVIOUS
<1>1. n \in Nat /\ n >= 1 /\ stack \in Seq(ToSet(stack)) /\ n \in 1..n
  BY SequenceFacts DEF Nested
<1>2. SubSeq(stack, 1, n) = stack
  BY <1>1
<1>3. Last(stack) = stack[n]
  BY DEF Last
<1>a. n \in 1..Len(stack) /\ stack[n].pc <= Len(stack[n].body) /\ new = Advanced(SubSeq(stack, 1, n))
  BY <1>1, <1>2, <1>3
<1>4. /\ Nested(program, new) /\ Len(new) = n /\ \A i \in 1..(n - 1) : new[i] = stack[i]
      /\ new[n].kind = stack[n].kind /\ new[n].body = stack[n].body
      /\ new[n].pc = stack[n].pc + 1
      /\ new[n].left = stack[n].left /\ new[n].before = stack[n].before
  BY <1>a, CutAt
<1> QED
  BY <1>3, <1>4 DEF Last

\* How high the stack is after a step, and where its last frame then stands.
LEMMA AdvancedTop ==
  ASSUME NEW program, NEW stack, Nested(program, stack),
         Last(stack).pc <= Len(Last(stack).body)
  PROVE  /\ Len(Advanced(stack)) = Len(stack)
         /\ Last(Advanced(stack)).pc = Last(stack).pc + 1
         /\ Last(Advanced(stack)).left = Last(stack).left
<1>1. PICK n : n = Len(stack)
  OBVIOUS
<1>2. PICK new : new = Advanced(stack)
  OBVIOUS
<1>3. stack \in Seq(ToSet(stack)) /\ n \in 1..Len(stack) /\ SubSeq(stack, 1, n) = stack
  BY <1>1, SequenceFacts DEF Nested
<1>4. Last(stack) = stack[n]
  BY <1>1 DEF Last
<1>5. n \in 1..Len(stack) /\ stack[n].pc <= Len(stack[n].body) /\ new = Advanced(SubSeq(stack, 1, n))
  BY <1>2, <1>3, <1>4
<1>6. Len(new) = n /\ new[n].pc = stack[n].pc + 1 /\ new[n].left = stack[n].left
  BY <1>5, CutAt
<1>7. Last(new) = new[n]
  BY <1>6 DEF Last
<1> QED
  BY <1>1, <1>2, <1>4, <1>6, <1>7

\* Popping a frame that is not the main one cuts it off and advances the one under it,
\* which stands at a step of its body.
LEMMA PoppedFrame ==
  ASSUME NEW program, NEW stack, Nested(program, stack), Last(stack).kind # "main"
  PROVE  /\ Len(stack) - 1 \in 1..Len(stack)
         /\ Popped(stack) = Advanced(SubSeq(stack, 1, Len(stack) - 1))
         /\ stack[Len(stack) - 1].pc <= Len(stack[Len(stack) - 1].body)
<1> PICK n : n = Len(stack)
  OBVIOUS
<1>1. n \in Nat /\ n >= 1 /\ stack \in Seq(ToSet(stack))
  BY SequenceFacts DEF Nested
<1>2. n # 1
  BY DEF Nested, Last
<1>3. n - 1 \in 1..n /\ n - 1 \in 1..(n - 1)
  BY <1>1, <1>2
<1>4. stack[n - 1].pc <= Len(stack[n - 1].body)
  BY <1>3 DEF Nested, Encloses
<1>5. Front(stack) = SubSeq(stack, 1, n - 1)
  BY DEF Front
<1>6. Popped(stack) = Advanced(SubSeq(stack, 1, n - 1))
  BY <1>5 DEF Popped
<1> QED
  BY <1>3, <1>4, <1>6

\* The frame under the last one, which stands at the step whose body that one executes.
LEMMA PoppedStack ==
  ASSUME NEW program, NEW stack, Nested(program, stack), Last(stack).kind # "main",
         NEW new, new = Popped(stack)
  PROVE  /\ Len(stack) - 1 \in 1..Len(stack)
         /\ Nested(program, new) /\ Len(new) = Len(stack) - 1
         /\ \A i \in 1..(Len(stack) - 2) : new[i] = stack[i]
         /\ Last(new).kind = stack[Len(stack) - 1].kind
         /\ Last(new).body = stack[Len(stack) - 1].body
         /\ Last(new).pc = stack[Len(stack) - 1].pc + 1
         /\ Last(new).left = stack[Len(stack) - 1].left
         /\ Last(new).before = stack[Len(stack) - 1].before
<1>1. PICK m : m = Len(stack) - 1
  OBVIOUS
<1>2. Len(stack) - 1 \in 1..Len(stack) /\ m - 1 = Len(stack) - 2
  BY <1>1, PoppedFrame
<1>3. m \in 1..Len(stack) /\ new = Advanced(SubSeq(stack, 1, m)) /\ stack[m].pc <= Len(stack[m].body)
  BY <1>1, PoppedFrame
<1>4. /\ Nested(program, new) /\ Len(new) = m /\ \A i \in 1..(m - 1) : new[i] = stack[i]
      /\ new[m].kind = stack[m].kind /\ new[m].body = stack[m].body
      /\ new[m].pc = stack[m].pc + 1
      /\ new[m].left = stack[m].left /\ new[m].before = stack[m].before
  BY <1>3, CutAt
<1>5. Last(new) = new[m]
  BY <1>4 DEF Last
<1> QED
  BY <1>1, <1>2, <1>4, <1>5

\* How high the stack is after a pop, and at which step its last frame then stands.
LEMMA PoppedTop ==
  ASSUME NEW program, NEW stack, Nested(program, stack), Last(stack).kind # "main"
  PROVE  /\ Len(Popped(stack)) = Len(stack) - 1
         /\ Last(Popped(stack)).pc = stack[Len(stack) - 1].pc + 1
<1>1. PICK m : m = Len(stack) - 1
  OBVIOUS
<1>2. PICK new : new = Popped(stack)
  OBVIOUS
<1>3. m \in 1..Len(stack) /\ new = Advanced(SubSeq(stack, 1, m)) /\ stack[m].pc <= Len(stack[m].body)
  BY <1>1, <1>2, PoppedFrame
<1>4. Len(new) = m /\ new[m].pc = stack[m].pc + 1
  BY <1>3, CutAt
<1>5. Last(new) = new[m]
  BY <1>4 DEF Last
<1> QED
  BY <1>1, <1>2, <1>4, <1>5

LEMMA AgainStack ==
  ASSUME NEW program, NEW stack, Nested(program, stack), NEW left, NEW before,
         NEW new, new = Again(stack, left, before)
  PROVE  /\ Nested(program, new) /\ Len(new) = Len(stack)
         /\ \A i \in 1..(Len(stack) - 1) : new[i] = stack[i]
         /\ Last(new) = Frame(Last(stack).kind, Last(stack).body, left, before)
<1> PICK n : n = Len(stack)
  OBVIOUS
<1>0. n \in Nat /\ n >= 1 /\ n \in 1..Len(stack)
  BY SequenceFacts DEF Nested
<1>1. stack = [i \in 1..n |-> stack[i]]
  BY SequenceFacts DEF Nested
<1> PICK f : f = stack[n]
  OBVIOUS
<1>2. IsFrame(program, f) /\ Last(stack) = f
  BY <1>0 DEF Nested, Last
<1> PICK g : g = Frame(f.kind, f.body, left, before)
  OBVIOUS
<1>3. IsFrame(program, g) /\ g.kind = f.kind /\ g.body = f.body
  BY <1>2, FreshFrame DEF IsFrame
<1>4. new = [i \in 1..n |-> IF i = n THEN g ELSE stack[i]]
  <2>1. new = [stack EXCEPT ![n] = g]
    BY DEF Again
  <2> QED
    BY <1>1, <2>1
<1>5. new = [i \in 1..n |-> new[i]] /\ new[n] = g /\ \A i \in 1..(n - 1) : new[i] = stack[i]
  <2>1. n \in 1..n /\ \A i \in 1..(n - 1) : i \in 1..n /\ i # n
    BY <1>0
  <2> QED
    BY <1>4, <2>1
<1>6. new \in Seq(ToSet(new)) /\ Len(new) = n
  BY <1>0, <1>5, ListIsSequence
<1>7. new # <<>>
  BY <1>0, <1>6, EmptySeq
<1>8. \A i \in 1..n : IsFrame(program, new[i])
  <2>1. \A i \in 1..(n - 1) : IsFrame(program, stack[i])
    <3>1. \A i \in 1..(n - 1) : i \in 1..Len(stack)
      BY <1>0
    <3> QED
      BY <3>1 DEF Nested
  <2>2. \A i \in 1..n : i \in 1..(n - 1) \/ i = n
    BY <1>0
  <2> QED
    BY <1>3, <1>5, <2>1, <2>2
<1>9. \A i \in 1..(n - 1) : Encloses(new[i], new[i + 1])
  <2> SUFFICES ASSUME NEW i \in 1..(n - 1) PROVE Encloses(new[i], new[i + 1])
    OBVIOUS
  <2>2. new[i] = stack[i] /\ Encloses(stack[i], stack[i + 1])
    BY <1>5 DEF Nested
  <2>3. new[i + 1].kind = stack[i + 1].kind /\ new[i + 1].body = stack[i + 1].body
    <3>1. CASE i + 1 = n
      BY <1>3, <1>5, <3>1
    <3>2. CASE i + 1 # n
      <4>1. i + 1 \in 1..(n - 1)
        BY <1>0, <3>2
      <4> QED
        BY <1>5, <4>1
    <3> QED
      BY <3>1, <3>2
  <2> QED
    BY <2>2, <2>3 DEF Encloses
<1>10. new[1].kind = stack[1].kind /\ new[1].body = stack[1].body
  <2>1. CASE n = 1
    BY <1>3, <1>5, <2>1
  <2>2. CASE n # 1
    <3>1. 1 \in 1..(n - 1)
      BY <1>0, <2>2
    <3> QED
      BY <1>5, <3>1
  <2> QED
    BY <2>1, <2>2
<1>11. Last(new) = g
  BY <1>5, <1>6 DEF Last
<1> QED
  BY <1>2, <1>5, <1>6, <1>7, <1>8, <1>9, <1>10, <1>11 DEF Nested
------------------------------------------------------------------------------
(* Tables before, during and after a run.                                    *)

LEMMA NothingClosed ==
  ASSUME NEW program, NEW e, Owns(program, e)
  PROVE  Env(e.values, e.slots, {}) = e
BY DEF Owns, Env

LEMMA EmptyTable ==
  /\ DOMAIN NoValues = {} /\ IdsIn(NoValues) = {} /\ OneNameEach(NoValues)
BY DEF NoValues, IdsIn, OneNameEach

\* A run begins and ends with the slots alone.
LEMMA SlotsAlone ==
  ASSUME NEW program, NEW slots, DOMAIN slots = Declared(program), OneNameEach(slots),
         NEW closed, closed \cap IdsIn(slots) = {}
  PROVE  /\ Owns(program, Env(NoValues, slots, closed))
         /\ Env(NoValues, slots, closed).slots = slots
         /\ Env(NoValues, slots, closed).values = NoValues
<1>1. Env(NoValues, slots, closed) = [values |-> NoValues, slots |-> slots, closed |-> {}]
  BY EmptyTable DEF Env
<1> QED
  BY <1>1, EmptyTable DEF Owns, HoldApart

LEMMA RunBegins ==
  ASSUME NEW program, NEW e, Owns(program, e)
  PROVE  /\ Owns(program, NewRun(e.slots))
         /\ NewRun(e.slots).slots = e.slots /\ NewRun(e.slots).values = NoValues
BY SlotsAlone DEF Owns, NewRun

LEMMA RunEnds ==
  ASSUME NEW program, NEW e, Owns(program, e)
  PROVE  /\ Owns(program, CloseRun(e))
         /\ CloseRun(e).slots = e.slots /\ CloseRun(e).values = NoValues
<1> PICK closed : closed = e.closed \cup (ValueIds(e) \ SlotIds(e))
  OBVIOUS
<1> PICK slots : slots = e.slots
  OBVIOUS
<1>1. closed \cap IdsIn(slots) = {}
  BY DEF Owns, SlotIds
<1>2. CloseRun(e) = Env(NoValues, slots, closed)
  BY DEF CloseRun
<1>3. DOMAIN slots = Declared(program) /\ OneNameEach(slots)
  BY DEF Owns
<1>4. /\ Owns(program, Env(NoValues, slots, closed))
      /\ Env(NoValues, slots, closed).slots = slots
      /\ Env(NoValues, slots, closed).values = NoValues
  BY <1>1, <1>3, SlotsAlone
<1> QED
  BY <1>2, <1>4

LEMMA DropValueOwns ==
  ASSUME NEW program, NEW e, Owns(program, e), NEW name
  PROVE  /\ Owns(program, DropValue(e, name))
         /\ DropValue(e, name).slots = e.slots
         /\ DOMAIN DropValue(e, name).values = DOMAIN e.values \ {name}
         /\ \A n \in DOMAIN e.values \ {name} : DropValue(e, name).values[n] = e.values[n]
<1> PICK t : t = Restrict(e.values, DOMAIN e.values \ {name})
  OBVIOUS
<1>1. DOMAIN t = DOMAIN e.values \ {name} /\ \A n \in DOMAIN t : t[n] = e.values[n]
  BY DEF Restrict
<1>2. DropValue(e, name) = [values |-> t, slots |-> e.slots, closed |-> {}]
  BY DEF DropValue, Env, Owns
<1>3. IdsIn(t) \subseteq IdsIn(e.values) /\ OneNameEach(t)
  <2>1. IdsIn(t) \subseteq IdsIn(e.values)
    BY <1>1 DEF IdsIn
  <2>2. OneNameEach(e.values)
    BY DEF Owns
  <2>3. OneNameEach(t)
    BY <1>1, <2>2 DEF OneNameEach
  <2> QED
    BY <2>1, <2>3
<1> QED
  BY <1>1, <1>2, <1>3 DEF Owns, HoldApart

\* What storing v under a name makes of a table and the slots.
Stored(program, e, name, v, new) ==
  /\ Owns(program, new)
  /\ IF name \in Declared(program)
     THEN new.values = e.values /\ new.slots = Update(e.slots, name, v)
     ELSE new.slots = e.slots /\ new.values = Update(e.values, name, v)

LEMMA WriteOwns ==
  ASSUME NEW program, NEW e, Owns(program, e), NEW name \in Assigned(program),
         NEW closed, NEW v,
         IF Known(e, name) THEN MayStore(e, closed, Lookup(e, name).id, v)
                           ELSE MayStore(e, closed, 0, v)
  PROVE  Stored(program, e, name, v, Write(Env(e.values, e.slots, closed), name, v))
<1>1. DOMAIN e.slots = Declared(program) /\ Env(e.values, e.slots, closed).slots = e.slots
  BY DEF Owns, Env
<1>2. CASE name \in Declared(program)
  <2>1. MayStore(e, closed, e.slots[name].id, v)
    BY <1>1, <1>2 DEF Known, Lookup
  <2>2. Write(Env(e.values, e.slots, closed), name, v)
          = SetReference(Env(e.values, e.slots, closed), name, v)
    BY <1>1, <1>2 DEF Write
  <2> QED
    BY <1>2, <2>1, <2>2, SetReferenceOwns DEF Stored
<1>3. CASE name \notin Declared(program)
  <2>1. IF name \in DOMAIN e.values THEN MayStore(e, closed, e.values[name].id, v)
                                     ELSE MayStore(e, closed, 0, v)
    BY <1>1, <1>3 DEF Known, Lookup
  <2>2. Write(Env(e.values, e.slots, closed), name, v)
          = SetValue(Env(e.values, e.slots, closed), name, v)
    BY <1>1, <1>3 DEF Write
  <2> QED
    BY <1>3, <2>1, <2>2, SetValueOwns DEF Stored
<1> QED
  BY <1>2, <1>3

\* A host value or a tensor no name holds may be stored anywhere.
LEMMA StoreNew ==
  ASSUME NEW program, NEW e, Owns(program, e), NEW name \in Assigned(program),
         NEW v, v.id = 0 \/ IsFresh(e, v)
  PROVE  /\ Stored(program, e, name, v, Write(e, name, v))
         /\ Owns(program, SetValue(e, name, v))
         /\ SetValue(e, name, v).slots = e.slots
         /\ SetValue(e, name, v).values = Update(e.values, name, v)
<1>1. \A old : MayStore(e, {}, old, v)
  BY DEF MayStore
<1>2. Env(e.values, e.slots, {}) = e
  BY NothingClosed
<1>3. IF Known(e, name) THEN MayStore(e, {}, Lookup(e, name).id, v) ELSE MayStore(e, {}, 0, v)
  BY <1>1
<1>4. IF name \in DOMAIN e.values THEN MayStore(e, {}, e.values[name].id, v) ELSE MayStore(e, {}, 0, v)
  BY <1>1
<1>5. Stored(program, e, name, v, Write(Env(e.values, e.slots, {}), name, v))
  BY <1>3, WriteOwns
<1>6. /\ Owns(program, SetValue(Env(e.values, e.slots, {}), name, v))
      /\ SetValue(Env(e.values, e.slots, {}), name, v).slots = e.slots
      /\ SetValue(Env(e.values, e.slots, {}), name, v).values = Update(e.values, name, v)
  BY <1>4, SetValueOwns
<1> QED
  BY <1>2, <1>5, <1>6

LEMMA RefNew ==
  ASSUME NEW program, NEW e, Owns(program, e), NEW name \in Declared(program),
         NEW v, v.id = 0 \/ IsFresh(e, v)
  PROVE  /\ Owns(program, SetReference(e, name, v))
         /\ SetReference(e, name, v).values = e.values
         /\ SetReference(e, name, v).slots = Update(e.slots, name, v)
<1>1. MayStore(e, {}, e.slots[name].id, v)
  BY DEF MayStore
<1>2. Env(e.values, e.slots, {}) = e
  BY NothingClosed
<1>3. /\ Owns(program, SetReference(Env(e.values, e.slots, {}), name, v))
      /\ SetReference(Env(e.values, e.slots, {}), name, v).values = e.values
      /\ SetReference(Env(e.values, e.slots, {}), name, v).slots = Update(e.slots, name, v)
  BY <1>1, SetReferenceOwns
<1> QED
  BY <1>2, <1>3

LEMMA HostValues ==
  ASSUME NEW kind, NEW data
  PROVE  HostValue(kind, data).id = 0 /\ HostValue(kind, data).data = data
BY DEF HostValue

\* A new session: every slot has its own tensor.
LEMMA NewStateOwns ==
  ASSUME NEW program, IsProgram(program)
  PROVE  /\ Owns(program, NewRun(NewState(program.state)))
         /\ NewRun(NewState(program.state)).slots = NewState(program.state)
         /\ NewRun(NewState(program.state)).values = NoValues
         /\ DOMAIN NewState(program.state) = Declared(program)
<1> DEFINE ds == program.state
           at(n) == CHOOSE i \in DOMAIN ds : ds[i][1] = n
<1> PICK slots : slots = NewState(ds)
  OBVIOUS
<1>1. DOMAIN slots = Declared(program) /\ \A n \in Declared(program) : slots[n] = Materialized(ds[at(n)][2], at(n))
  BY DEF NewState, Declared
<1>2. \A n \in Declared(program) : at(n) \in DOMAIN ds /\ ds[at(n)][1] = n
  BY DEF Declared, ToSet
<1>3. \A n \in Declared(program) : ds[at(n)][2] \in {"counter", "tensor", "page_table", "paged_tensor"}
  <2>1. \A n \in Declared(program) : ds[at(n)] \in ToSet(ds)
    BY <1>2 DEF ToSet
  <2> QED
    BY <2>1 DEF IsProgram
<1> HIDE DEF at, ds
<1>4. ASSUME NEW type \in {"counter", "tensor", "page_table", "paged_tensor"}, NEW i
      PROVE  Materialized(type, i).id \in {0, i}
  <2>1. CASE type = "counter"
    <3>1. Materialized(type, i) = HostValue("counter", 0)
      BY <2>1, Zenon DEF Materialized
    <3> QED
      BY <3>1, HostValues
  <2>2. CASE type = "tensor"
    <3>1. Materialized(type, i) = TensorValue(i, 0)
      BY <2>2, Zenon DEF Materialized
    <3> QED
      BY <3>1 DEF TensorValue
  <2>3. CASE type = "page_table"
    <3>1. Materialized(type, i) = HostValue("table", <<>>)
      BY <2>3, Zenon DEF Materialized
    <3> QED
      BY <3>1, HostValues
  <2>4. CASE type = "paged_tensor"
    <3>1. Materialized(type, i) = HostValue("paged", [p \in 0..(Positions - 1) |-> NoToken])
      BY <2>4, Zenon DEF Materialized
    <3> QED
      BY <3>1, HostValues
  <2> QED
    BY <2>1, <2>2, <2>3, <2>4
<1>5. \A n \in Declared(program) : slots[n].id \in {0, at(n)}
  BY <1>1, <1>3, <1>4
<1>6. OneNameEach(slots)
  <2> SUFFICES ASSUME NEW m \in Declared(program), NEW n \in Declared(program), m # n,
                      slots[m].id # 0, slots[m].id = slots[n].id
               PROVE  FALSE
    BY <1>1 DEF OneNameEach
  <2>1. at(m) = at(n)
    BY <1>5
  <2> QED
    BY <1>2, <2>1
<1>7. Owns(program, NewRun(slots)) /\ NewRun(slots).slots = slots /\ NewRun(slots).values = NoValues
  BY <1>1, <1>6, SlotsAlone DEF NewRun
<1> QED
  BY <1>1, <1>7 DEF ds
------------------------------------------------------------------------------
(* What the operations store.                                                *)

LEMMA UploadStored ==
  ASSUME NEW program \in Programs, NEW e, Owns(program, e), NEW data
  PROVE  Upload(e, data).data = data /\ Upload(e, data).id # 0 /\ IsFresh(e, Upload(e, data))
<1>1. IsFiniteSet({}) /\ Cardinality({}) <= 1
  BY FS_EmptySet
<1>2. /\ UploadAlso(e, {}, data) \in [kind : {"tensor"}, id : TensorIds, data : {data}]
      /\ IsFresh(e, UploadAlso(e, {}, data)) /\ UploadAlso(e, {}, data).id # 0
  BY <1>1, UploadIsFresh
<1> QED
  BY <1>2 DEF Upload

LEMMA UpdateAt ==
  ASSUME NEW t, NEW D, DOMAIN t = D, NEW name, NEW v, NEW new, new = Update(t, name, v)
  PROVE  /\ DOMAIN new = D \cup {name} /\ new[name] = v
         /\ \A n \in D \ {name} : new[n] = t[n]
BY DEF Update

LEMMA WriteVectorStored ==
  ASSUME NEW program \in Programs, NEW e, Owns(program, e), NEW name \in Assigned(program),
         NEW data
  PROVE  \E v : v.data = data /\ Stored(program, e, name, v, WriteVector(e, name, data))
<1> DEFINE v == IF name \in DOMAIN e.slots THEN Upload(e, data) ELSE HostValue("vector", data)
<1>1. v.data = data /\ (v.id = 0 \/ IsFresh(e, v))
  BY UploadStored, HostValues
<1>2. WriteVector(e, name, data) = Write(e, name, v)
  BY DEF WriteVector
<1> HIDE DEF v
<1> QED
  BY <1>1, <1>2, StoreNew

LEMMA WriteVectorsOwns ==
  ASSUME NEW program \in Programs, NEW e, Owns(program, e), NEW data,
         NEW out, out \in Seq(ToSet(out)), ToSet(out) \subseteq Assigned(program), Len(out) \in {1, 2}
  PROVE  Owns(program, WriteVectors(e, out, data))
<1>1. 1 \in DOMAIN out /\ (Len(out) # 1 => 2 \in DOMAIN out)
  BY LenProperties
<1>2. out[1] \in Assigned(program) /\ (Len(out) # 1 => out[2] \in Assigned(program))
  BY <1>1 DEF ToSet
<1> PICK first : first = WriteVector(e, out[1], data)
  OBVIOUS
<1>3. Owns(program, first)
  BY <1>2, WriteVectorStored DEF Stored
<1>4. Len(out) # 1 => Owns(program, WriteVector(first, out[2], data))
  BY <1>2, <1>3, WriteVectorStored DEF Stored
<1>5. WriteVectors(e, out, data) = IF Len(out) = 1 THEN first ELSE WriteVector(first, out[2], data)
  BY DEF WriteVectors
<1> QED
  BY <1>3, <1>4, <1>5

\* The plan of a batch: three slots are replaced.
Planned(program, e, pages, offsets, table, new) ==
  /\ Owns(program, new) /\ new.values = e.values
  /\ new.slots["write_page_ids"].data = pages
  /\ new.slots["write_offsets"].data = offsets
  /\ new.slots["page_table"].data = table
  /\ \A n \in Declared(program) \ {"write_page_ids", "write_offsets", "page_table"} :
       new.slots[n] = e.slots[n]

LEMMA PlanStored ==
  ASSUME NEW program \in Programs, NEW e, Owns(program, e), NEW ps, NEW os, NEW table,
         {"write_page_ids", "write_offsets", "page_table"} \subseteq Declared(program),
         NEW pages, pages = Upload(e, ps), NEW offsets, offsets = UploadAlso(e, {pages.id}, os)
  PROVE  Planned(program, e, ps, os, table,
                 SetReference(SetReference(SetReference(e, "write_page_ids", pages),
                                           "write_offsets", offsets),
                              "page_table", HostValue("table", table)))
<1>1. pages.data = ps /\ pages.id # 0 /\ IsFresh(e, pages)
  BY UploadStored
<1>3. /\ offsets.data = os /\ offsets.id # 0 /\ IsFresh(e, offsets) /\ offsets.id # pages.id
  <2> PICK held : held = {pages.id}
    OBVIOUS
  <2>1. /\ UploadAlso(e, held, os) \in [kind : {"tensor"}, id : TensorIds, data : {os}]
        /\ UploadAlso(e, held, os).id \notin held
        /\ IsFresh(e, UploadAlso(e, held, os))
        /\ UploadAlso(e, held, os).id # 0
    <3>1. IsFiniteSet(held) /\ Cardinality(held) <= 1
      <4>1. IsFiniteSet({pages.id}) /\ Cardinality({pages.id}) = 1
        BY FS_Singleton
      <4> QED
        BY <4>1
    <3> QED
      BY <3>1, UploadIsFresh
  <2> QED
    BY <2>1
<1> PICK e1 : e1 = SetReference(e, "write_page_ids", pages)
  OBVIOUS
<1>4. Owns(program, e1) /\ e1.values = e.values /\ e1.slots = Update(e.slots, "write_page_ids", pages)
  BY <1>1, RefNew
<1>5. IsFresh(e1, offsets)
  <2>1. OneNameEach(e.slots)
    BY DEF Owns
  <2>2. IdsIn(e1.slots) \subseteq IdsIn(e.slots) \cup ({pages.id} \ {0})
    BY <1>4, <2>1, UpdatedIds
  <2> QED
    BY <1>3, <1>4, <2>2 DEF IsFresh
<1> PICK e2 : e2 = SetReference(e1, "write_offsets", offsets)
  OBVIOUS
<1>6. Owns(program, e2) /\ e2.values = e1.values /\ e2.slots = Update(e1.slots, "write_offsets", offsets)
  BY <1>4, <1>5, RefNew
<1> PICK t : t = HostValue("table", table)
  OBVIOUS
<1>7. t.id = 0 /\ t.data = table
  BY HostValues
<1> PICK e3 : e3 = SetReference(e2, "page_table", t)
  OBVIOUS
<1>8. Owns(program, e3) /\ e3.values = e2.values /\ e3.slots = Update(e2.slots, "page_table", t)
  BY <1>6, <1>7, RefNew
<1>9. DOMAIN e.slots = Declared(program) /\ DOMAIN e1.slots = Declared(program) /\ DOMAIN e2.slots = Declared(program)
  BY <1>4, <1>6 DEF Owns
<1>10. /\ e1.slots["write_page_ids"] = pages
       /\ \A n \in Declared(program) \ {"write_page_ids"} : e1.slots[n] = e.slots[n]
  BY <1>4, <1>9 DEF Update
<1>11. /\ e2.slots["write_offsets"] = offsets
       /\ \A n \in Declared(program) \ {"write_offsets"} : e2.slots[n] = e1.slots[n]
  BY <1>6, <1>9 DEF Update
<1>12. /\ e3.slots["page_table"] = t
       /\ \A n \in Declared(program) \ {"page_table"} : e3.slots[n] = e2.slots[n]
  BY <1>8, <1>9 DEF Update
<1>13. e3.slots["write_page_ids"] = pages /\ e3.slots["write_offsets"] = offsets
  BY <1>10, <1>11, <1>12
<1>14. \A n \in Declared(program) \ {"write_page_ids", "write_offsets", "page_table"} :
         e3.slots[n] = e.slots[n]
  BY <1>10, <1>11, <1>12
<1> QED
  BY <1>1, <1>3, <1>4, <1>6, <1>7, <1>8, <1>12, <1>13, <1>14 DEF Planned

------------------------------------------------------------------------------
(* Every name keeps an open tensor.                                          *)

RunInv ==
  /\ session.program \in Programs
  /\ Owns(session.program, env)
  /\ status = "running" => Nested(session.program, frames)

LEMMA OpenTensors ==
  ASSUME RunInv
  PROVE  NamesHoldOpenTensors
BY DEF RunInv, Owns, NamesHoldOpenTensors

\* The step that is due.
LEMMA Due ==
  ASSUME RunInv, InBody
  PROVE  /\ Nested(session.program, frames) /\ IsProgram(session.program)
         /\ Current \in StepsOf(session.program)
         /\ WritesItsOwn(session.program, Current)
         /\ Current.out \in Seq(ToSet(Current.out)) /\ Current.in \in Seq(ToSet(Current.in))
         /\ ToSet(Current.out) \subseteq Assigned(session.program)
         /\ Current.out # <<>> => Output \in ToSet(Current.out)
         /\ Last(frames).pc <= Len(Last(frames).body)
<1> PICK program : program = session.program
  OBVIOUS
<1> PICK stack : stack = frames
  OBVIOUS
<1>1. Nested(program, stack) /\ IsProgram(program)
  BY ProgramsAssumption DEF RunInv, InBody
<1>2. IsFrame(program, Last(stack))
  <2>1. Len(stack) \in 1..Len(stack)
    BY <1>1, SequenceFacts DEF Nested
  <2> QED
    BY <1>1, <2>1 DEF Nested, Last
<1> PICK f : f = Last(stack)
  OBVIOUS
<1>3. f.pc <= Len(f.body) /\ Current = f.body[f.pc]
  BY DEF InBody, Top, Current
<1>4. f.pc \in 1..Len(f.body) /\ f.body \in Seq(StepsOf(program))
  <2>1. Len(f.body) \in Nat
    BY <1>2, LenProperties DEF IsFrame
  <2> QED
    BY <1>2, <1>3, <2>1 DEF IsFrame
<1> PICK step : step = Current
  OBVIOUS
<1>5. step \in StepsOf(program)
  BY <1>3, <1>4, ElementOfSeq
<1>6. /\ WritesItsOwn(program, step) /\ step.out \in Seq(ToSet(step.out))
      /\ step.in \in Seq(ToSet(step.in)) /\ ToSet(step.out) \subseteq Assigned(program)
  BY <1>1, <1>5, BodiesHoldSteps DEF IsProgram
<1>7. step.out # <<>> => step.out[1] \in ToSet(step.out)
  <2>1. Len(step.out) \in Nat /\ DOMAIN step.out = 1..Len(step.out)
    BY <1>6, LenProperties
  <2>2. step.out # <<>> => 1 \in DOMAIN step.out
    BY <1>6, <2>1, EmptySeq
  <2> QED
    BY <2>2 DEF ToSet
<1> QED
  BY <1>1, <1>3, <1>5, <1>6, <1>7 DEF Output

LEMMA OneOutput ==
  ASSUME RunInv, InBody, Len(Current.out) = 1
  PROVE  Output \in ToSet(Current.out) /\ Output \in Assigned(session.program)
<1>1. Current.out # <<>>
  OBVIOUS
<1> QED
  BY <1>1, Due

LEMMA ContinueHolds ==
  ASSUME RunInv, InBody, NEW e, Owns(session.program, e), Continue(e), session' = session
  PROVE  RunInv'
<1>1. Nested(session.program, frames) /\ Last(frames).pc <= Len(Last(frames).body)
  BY Due
<1>2. Nested(session.program, Advanced(frames))
  BY <1>1, AdvancedStack
<1> QED
  BY <1>2 DEF RunInv, Continue

LEMMA EndRunHolds ==
  ASSUME RunInv, NEW e, Owns(session.program, e), NEW outcome, outcome # "running",
         EndRun(outcome, e), session' = session
  PROVE  RunInv'
<1>1. Owns(session.program, CloseRun(e))
  BY RunEnds
<1> QED
  BY <1>1 DEF RunInv, EndRun

\* The interpreter writes two names of its own.
LEMMA LoopNames ==
  ASSUME NEW program
  PROVE  "loop_index" \in Assigned(program) /\ "loop_break" \in Assigned(program)
BY DEF Assigned

LEMMA SessionBegins ==
  ASSUME Init
  PROVE  RunInv
<1> PICK program : program = session.program
  OBVIOUS
<1>1. program \in Programs /\ IsProgram(program) /\ env = NewRun(NewState(program.state))
  BY ProgramsAssumption DEF Init
<1>2. Owns(program, env)
  BY <1>1, NewStateOwns
<1> QED
  BY <1>1, <1>2 DEF RunInv, Init

LEMMA StartHolds ==
  ASSUME RunInv, StartRun
  PROVE  RunInv'
<1>1. IsProgram(session.program) /\ Owns(session.program, env)
  BY ProgramsAssumption DEF RunInv
<1>2. Owns(session.program, NewRun(env.slots))
  BY <1>1, RunBegins
<1>3. Nested(session.program, <<Frame("main", session.program.steps, 0, 0)>>)
  BY <1>1, MainNested
<1> QED
  BY <1>2, <1>3 DEF RunInv, StartRun

LEMMA EnterLoopHolds ==
  ASSUME RunInv, EnterLoop
  PROVE  RunInv'
<1>1. InBody
  BY DEF EnterLoop, EnterUntilEOF, EnterLoopCount, EnterLoopEach, At
<1> PICK program : program = session.program
  OBVIOUS
<1>2. /\ Nested(program, frames) /\ IsProgram(program) /\ program \in Programs /\ Owns(program, env)
      /\ Last(frames).pc <= Len(Last(frames).body) /\ WritesItsOwn(program, Current)
  BY <1>1, Due DEF RunInv
<1>3. Current = Last(frames).body[Last(frames).pc] /\ Current.op \in LoopOps
  BY DEF Current, Top, LoopOps, EnterLoop, EnterUntilEOF, EnterLoopCount, EnterLoopEach, At
<1>4. "loop_index" \in Assigned(program)
  BY LoopNames
<1>5. Owns(program, env')
  <2>1. CASE EnterUntilEOF
    BY <1>2, <2>1 DEF EnterUntilEOF
  <2>2. CASE EnterLoopCount
    <3> PICK e : e = DropValue(env, "loop_break")
      OBVIOUS
    <3> PICK v : v = HostValue("index", 0)
      OBVIOUS
    <3>1. Owns(program, e) /\ v.id = 0
      BY <1>2, DropValueOwns, HostValues
    <3>2. Owns(program, SetValue(e, "loop_index", v))
      BY <1>2, <1>4, <3>1, StoreNew
    <3> QED
      BY <2>2, <3>2 DEF EnterLoopCount
  <2>3. CASE EnterLoopEach
    <3> PICK v : v = HostValue("item", 1)
      OBVIOUS
    <3>1. v.id = 0
      BY HostValues
    <3>2. Len(Current.out) = 1
      BY <1>2, <2>3 DEF EnterLoopEach, At, WritesItsOwn
    <3>3. Output \in Assigned(program)
      BY <1>1, <3>2, OneOutput
    <3>4. Owns(program, SetValue(env, Output, v))
      BY <1>2, <3>1, <3>3, StoreNew
    <3> QED
      BY <2>3, <3>4 DEF EnterLoopEach
  <2> QED
    BY <2>1, <2>2, <2>3 DEF EnterLoop
<1>6. PICK left, before : frames' = Append(frames, Frame(Current.op, Current.body, left, before))
  BY DEF EnterLoop, EnterUntilEOF, EnterLoopCount, EnterLoopEach, At
<1>7. Nested(program, frames')
  BY <1>2, <1>3, <1>6, Pushed
<1> QED
  BY <1>2, <1>5, <1>7 DEF RunInv, EnterLoop, Silent

\* The bodies of loops end.
LEMMA BodyEnds ==
  ASSUME RunInv, BodyDone
  PROVE  /\ Nested(session.program, frames) /\ IsProgram(session.program)
         /\ session.program \in Programs /\ Owns(session.program, env)
BY ProgramsAssumption DEF RunInv, BodyDone

\* The loop whose body is executed writes the name of its item.
LEMMA LoopStepWrites ==
  ASSUME RunInv, BodyDone, Top.kind = "loop_each"
  PROVE  /\ LoopStep \in StepsOf(session.program)
         /\ LoopStep.out[1] \in Assigned(session.program)
<1> PICK program : program = session.program
  OBVIOUS
<1> PICK stack : stack = frames
  OBVIOUS
<1> PICK n : n = Len(stack)
  OBVIOUS
<1>1. Nested(program, stack) /\ IsProgram(program) /\ stack[n].kind = "loop_each"
  BY BodyEnds DEF Top, Last
<1>2. n \in Nat /\ n >= 1 /\ stack \in Seq(ToSet(stack))
  BY <1>1, SequenceFacts DEF Nested
<1>3. n # 1
  BY <1>1 DEF Nested
<1>4. n - 1 \in 1..n /\ n - 1 \in 1..(n - 1)
  BY <1>2, <1>3
<1>5. LoopStep = stack[n - 1].body[stack[n - 1].pc]
  <2>1. Front(stack) = SubSeq(stack, 1, n - 1) /\ Len(SubSeq(stack, 1, n - 1)) = n - 1
        /\ SubSeq(stack, 1, n - 1)[n - 1] = stack[n - 1]
    BY <1>2, <1>4 DEF Front
  <2> QED
    BY <2>1 DEF LoopStep, Last
<1> PICK m : m = n - 1
  OBVIOUS
<1> PICK f : f = stack[m]
  OBVIOUS
<1>6. IsFrame(program, f) /\ Encloses(f, stack[m + 1]) /\ m + 1 = n
  BY <1>1, <1>2, <1>4 DEF Nested
<1> PICK step : step = LoopStep
  OBVIOUS
<1>7. step \in StepsOf(program) /\ step.op = "loop_each"
  <2>1. f.pc \in 1..Len(f.body) /\ f.body \in Seq(StepsOf(program))
    <3>1. Len(f.body) \in Nat
      BY <1>6, LenProperties DEF IsFrame
    <3> QED
      BY <1>6, <3>1 DEF IsFrame, Encloses
  <2>2. f.body[f.pc] \in StepsOf(program)
    BY <2>1, ElementOfSeq
  <2> QED
    BY <1>1, <1>5, <1>6, <2>2 DEF Encloses
<1>8. Len(step.out) = 1 /\ step.out \in Seq(ToSet(step.out)) /\ ToSet(step.out) \subseteq Assigned(program)
  <2>1. WritesItsOwn(program, step)
    BY <1>1, <1>7 DEF IsProgram
  <2> QED
    BY <1>1, <1>7, <2>1, BodiesHoldSteps DEF WritesItsOwn
<1>9. step.out[1] \in ToSet(step.out)
  <2>1. 1 \in DOMAIN step.out
    BY <1>8, LenProperties
  <2> QED
    BY <2>1 DEF ToSet
<1> QED
  BY <1>7, <1>8, <1>9

LEMMA EndIterationHolds ==
  ASSUME RunInv, EndCountedIteration \/ EndEachIteration \/ EndUntilEOFIteration
  PROVE  RunInv'
<1>1. BodyDone /\ Top.kind # "main" /\ UNCHANGED <<session, status>>
  BY DEF EndCountedIteration, EndEachIteration, EndUntilEOFIteration, Silent
<1> PICK program : program = session.program
  OBVIOUS
<1>2. /\ Nested(program, frames) /\ IsProgram(program) /\ program \in Programs /\ Owns(program, env)
  BY <1>1, BodyEnds
<1>3. Nested(program, Popped(frames))
  BY <1>1, <1>2, PoppedStack DEF Top
<1>4. \A left, before : Nested(program, Again(frames, left, before))
  BY <1>2, AgainStack
<1>5. Nested(program, frames')
  BY <1>3, <1>4 DEF EndCountedIteration, EndEachIteration, EndUntilEOFIteration
<1>6. ASSUME NEW name \in Assigned(program), NEW kind, NEW data
      PROVE  Owns(program, SetValue(env, name, HostValue(kind, data)))
  <2> PICK v : v = HostValue(kind, data)
    OBVIOUS
  <2>1. v.id = 0
    BY HostValues
  <2> QED
    BY <1>2, <2>1, StoreNew
<1>7. Owns(program, env')
  <2>1. CASE EndCountedIteration
    <3>1. Owns(program, DropValue(env, "loop_break"))
      BY <1>2, DropValueOwns
    <3>2. "loop_index" \in Assigned(program)
      BY LoopNames
    <3>3. Owns(program, SetValue(env, "loop_index", HostValue("index", env.values["loop_index"].data + 1)))
      BY <1>6, <3>2
    <3> QED
      BY <1>2, <2>1, <3>1, <3>3 DEF EndCountedIteration
  <2>2. CASE EndEachIteration
    <3>1. LoopStep.out[1] \in Assigned(program)
      BY <1>1, <2>2, LoopStepWrites DEF EndEachIteration
    <3>2. Owns(program, SetValue(env, LoopStep.out[1],
                                 HostValue("item", env.values[LoopStep.out[1]].data + 1)))
      BY <1>6, <3>1
    <3> QED
      BY <1>2, <2>2, <3>2 DEF EndEachIteration
  <2>3. CASE EndUntilEOFIteration
    BY <1>2, <2>3 DEF EndUntilEOFIteration
  <2> QED
    BY <2>1, <2>2, <2>3
<1> QED
  BY <1>1, <1>2, <1>5, <1>7 DEF RunInv

LEMMA DueStep ==
  ASSUME RunInv, InBody
  PROVE  session.program \in Programs /\ Owns(session.program, env) /\ IsProgram(session.program)
BY ProgramsAssumption DEF RunInv

LEMMA ReadLineHolds ==
  ASSUME RunInv, ReadLine
  PROVE  RunInv'
<1> PICK program : program = session.program
  OBVIOUS
<1>1. InBody /\ session' = session /\ status' = status
  BY DEF ReadLine, At
<1>2. /\ Nested(program, frames) /\ program \in Programs /\ Owns(program, env)
      /\ Last(frames).pc <= Len(Last(frames).body) /\ Len(Current.out) = 1
  BY <1>1, Due, DueStep DEF WritesItsOwn, ReadLine, At
<1>3. PICK line : /\ env' = SetValue(env, Output, HostValue("line", line))
                  /\ \/ Top.kind = "until_eof" /\ frames' = Popped(frames)
                     \/ frames' = Advanced(frames)
  BY DEF ReadLine
<1> PICK v : v = HostValue("line", line)
  OBVIOUS
<1>4. Owns(program, env')
  <2>1. Output \in Assigned(program) /\ v.id = 0
    BY <1>1, <1>2, OneOutput, HostValues
  <2>2. Owns(program, SetValue(env, Output, v))
    BY <1>2, <2>1, StoreNew
  <2> QED
    BY <1>3, <2>2
<1>5. Nested(program, frames')
  <2>1. CASE Top.kind = "until_eof" /\ frames' = Popped(frames)
    BY <1>2, <2>1, PoppedStack DEF Top
  <2>2. CASE frames' = Advanced(frames)
    BY <1>2, <2>2, AdvancedStack
  <2> QED
    BY <1>3, <2>1, <2>2
<1> QED
  BY <1>1, <1>2, <1>4, <1>5 DEF RunInv

\* The nearest until_eof loop is not the program itself.
LEMMA EOFLoop ==
  ASSUME NEW program, NEW stack, Nested(program, stack),
         NEW loops, loops = {i \in DOMAIN stack : stack[i].kind = "until_eof"}, loops # {}
  PROVE  /\ Max(loops) \in loops /\ Max(loops) - 1 \in 1..Len(stack)
         /\ Max(loops) \in 2..Len(stack)
         /\ stack[Max(loops) - 1].pc <= Len(stack[Max(loops) - 1].body)
<1> PICK n : n = Len(stack)
  OBVIOUS
<1>1. n \in Nat /\ DOMAIN stack = 1..n
  BY SequenceFacts DEF Nested
<1>2. loops \in SUBSET (1..n)
  BY <1>1
<1> DEFINE S == {n - i : i \in loops}
<1>3. S \in SUBSET Nat /\ S # {}
  BY <1>1, <1>2
<1>4. Min(S) \in S
  BY <1>3, LeastOf
<1>5. PICK x \in loops : Min(S) = n - x
  BY <1>4
<1>6. PICK m \in S : \A y \in S : ~ (<<y, m>> \in OpToRel(<, Nat))
  BY <1>3, NatLessThanWellFounded, WFMin
<1>7. PICK top \in loops : m = n - top
  BY <1>6
<1>8. \A i \in loops : top >= i
  <2> SUFFICES ASSUME NEW i \in loops, ~ (top >= i) PROVE FALSE
    OBVIOUS
  <2>1. n - i \in S /\ n - i \in Nat /\ m \in Nat
    BY <1>1, <1>2, <1>3
  <2>2. n - i < m
    BY <1>1, <1>2, <1>7
  <2> QED
    BY <1>6, <2>1, <2>2 DEF OpToRel
<1>9. Max(loops) = CHOOSE z \in loops : \A i \in loops : z >= i
  BY DEF Max
<1>10. Max(loops) \in loops
  BY <1>8, <1>9
<1> PICK k : k = Max(loops)
  OBVIOUS
<1>11. k \in 1..n /\ k # 1
  BY <1>2, <1>10 DEF Nested
<1>12. k \in 2..n /\ k - 1 \in 1..n /\ k - 1 \in 1..(n - 1)
  BY <1>1, <1>11
<1>13. stack[k - 1].pc <= Len(stack[k - 1].body)
  BY <1>12 DEF Nested, Encloses
<1> QED
  BY <1>10, <1>12, <1>13

LEMMA ReadEOFHolds ==
  ASSUME RunInv, ReadEOF
  PROVE  RunInv'
<1> PICK program : program = session.program
  OBVIOUS
<1> PICK loops : loops = {i \in DOMAIN frames : frames[i].kind = "until_eof"}
  OBVIOUS
<1>1. InBody /\ session' = session
  BY DEF ReadEOF, At
<1>2. Nested(program, frames) /\ Owns(program, env)
  BY <1>1, Due, DueStep
<1>3. IF loops = {} THEN EndRun("failed", env)
      ELSE frames' = Advanced(SubSeq(frames, 1, Max(loops) - 1)) /\ UNCHANGED <<env, status>>
  BY DEF ReadEOF
<1>4. CASE loops = {}
  BY <1>1, <1>2, <1>3, <1>4, EndRunHolds
<1>5. CASE loops # {}
  <2> PICK k : k = Max(loops) - 1
    OBVIOUS
  <2>1. k \in 1..Len(frames) /\ frames[k].pc <= Len(frames[k].body)
    BY <1>2, <1>5, EOFLoop
  <2>2. Nested(program, Advanced(SubSeq(frames, 1, k)))
    BY <1>2, <2>1, CutAt
  <2> QED
    BY <1>1, <1>2, <1>3, <1>5, <2>2 DEF RunInv
<1> QED
  BY <1>4, <1>5

LEMMA EncodeHolds ==
  ASSUME RunInv, Encode
  PROVE  RunInv'
<1> PICK program : program = session.program
  OBVIOUS
<1>1. InBody /\ session' = session
  BY DEF Encode, At, Silent
<1>2. program \in Programs /\ Owns(program, env) /\ Output \in Assigned(program)
  BY <1>1, Due, DueStep, OneOutput DEF WritesItsOwn, Encode, At
<1>3. PICK tokens : Continue(SetValue(env, Output, HostValue("tokens", tokens)))
  BY DEF Encode
<1> PICK v : v = HostValue("tokens", tokens)
  OBVIOUS
<1>4. Owns(program, SetValue(env, Output, v))
  BY <1>2, HostValues, StoreNew
<1> QED
  BY <1>1, <1>3, <1>4, ContinueHolds

LEMMA SampleHolds ==
  ASSUME RunInv, Sample
  PROVE  RunInv'
<1> PICK program : program = session.program
  OBVIOUS
<1>1. InBody /\ session' = session
  BY DEF Sample, At, Silent
<1>2. program \in Programs /\ Owns(program, env) /\ Output \in Assigned(program)
  BY <1>1, Due, DueStep, OneOutput DEF WritesItsOwn, Sample, At
<1> PICK flag : flag = HostValue("flag", TRUE)
  OBVIOUS
<1>3. PICK token, e : /\ e \in {env, SetValue(env, "loop_break", flag)}
                      /\ Continue(SetValue(e, Output, HostValue("tokens", <<token>>)))
  BY DEF Sample
<1> PICK v : v = HostValue("tokens", <<token>>)
  OBVIOUS
<1>4. Owns(program, e)
  <2>1. flag.id = 0 /\ "loop_break" \in Assigned(program)
    BY HostValues, LoopNames
  <2>2. Owns(program, SetValue(env, "loop_break", flag))
    BY <1>2, <2>1, StoreNew
  <2> QED
    BY <1>2, <1>3, <2>2
<1>5. Owns(program, SetValue(e, Output, v))
  BY <1>2, <1>4, HostValues, StoreNew
<1> QED
  BY <1>1, <1>3, <1>5, ContinueHolds

LEMMA VectorHolds ==
  ASSUME RunInv, Vector
  PROVE  RunInv'
<1> PICK program : program = session.program
  OBVIOUS
<1>1. InBody /\ session' = session
  BY DEF Vector, At, Silent
<1> PICK out : out = Current.out
  OBVIOUS
<1>2. /\ program \in Programs /\ Owns(program, env) /\ ToSet(out) \subseteq Assigned(program)
      /\ out \in Seq(ToSet(out)) /\ Len(out) \in {1, 2}
  BY <1>1, Due, DueStep DEF WritesItsOwn, Vector, At
<1>3. PICK data : Continue(WriteVectors(env, out, data))
  BY DEF Vector
<1>4. Owns(program, WriteVectors(env, out, data))
  BY <1>2, WriteVectorsOwns
<1> QED
  BY <1>1, <1>3, <1>4, ContinueHolds

LEMMA SchedulerDeltaHolds ==
  ASSUME RunInv, SchedulerDelta
  PROVE  RunInv'
<1> PICK program : program = session.program
  OBVIOUS
<1>1. InBody /\ session' = session
  BY DEF SchedulerDelta, At, Silent
<1>2. program \in Programs /\ Owns(program, env) /\ Output \in Assigned(program)
  BY <1>1, Due, DueStep, OneOutput DEF WritesItsOwn, SchedulerDelta, At
<1> PICK v : v = HostValue("delta", Data(Current.in[2]) + 1)
  OBVIOUS
<1>3. Continue(SetValue(env, Output, v))
  BY DEF SchedulerDelta
<1>4. Owns(program, SetValue(env, Output, v))
  BY <1>2, HostValues, StoreNew
<1> QED
  BY <1>1, <1>3, <1>4, ContinueHolds

\* y is the value its name held, or a fresh one if that was closed.
LEMMA AxpyStores ==
  ASSUME RunInv, Axpy
  PROVE  \E v : /\ v.data = Append(Lookup(env, Output).data, Data(Current.in[3]))
                /\ Stored(session.program, env, Output, v, env')
                /\ Continue(env')
<1> PICK program : program = session.program
  OBVIOUS
<1>1. InBody /\ session' = session
  BY DEF Axpy, At, Silent
<1>2. program \in Programs /\ Owns(program, env) /\ Output \in Assigned(program)
  BY <1>1, Due, DueStep, OneOutput DEF WritesItsOwn, Axpy, At
<1>u. \A d : IsFresh(env, Upload(env, d)) /\ Upload(env, d).data = d
  BY <1>2, UploadStored
<1> PICK name : name = Output
  OBVIOUS
<1> PICK y : y = Lookup(env, name)
  OBVIOUS
<1> PICK sum : sum = Append(y.data, Data(Current.in[3]))
  OBVIOUS
<1>3. Current.in[1] = name /\ Known(env, name)
  <2>1. Current.in # <<>> /\ Output = Current.in[1] /\ Current.in \in Seq(ToSet(Current.in))
    BY <1>1, Due DEF WritesItsOwn, Axpy, At, Output
  <2>2. 1 \in DOMAIN Current.in
    BY <2>1, SequenceFacts
  <2>3. Current.in[1] \in ToSet(Current.in)
    BY <2>2 DEF ToSet
  <2> QED
    BY <2>1, <2>3 DEF Axpy, InputsReadable, Readable
<1> PICK closed, v :
      /\ Continue(Write(Env(env.values, env.slots, closed), name, v))
      /\ \/ closed = {} /\ v = TensorValue(y.id, sum)
         \/ closed = {y.id} /\ v = Upload(env, sum)
  <2>1. Env(env.values, env.slots, {}) = env
    BY <1>2, NothingClosed
  <2>2. env.closed \cup {y.id} = {y.id}
    BY <1>2 DEF Owns
  <2> QED
    BY <1>3, <2>1, <2>2 DEF Axpy
<1>4. MayStore(env, closed, y.id, v) /\ v.data = sum
  <2>1. IsFresh(env, Upload(env, sum)) /\ Upload(env, sum).data = sum
    BY <1>u
  <2> QED
    BY <2>1 DEF MayStore, TensorValue
<1>5. Stored(program, env, name, v, Write(Env(env.values, env.slots, closed), name, v))
  BY <1>2, <1>3, <1>4, WriteOwns
<1> QED
  BY <1>4, <1>5 DEF Continue

LEMMA AxpyHolds ==
  ASSUME RunInv, Axpy
  PROVE  RunInv'
<1>1. InBody /\ session' = session
  BY DEF Axpy, At, Silent
<1>e. PICK e : e = env'
  OBVIOUS
<1>2. Owns(session.program, e) /\ Continue(e)
  BY <1>e, AxpyStores DEF Stored
<1> QED
  BY <1>1, <1>2, ContinueHolds

LEMMA UpdateStateHolds ==
  ASSUME RunInv, UpdateState
  PROVE  RunInv'
<1> PICK program : program = session.program
  OBVIOUS
<1>1. InBody /\ session' = session
  BY DEF UpdateState, At, Silent
<1>2. /\ program \in Programs /\ Owns(program, env) /\ WritesItsOwn(program, Current)
      /\ Current.op = "update"
  BY <1>1, Due, DueStep DEF UpdateState, At
<1>3. Output \in Declared(program)
  BY <1>1, <1>2, OneOutput DEF WritesItsOwn
<1> PICK v : v = HostValue("counter", env.slots[Output].data + 1)
  OBVIOUS
<1>4. Owns(program, SetReference(env, Output, v))
  BY <1>2, <1>3, HostValues, RefNew
<1>5. Continue(SetReference(env, Output, v))
  BY DEF UpdateState
<1> QED
  BY <1>1, <1>4, <1>5, ContinueHolds

LEMMA CallGraphHolds ==
  ASSUME RunInv, CallGraph
  PROVE  RunInv'
<1> PICK program : program = session.program
  OBVIOUS
<1>1. InBody /\ session' = session
  BY DEF CallGraph, At, Silent
<1>2. program \in Programs /\ Owns(program, env) /\ Output \in Assigned(program)
  BY <1>1, Due, DueStep, OneOutput DEF WritesItsOwn, CallGraph, At
<1> PICK v : v = Upload(env, 0)
  OBVIOUS
<1>3. Owns(program, Write(env, Output, v))
  BY <1>2, UploadStored, StoreNew DEF Stored
<1>4. Continue(Write(env, Output, v))
  BY DEF CallGraph
<1> QED
  BY <1>1, <1>3, <1>4, ContinueHolds

\* What the slots of the plan hold after a plan of a batch.
LEMMA PagedPlanStores ==
  ASSUME RunInv, PagedPlan
  PROVE  /\ Planned(session.program, env,
                    PlanPages(Data(Current.in[2]), Len(Data(Current.in[1]))),
                    PlanOffsets(Data(Current.in[2]), Len(Data(Current.in[1]))),
                    PlanTable(Data(Current.in[2]), Len(Data(Current.in[1]))), env')
         /\ Continue(env')
<1> PICK program : program = session.program
  OBVIOUS
<1>1. InBody /\ session' = session
  BY DEF PagedPlan, At, Silent
<1>2. /\ program \in Programs /\ Owns(program, env)
      /\ {"write_page_ids", "write_offsets", "page_table"} \subseteq Declared(program)
  <2>1. /\ program \in Programs /\ Owns(program, env) /\ WritesItsOwn(program, Current)
        /\ Current.op = "paged_plan"
    BY <1>1, Due, DueStep DEF PagedPlan, At
  <2>2. /\ Current.out = <<"write_page_ids", "write_offsets", "page_table">>
        /\ ToSet(Current.out) \subseteq Declared(program)
    BY <2>1 DEF WritesItsOwn
  <2>3. ToSet(<<"write_page_ids", "write_offsets", "page_table">>)
          = {"write_page_ids", "write_offsets", "page_table"}
    BY DEF ToSet
  <2> QED
    BY <2>1, <2>2, <2>3
<1> PICK start : start = Data(Current.in[2])
  OBVIOUS
<1> PICK count : count = Len(Data(Current.in[1]))
  OBVIOUS
<1> PICK pages : pages = Upload(env, PlanPages(start, count))
  OBVIOUS
<1> PICK offsets : offsets = UploadAlso(env, {pages.id}, PlanOffsets(start, count))
  OBVIOUS
<1> PICK new : new = SetReference(SetReference(SetReference(env, "write_page_ids", pages),
                                              "write_offsets", offsets),
                                 "page_table", HostValue("table", PlanTable(start, count)))
  OBVIOUS
<1>3. Continue(new)
  BY DEF PagedPlan
<1>4. Planned(program, env, PlanPages(start, count), PlanOffsets(start, count),
              PlanTable(start, count), new)
  BY <1>2, PlanStored
<1>5. env' = new
  BY <1>3 DEF Continue
<1> QED
  BY <1>3, <1>4, <1>5

LEMMA PagedPlanHolds ==
  ASSUME RunInv, PagedPlan
  PROVE  RunInv'
<1> PICK e : e = env'
  OBVIOUS
<1>1. Owns(session.program, e) /\ Continue(e)
  BY PagedPlanStores DEF Planned
<1> QED
  BY <1>1, ContinueHolds DEF PagedPlan, At, Silent

LEMMA AdvancePositionHolds ==
  ASSUME RunInv, AdvancePosition
  PROVE  RunInv'
<1> PICK program : program = session.program
  OBVIOUS
<1>1. InBody /\ session' = session
  BY DEF AdvancePosition, At
<1>2. /\ program \in Programs /\ Owns(program, env) /\ WritesItsOwn(program, Current)
      /\ Current.op = "advance_position"
  BY <1>1, Due, DueStep DEF AdvancePosition, At
<1>3. Output \in Declared(program)
  BY <1>1, <1>2, OneOutput DEF WritesItsOwn
<1> PICK v : v = Upload(env, Data(Current.in[2]) + Len(Data(Current.in[1])))
  OBVIOUS
<1>4. Owns(program, SetReference(env, Output, v))
  BY <1>2, <1>3, UploadStored, RefNew
<1>5. Continue(SetReference(env, Output, v))
  BY DEF AdvancePosition
<1> QED
  BY <1>1, <1>4, <1>5, ContinueHolds

\* The contents of the cache after the first n tokens of a batch were put in their places.
Overwritten(old, places, batch, n) ==
  [p \in 0..(Positions - 1) |->
     IF p \in Range(places) THEN batch[CHOOSE k \in 1..n : places[k] = p] ELSE old[p]]

LEMMA CacheWritten ==
  ASSUME NEW program, Owns(program, env), "pages" \in Declared(program), NEW batch, NEW n,
         NEW e, e = WriteCache(env, batch, n)
  PROVE  /\ Owns(program, e) /\ e.values = env.values
         /\ \A m \in Declared(program) \ {"pages"} : e.slots[m] = env.slots[m]
         /\ e.slots["pages"].data
              = Overwritten(env.slots["pages"].data, PlannedPlaces(n), batch, n)
<1> PICK data : data = Overwritten(env.slots["pages"].data, PlannedPlaces(n), batch, n)
  OBVIOUS
<1> PICK v : v = HostValue("paged", data)
  OBVIOUS
<1>1. e = SetReference(env, "pages", v)
  BY DEF WriteCache, Overwritten
<1>2. v.id = 0 /\ v.data = data
  BY HostValues
<1>3. Owns(program, e) /\ e.values = env.values /\ e.slots = Update(env.slots, "pages", v)
  BY <1>1, <1>2, RefNew
<1>4. DOMAIN env.slots = Declared(program)
  BY DEF Owns
<1> QED
  BY <1>2, <1>3, <1>4 DEF Update

LEMMA CallModelHolds ==
  ASSUME RunInv, CallModel
  PROVE  RunInv'
<1> PICK program : program = session.program
  OBVIOUS
<1>1. InBody /\ session' = session
  BY DEF CallModel, At
<1>2. /\ program \in Programs /\ Owns(program, env) /\ WritesItsOwn(program, Current)
      /\ Current.op = "call_model"
  BY <1>1, Due, DueStep DEF CallModel, At
<1>3. Output \in Assigned(program) /\ "pages" \in Declared(program)
  BY <1>1, <1>2, OneOutput DEF WritesItsOwn
<1> PICK batch : batch = Data(Current.in[1])
  OBVIOUS
<1> PICK e : e = WriteCache(env, batch, Len(batch))
  OBVIOUS
<1>4. Owns(program, e)
  BY <1>2, <1>3, CacheWritten
<1> PICK v : v = Upload(e, 0)
  OBVIOUS
<1>5. Owns(program, Write(e, Output, v))
  BY <1>2, <1>3, <1>4, UploadStored, StoreNew DEF Stored
<1>6. Continue(Write(e, Output, v))
  BY DEF CallModel
<1> QED
  BY <1>1, <1>5, <1>6, ContinueHolds

LEMMA CallModelFailsHolds ==
  ASSUME RunInv, CallModelFails
  PROVE  RunInv'
<1> PICK program : program = session.program
  OBVIOUS
<1>1. InBody /\ session' = session
  BY DEF CallModelFails, At, Silent
<1>2. Owns(program, env) /\ "pages" \in Declared(program)
  BY <1>1, Due, DueStep DEF CallModelFails, At, WritesItsOwn
<1>3. PICK n : EndRun("failed", WriteCache(env, Data(Current.in[1]), n))
  BY DEF CallModelFails
<1> PICK e : e = WriteCache(env, Data(Current.in[1]), n)
  OBVIOUS
<1>4. Owns(program, e)
  BY <1>2, CacheWritten
<1> QED
  BY <1>1, <1>3, <1>4, EndRunHolds

LEMMA StepHolds ==
  ASSUME RunInv, [Next]_vars
  PROVE  RunInv'
<1>1. CASE StartRun
  BY <1>1, StartHolds
<1>2. CASE FinishRun
  <2>1. Owns(session.program, env) /\ EndRun("done", env) /\ session' = session
    BY <1>2 DEF FinishRun, Silent, RunInv
  <2> QED
    BY <2>1, EndRunHolds
<1>3. CASE StepFails
  <2>1. Owns(session.program, env) /\ EndRun("failed", env) /\ session' = session
    BY <1>3 DEF StepFails, Silent, RunInv
  <2> QED
    BY <2>1, EndRunHolds
<1>4. CASE EnterLoop
  BY <1>4, EnterLoopHolds
<1>5. CASE EndCountedIteration \/ EndEachIteration \/ EndUntilEOFIteration
  BY <1>5, EndIterationHolds
<1>6. CASE ReadLine
  BY <1>6, ReadLineHolds
<1>7. CASE ReadEOF
  BY <1>7, ReadEOFHolds
<1>8. CASE Encode
  BY <1>8, EncodeHolds
<1>9. CASE Emit
  <2>1. InBody /\ Continue(env) /\ session' = session /\ Owns(session.program, env)
    BY <1>9 DEF Emit, At, Silent, RunInv
  <2> QED
    BY <2>1, ContinueHolds
<1>10. CASE Sample
  BY <1>10, SampleHolds
<1>11. CASE Vector
  BY <1>11, VectorHolds
<1>12. CASE SchedulerDelta
  BY <1>12, SchedulerDeltaHolds
<1>13. CASE Axpy
  BY <1>13, AxpyHolds
<1>14. CASE UpdateState
  BY <1>14, UpdateStateHolds
<1>15. CASE CallGraph
  BY <1>15, CallGraphHolds
<1>16. CASE PagedPlan
  BY <1>16, PagedPlanHolds
<1>17. CASE CallModel
  BY <1>17, CallModelHolds
<1>18. CASE CallModelFails
  BY <1>18, CallModelFailsHolds
<1>19. CASE AdvancePosition
  BY <1>19, AdvancePositionHolds
<1>20. CASE UNCHANGED vars
  BY <1>20 DEF RunInv, vars
<1> QED
  BY <1>1, <1>2, <1>3, <1>4, <1>5, <1>6, <1>7, <1>8, <1>9, <1>10, <1>11, <1>12, <1>13, <1>14,
     <1>15, <1>16, <1>17, <1>18, <1>19, <1>20 DEF Next

\* Whatever the program (setRuntimeValue, SetReference and closeRuntimeValues of the
\* executor), no name and no state slot ever holds a tensor that was closed.
THEOREM TensorsStayOpen == Spec => []NamesHoldOpenTensors
<1>1. Init => RunInv
  BY SessionBegins
<1>2. RunInv /\ [Next]_vars => RunInv'
  BY StepHolds
<1>3. RunInv => NamesHoldOpenTensors
  BY OpenTensors
<1> QED
  BY <1>1, <1>2, <1>3, PTL DEF Spec
------------------------------------------------------------------------------
(* Where a run of the chat program stands.                                   *)

\* The steps of a model call on the named tokens.
LEMMA ForwardSteps ==
  ASSUME NEW tokens
  PROVE  /\ PagedForward(tokens) \in Seq(ToSet(PagedForward(tokens)))
         /\ Len(PagedForward(tokens)) = 5
         /\ PagedForward(tokens)[1].op = "paged_plan"
         /\ PagedForward(tokens)[1].in = <<tokens, "position_offset">>
         /\ PagedForward(tokens)[2].op = "call_model"
         /\ PagedForward(tokens)[2].in = <<tokens, "position_offset", "pages", "page_table",
                                           "write_page_ids", "write_offsets">>
         /\ PagedForward(tokens)[2].out = <<"logits">>
         /\ PagedForward(tokens)[3].op = "sample"
         /\ PagedForward(tokens)[3].out = <<"next_token">>
         /\ PagedForward(tokens)[4].op = "emit_token"
         /\ PagedForward(tokens)[5].op = "advance_position"
         /\ PagedForward(tokens)[5].in = <<tokens, "position_offset">>
         /\ PagedForward(tokens)[5].out = <<"position_offset">>
<1>s1. PICK s1 : s1 = Step("paged_plan", <<tokens, "position_offset">>,
                        <<"write_page_ids", "write_offsets", "page_table">>, 0)
  OBVIOUS
<1>s2. PICK s2 : s2 = Step("call_model", <<tokens, "position_offset", "pages", "page_table",
                                        "write_page_ids", "write_offsets">>, <<"logits">>, 0)
  OBVIOUS
<1>s3. PICK s3 : s3 = Step("sample", <<"logits">>, <<"next_token">>, 0)
  OBVIOUS
<1>s4. PICK s4 : s4 = Step("emit_token", <<"next_token">>, <<>>, 0)
  OBVIOUS
<1>s5. PICK s5 : s5 = Step("advance_position", <<tokens, "position_offset">>, <<"position_offset">>, 0)
  OBVIOUS
<1>1. PagedForward(tokens) = <<s1, s2, s3, s4, s5>>
  BY <1>s1, <1>s2, <1>s3, <1>s4, <1>s5 DEF PagedForward
<1>2. s1.op = "paged_plan" /\ s1.in = <<tokens, "position_offset">>
  BY <1>s1 DEF Step, Loop
<1>a. /\ s2.op = "call_model" /\ s2.out = <<"logits">>
      /\ s2.in = <<tokens, "position_offset", "pages", "page_table", "write_page_ids", "write_offsets">>
  BY <1>s2 DEF Step, Loop
<1>b. s3.op = "sample" /\ s3.out = <<"next_token">> /\ s4.op = "emit_token"
  <2>1. s3.op = "sample" /\ s3.out = <<"next_token">>
    BY <1>s3 DEF Step, Loop
  <2>2. s4.op = "emit_token"
    BY <1>s4 DEF Step, Loop
  <2> QED
    BY <2>1, <2>2
<1>c. /\ s5.op = "advance_position" /\ s5.in = <<tokens, "position_offset">>
      /\ s5.out = <<"position_offset">>
  BY <1>s5 DEF Step, Loop
<1>s. PICK s : s = <<s1, s2, s3, s4, s5>>
  OBVIOUS
<1>3. Len(s) = 5 /\ s[1] = s1 /\ s[2] = s2 /\ s[3] = s3 /\ s[4] = s4 /\ s[5] = s5
  BY <1>s, ListOfFive
<1>4. s \in Seq(ToSet(s))
  BY <1>s, ListOfFive
<1>5. PagedForward(tokens) = s
  BY <1>1, <1>s
<1>6. s[1].op = "paged_plan" /\ s[1].in = <<tokens, "position_offset">>
  BY <1>2, <1>3
<1>7. /\ s[2].op = "call_model" /\ s[2].out = <<"logits">>
      /\ s[2].in = <<tokens, "position_offset", "pages", "page_table", "write_page_ids", "write_offsets">>
  BY <1>a, <1>3
<1>8. s[3].op = "sample" /\ s[3].out = <<"next_token">> /\ s[4].op = "emit_token"
  BY <1>b, <1>3
<1>9. /\ s[5].op = "advance_position" /\ s[5].in = <<tokens, "position_offset">>
      /\ s[5].out = <<"position_offset">>
  BY <1>c, <1>3
<1>10. Len(s) = 5
  BY <1>3
<1> QED
  BY <1>4, <1>5, <1>6, <1>7, <1>8, <1>9, <1>10, Zenon

LEMMA ForwardOps ==
  ASSUME NEW tokens
  PROVE  \A k \in 1..5 : PagedForward(tokens)[k].op \notin LoopOps
<1>1. \A k \in 1..5 : k = 1 \/ k = 2 \/ k = 3 \/ k = 4 \/ k = 5
  OBVIOUS
<1> QED
  BY <1>1, ForwardSteps DEF LoopOps

LEMMA TwoBefore ==
  ASSUME NEW S, NEW p \in Seq(S), Len(p) = 2, NEW f \in Seq(S), Len(f) = 5
  PROVE  /\ p \o f \in Seq(S) /\ Len(p \o f) = 7
         /\ (p \o f)[1] = p[1] /\ (p \o f)[2] = p[2]
         /\ \A k \in 1..5 : (p \o f)[k + 2] = f[k]
<1>1. /\ p \o f \in Seq(S) /\ Len(p \o f) = 7
      /\ \A i \in 1..7 : (p \o f)[i] = IF i <= 2 THEN p[i] ELSE f[i - 2]
  <2>1. p \o f \in Seq(S) /\ Len(p \o f) = Len(p) + Len(f)
    BY ConcatProperties
  <2>2. \A i \in 1..(Len(p) + Len(f)) : (p \o f)[i] = IF i <= Len(p) THEN p[i] ELSE f[i - Len(p)]
    BY ConcatProperties
  <2>3. Len(p) + Len(f) = 7
    OBVIOUS
  <2> QED
    BY <2>1, <2>2, <2>3
<1>2. \A k \in 1..5 : k + 2 \in 1..7 /\ ~(k + 2 <= 2) /\ (k + 2) - 2 = k
  OBVIOUS
<1> QED
  BY <1>1, <1>2

LEMMA OneAfter ==
  ASSUME NEW S, NEW p \in Seq(S), Len(p) = 7, NEW q \in Seq(S), Len(q) = 1
  PROVE  /\ Len(p \o q) = 8 /\ (p \o q)[8] = q[1]
         /\ \A k \in 1..7 : (p \o q)[k] = p[k]
<1>1. /\ Len(p \o q) = 8
      /\ \A i \in 1..8 : (p \o q)[i] = IF i <= 7 THEN p[i] ELSE q[i - 7]
  <2>1. Len(p \o q) = Len(p) + Len(q)
    BY ConcatProperties
  <2>2. \A i \in 1..(Len(p) + Len(q)) : (p \o q)[i] = IF i <= Len(p) THEN p[i] ELSE q[i - Len(p)]
    BY ConcatProperties
  <2>3. Len(p) + Len(q) = 8
    OBVIOUS
  <2> QED
    BY <2>1, <2>2, <2>3
<1> QED
  BY <1>1

LEMMA TurnSteps ==
  /\ Len(ChatTurn) = 8
  /\ ChatTurn[1].op = "read_line" /\ ChatTurn[1].out = <<"user_text">>
  /\ ChatTurn[2].op = "encode" /\ ChatTurn[2].out = <<"input_ids">> /\ ChatTurn[2].arg = "input_ids"
  /\ \A k \in 1..5 : ChatTurn[k + 2] = PagedForward("input_ids")[k]
  /\ ChatTurn[8].op = "loop_count" /\ ChatTurn[8].body = PagedForward("next_token")
<1> PICK a : a = Step("read_line", <<>>, <<"user_text">>, 0)
  OBVIOUS
<1> PICK b : b = Step("encode", <<"user_text">>, <<"input_ids">>, "input_ids")
  OBVIOUS
<1> PICK c : c = Loop("loop_count", <<>>, <<>>, DecodeSteps, PagedForward("next_token"))
  OBVIOUS
<1> PICK f : f = PagedForward("input_ids")
  OBVIOUS
<1>1. ChatTurn = (<<a, b>> \o f) \o <<c>>
  BY DEF ChatTurn
<1>2. f \in Seq(ToSet(f)) /\ Len(f) = 5
  BY ForwardSteps
<1> PICK S : S = ToSet(f) \cup {a, b, c}
  OBVIOUS
<1>3. f \in Seq(S) /\ <<a, b>> \in Seq(S) /\ <<c>> \in Seq(S)
  <2>1. f \in Seq(S)
    BY <1>2, SeqDef
  <2> QED
    BY <2>1
<1>d. PICK d : d = <<a, b>> \o f
  OBVIOUS
<1>4. d \in Seq(S) /\ Len(d) = 7 /\ d[1] = a /\ d[2] = b /\ \A k \in 1..5 : d[k + 2] = f[k]
  <2>p. PICK p : p = <<a, b>>
    OBVIOUS
  <2>1. p \in Seq(S) /\ Len(p) = 2 /\ p[1] = a /\ p[2] = b
    BY <1>3, <2>p
  <2>4. d = p \o f
    BY <1>d, <2>p
  <2>2. f \in Seq(S)
    BY <1>3
  <2>3. /\ p \o f \in Seq(S) /\ Len(p \o f) = 7
        /\ (p \o f)[1] = p[1] /\ (p \o f)[2] = p[2]
        /\ \A k \in 1..5 : (p \o f)[k + 2] = f[k]
    BY <1>2, <2>1, <2>2, TwoBefore
  <2> QED
    BY <2>1, <2>3, <2>4, Zenon
<1>5. Len(d \o <<c>>) = 8 /\ (d \o <<c>>)[8] = c /\ \A k \in 1..7 : (d \o <<c>>)[k] = d[k]
  <2>q. PICK q : q = <<c>>
    OBVIOUS
  <2>1. q \in Seq(S) /\ Len(q) = 1 /\ q[1] = c
    BY <1>3, <2>q
  <2>2. /\ Len(d \o q) = 8 /\ (d \o q)[8] = q[1]
        /\ \A k \in 1..7 : (d \o q)[k] = d[k]
    BY <1>4, <2>1, OneAfter
  <2> QED
    BY <2>1, <2>2, <2>q, Zenon
<1>6. \A k \in 1..5 : (d \o <<c>>)[k + 2] = f[k]
  <2>1. \A k \in 1..5 : k + 2 \in 1..7
    OBVIOUS
  <2> QED
    BY <1>4, <1>5, <2>1
<1>7. /\ a.op = "read_line" /\ a.out = <<"user_text">>
      /\ b.op = "encode" /\ b.out = <<"input_ids">> /\ b.arg = "input_ids"
      /\ c.op = "loop_count" /\ c.body = PagedForward("next_token")
  <2>1. a.op = "read_line" /\ a.out = <<"user_text">>
    BY DEF Step, Loop
  <2>2. b.op = "encode" /\ b.out = <<"input_ids">> /\ b.arg = "input_ids"
    BY DEF Step, Loop
  <2>3. c.op = "loop_count" /\ c.body = PagedForward("next_token")
    BY DEF Step, Loop
  <2> QED
    BY <2>1, <2>2, <2>3
<1>e. ChatTurn = d \o <<c>>
  BY <1>1, <1>d
<1>8. ChatTurn[1] = a /\ ChatTurn[2] = b /\ ChatTurn[8] = c /\ Len(ChatTurn) = 8
  BY <1>4, <1>5, <1>e
<1> QED
  BY <1>6, <1>7, <1>8, <1>e

LEMMA ChatSteps ==
  /\ Len(ChatProgram.steps) = 1
  /\ ChatProgram.steps[1].op = "until_eof" /\ ChatProgram.steps[1].body = ChatTurn
<1> PICK c : c = Loop("until_eof", <<>>, <<>>, 0, ChatTurn)
  OBVIOUS
<1>1. ChatProgram.steps = <<c>>
  BY DEF ChatProgram
<1>2. c.op = "until_eof" /\ c.body = ChatTurn
  BY DEF Step, Loop
<1> QED
  BY <1>1, <1>2

\* A model call takes five steps, on the line of the user or on the last token.
Stage(stack) ==
  IF Len(stack) = 2 THEN Last(stack).pc - 2 ELSE IF Len(stack) = 3 THEN Last(stack).pc ELSE 0

BatchName(stack) == IF Len(stack) = 2 THEN "input_ids" ELSE "next_token"

\* The three bodies of the program.
LEMMA ChatStack ==
  ASSUME NEW stack, Nested(ChatProgram, stack)
  PROVE  /\ Len(stack) \in 1..3
         /\ stack[1].body = ChatProgram.steps /\ stack[1].kind = "main"
         /\ Len(stack) > 1 => /\ stack[1].pc = 1 /\ stack[2].kind = "until_eof"
                              /\ stack[2].body = ChatTurn
         /\ Len(stack) > 2 => /\ stack[2].pc = 8 /\ stack[3].kind = "loop_count"
                              /\ stack[3].body = PagedForward("next_token")
         /\ Len(stack) = 1 => Last(stack).pc \in 1..2
         /\ Len(stack) = 2 => Last(stack).pc \in 1..9
         /\ Len(stack) = 3 => Last(stack).pc \in 1..6
<1> PICK n : n = Len(stack)
  OBVIOUS
<1>1. n \in Nat /\ n >= 1
  BY SequenceFacts DEF Nested
<1>2. \A i \in 1..n : /\ stack[i].pc \in 1..(Len(stack[i].body) + 1)
                      /\ stack[i].body \in Seq(StepsOf(ChatProgram))
  BY DEF Nested, IsFrame
<1>3. stack[1].body = ChatProgram.steps /\ stack[1].kind = "main" /\ stack[1].pc \in 1..2
  <2>1. stack[1].body = ChatProgram.steps /\ stack[1].kind = "main"
    BY DEF Nested
  <2>2. 1 \in 1..n
    BY <1>1
  <2>3. stack[1].pc \in 1..(Len(stack[1].body) + 1)
    BY <1>2, <2>2
  <2>4. Len(stack[1].body) = 1
    BY <2>1, ChatSteps
  <2> QED
    BY <2>1, <2>3, <2>4
<1>4. ASSUME n > 1
      PROVE  /\ stack[1].pc = 1 /\ stack[2].kind = "until_eof"
             /\ stack[2].body = ChatTurn /\ stack[2].pc \in 1..9
  <2>1. 1 \in 1..(n - 1) /\ 2 \in 1..n /\ 1 + 1 = 2
    BY <1>1, <1>4
  <2>2. Encloses(stack[1], stack[2])
    BY <2>1 DEF Nested
  <2>3. stack[1].pc = 1
    BY <1>3, <2>2, ChatSteps DEF Encloses
  <2>4. stack[2].kind = "until_eof" /\ stack[2].body = ChatTurn
    BY <1>3, <2>2, <2>3, ChatSteps DEF Encloses
  <2>5. stack[2].pc \in 1..(Len(stack[2].body) + 1)
    BY <1>2, <2>1
  <2>6. Len(stack[2].body) = 8
    BY <2>4, TurnSteps
  <2> QED
    BY <2>3, <2>4, <2>5, <2>6
<1>5. ASSUME n > 2
      PROVE  /\ stack[2].pc = 8 /\ stack[3].kind = "loop_count"
             /\ stack[3].body = PagedForward("next_token") /\ stack[3].pc \in 1..6
  <2>1. 2 \in 1..(n - 1) /\ 3 \in 1..n /\ 2 + 1 = 3 /\ n > 1
    BY <1>1, <1>5
  <2>2. Encloses(stack[2], stack[3])
    BY <2>1 DEF Nested
  <2> PICK pc : pc = stack[2].pc
    OBVIOUS
  <2>3. pc \in 1..8 /\ stack[3].kind = ChatTurn[pc].op /\ stack[3].body = ChatTurn[pc].body
    BY <1>4, <2>1, <2>2, TurnSteps DEF Encloses
  <2>4. stack[3].pc \in 1..(Len(stack[3].body) + 1)
    BY <1>2, <2>1
  <2>5. pc = 8
    <3>1. ChatTurn[pc].op \in LoopOps
      BY <1>4, <2>1, <2>2 DEF Encloses
    <3>2. \A k \in 1..5 : ChatTurn[k + 2].op \notin LoopOps
      BY TurnSteps, ForwardOps
    <3>3. pc \in 3..7 => pc - 2 \in 1..5 /\ (pc - 2) + 2 = pc
      BY <2>3
    <3>4. pc \notin 3..7
      BY <3>1, <3>2, <3>3
    <3>5. pc # 1 /\ pc # 2
      BY <3>1, TurnSteps DEF LoopOps
    <3> QED
      BY <2>3, <3>4, <3>5
  <2>6. stack[3].kind = "loop_count" /\ stack[3].body = PagedForward("next_token")
    BY <2>3, <2>5, TurnSteps
  <2>7. Len(stack[3].body) = 5
    BY <2>6, ForwardSteps
  <2>8. stack[3].pc \in 1..6
    BY <2>4, <2>7
  <2> QED
    BY <2>5, <2>6, <2>8
<1>6. n <= 3
  <2> SUFFICES ASSUME n > 3 PROVE FALSE
    BY <1>1
  <2>1. 3 \in 1..(n - 1) /\ n > 2
    BY <1>1
  <2>2. Encloses(stack[3], stack[3 + 1])
    BY <2>1 DEF Nested
  <2> PICK pc : pc = stack[3].pc
    OBVIOUS
  <2>3. pc \in 1..6 /\ pc <= 5 /\ PagedForward("next_token")[pc].op \in LoopOps
    <3>1. Len(PagedForward("next_token")) = 5
      BY ForwardSteps
    <3> QED
      BY <1>5, <2>1, <2>2, <3>1 DEF Encloses
  <2>4. pc \in 1..5
    BY <2>3
  <2> QED
    BY <2>3, <2>4, ForwardOps
<1>7. n \in 1..3
  BY <1>1, <1>6
<1>8. /\ n = 1 => Last(stack).pc \in 1..2
      /\ n = 2 => Last(stack).pc \in 1..9
      /\ n = 3 => Last(stack).pc \in 1..6
  <2>1. Last(stack) = stack[n]
    BY DEF Last
  <2> QED
    BY <1>3, <1>4, <1>5, <2>1
<1> QED
  BY <1>3, <1>4, <1>5, <1>7, <1>8

LEMMA StageStep ==
  ASSUME NEW stack, Nested(ChatProgram, stack), Last(stack).pc <= Len(Last(stack).body),
         NEW step, step = Last(stack).body[Last(stack).pc]
  PROVE  /\ Stage(stack) \in 1..5 => step = PagedForward(BatchName(stack))[Stage(stack)]
         /\ Stage(stack) \notin 1..5 =>
              \/ step.op \in {"until_eof", "loop_count"}
              \/ step.op = "read_line" /\ step.out = <<"user_text">>
              \/ step.op = "encode" /\ step.out = <<"input_ids">> /\ step.arg = "input_ids"
         /\ Stage(stack) \in -1..6
<1> PICK n : n = Len(stack)
  OBVIOUS
<1> PICK pc : pc = Last(stack).pc
  OBVIOUS
<1>a. Last(stack) = stack[n]
  BY DEF Last
<1>1. /\ n \in 1..3
      /\ n = 1 => pc \in 1..2 /\ stack[1].body = ChatProgram.steps
      /\ n = 2 => pc \in 1..9 /\ stack[2].body = ChatTurn
      /\ n = 3 => pc \in 1..6 /\ stack[3].body = PagedForward("next_token")
  <2>1. /\ n \in 1..3 /\ stack[1].body = ChatProgram.steps
        /\ n > 1 => stack[2].body = ChatTurn
        /\ n > 2 => stack[3].body = PagedForward("next_token")
        /\ n = 1 => pc \in 1..2
        /\ n = 2 => pc \in 1..9
        /\ n = 3 => pc \in 1..6
    BY ChatStack
  <2>2. n = 2 => n > 1
    OBVIOUS
  <2>3. n = 3 => n > 2
    OBVIOUS
  <2> QED
    BY <2>1, <2>2, <2>3, Zenon
<1>2. CASE n = 1
  <2>1. pc = 1 /\ step = ChatProgram.steps[1]
    BY <1>a, <1>1, <1>2, ChatSteps
  <2>2. Stage(stack) = 0
    BY <1>2 DEF Stage
  <2> QED
    BY <2>1, <2>2, ChatSteps
<1>3. CASE n = 2
  <2>1. pc \in 1..8 /\ step = ChatTurn[pc]
    BY <1>a, <1>1, <1>3, TurnSteps
  <2>2. Stage(stack) = pc - 2 /\ BatchName(stack) = "input_ids"
    BY <1>3 DEF Stage, BatchName
  <2>3. CASE pc \in 3..7
    <3>1. pc - 2 \in 1..5 /\ (pc - 2) + 2 = pc
      BY <2>3
    <3>2. ChatTurn[(pc - 2) + 2] = PagedForward("input_ids")[pc - 2]
      BY <3>1, TurnSteps
    <3> QED
      BY <2>1, <2>2, <3>1, <3>2
  <2>4. CASE pc = 1
    BY <2>1, <2>2, <2>4, TurnSteps
  <2>5. CASE pc = 2
    BY <2>1, <2>2, <2>5, TurnSteps
  <2>6. CASE pc = 8
    BY <2>1, <2>2, <2>6, TurnSteps
  <2> QED
    BY <2>1, <2>3, <2>4, <2>5, <2>6
<1>4. CASE n = 3
  <2>1. pc \in 1..5 /\ step = PagedForward("next_token")[pc]
    <3>1. Len(PagedForward("next_token")) = 5
      BY ForwardSteps
    <3> QED
      BY <1>a, <1>1, <1>4, <3>1
  <2>2. Stage(stack) = pc /\ BatchName(stack) = "next_token"
    BY <1>4 DEF Stage, BatchName
  <2> QED
    BY <2>1, <2>2
<1>5. n \in 1..3
  BY <1>1
<1>6. n = 1 \/ n = 2 \/ n = 3
  BY <1>5
<1> QED
  BY <1>2, <1>3, <1>4, <1>6

\* The operation of each stage.
LEMMA StageOps ==
  ASSUME NEW stack, Nested(ChatProgram, stack), Last(stack).pc <= Len(Last(stack).body),
         NEW step, step = Last(stack).body[Last(stack).pc]
  PROVE  /\ step.op = "paged_plan" =>
              /\ Stage(stack) = 1 /\ step.in = <<BatchName(stack), "position_offset">>
         /\ step.op = "call_model" =>
              /\ Stage(stack) = 2 /\ step.out = <<"logits">>
              /\ step.in = <<BatchName(stack), "position_offset", "pages", "page_table",
                             "write_page_ids", "write_offsets">>
         /\ step.op = "sample" => Stage(stack) = 3 /\ step.out = <<"next_token">>
         /\ step.op = "emit_token" => Stage(stack) = 4
         /\ step.op = "advance_position" =>
              /\ Stage(stack) = 5 /\ step.out = <<"position_offset">>
              /\ step.in = <<BatchName(stack), "position_offset">>
         /\ step.op \in LoopOps \cup {"read_line", "encode"} => Stage(stack) \notin 1..5
         /\ step.op = "read_line" => step.out = <<"user_text">>
         /\ step.op = "encode" => step.out = <<"input_ids">> /\ step.arg = "input_ids"
         /\ step.op \in LoopOps \cup {"read_line", "encode", "paged_plan", "call_model", "sample",
                                      "emit_token", "advance_position"}
         /\ step.op # "loop_each"
<1> PICK s : s = Stage(stack)
  OBVIOUS
<1> PICK tokens : tokens = BatchName(stack)
  OBVIOUS
<1>1. s \in -1..6
  BY StageStep
<1>2. CASE s \notin 1..5
  <2>1. \/ step.op \in {"until_eof", "loop_count"}
        \/ step.op = "read_line" /\ step.out = <<"user_text">>
        \/ step.op = "encode" /\ step.out = <<"input_ids">> /\ step.arg = "input_ids"
    BY <1>2, StageStep
  <2> QED
    BY <1>2, <2>1 DEF LoopOps
<1>3. ASSUME s \in 1..5
      PROVE  step = PagedForward(tokens)[s]
  BY <1>3, StageStep
<1>4. CASE s = 1
  <2>1. step.op = "paged_plan" /\ step.in = <<tokens, "position_offset">>
    BY <1>3, <1>4, ForwardSteps
  <2> QED
    BY <1>4, <2>1 DEF LoopOps
<1>5. CASE s = 2
  <2>1. /\ step.op = "call_model" /\ step.out = <<"logits">>
        /\ step.in = <<tokens, "position_offset", "pages", "page_table",
                       "write_page_ids", "write_offsets">>
    BY <1>3, <1>5, ForwardSteps
  <2> QED
    BY <1>5, <2>1 DEF LoopOps
<1>6. CASE s = 3
  <2>1. step.op = "sample" /\ step.out = <<"next_token">>
    BY <1>3, <1>6, ForwardSteps
  <2> QED
    BY <1>6, <2>1 DEF LoopOps
<1>7. CASE s = 4
  <2>1. step.op = "emit_token"
    BY <1>3, <1>7, ForwardSteps
  <2> QED
    BY <1>7, <2>1 DEF LoopOps
<1>8. CASE s = 5
  <2>1. /\ step.op = "advance_position" /\ step.out = <<"position_offset">>
        /\ step.in = <<tokens, "position_offset">>
    BY <1>3, <1>8, ForwardSteps
  <2> QED
    BY <1>8, <2>1 DEF LoopOps
<1>9. s = 1 \/ s = 2 \/ s = 3 \/ s = 4 \/ s = 5 \/ s \notin 1..5
  BY <1>1
<1> QED
  BY <1>2, <1>4, <1>5, <1>6, <1>7, <1>8, <1>9

LEMMA StageAdvanced ==
  ASSUME NEW stack, Nested(ChatProgram, stack), Last(stack).pc <= Len(Last(stack).body),
         NEW new, new = Advanced(stack)
  PROVE  /\ Nested(ChatProgram, new) /\ BatchName(new) = BatchName(stack)
         /\ Stage(stack) \in 1..5 => Stage(new) = Stage(stack) + 1
         /\ Stage(stack) \notin 1..5 => Stage(new) \notin 2..5
<1>1. /\ Nested(ChatProgram, new) /\ Len(new) = Len(stack) /\ Last(new).pc = Last(stack).pc + 1
  BY AdvancedStack
<1>2. /\ Len(stack) \in 1..3
      /\ Len(stack) = 2 => Last(stack).pc \in 1..9
      /\ Len(stack) = 3 => Last(stack).pc \in 1..6
  BY ChatStack
<1> PICK pc : pc = Last(stack).pc
  OBVIOUS
<1>3. CASE Len(stack) = 1
  <2>1. Stage(stack) = 0 /\ Stage(new) = 0
    BY <1>1, <1>3 DEF Stage
  <2> QED
    BY <1>1, <2>1 DEF BatchName
<1>4. CASE Len(stack) = 2
  <2>1. Stage(stack) = pc - 2 /\ Stage(new) = (pc + 1) - 2
    BY <1>1, <1>4 DEF Stage
  <2> QED
    BY <1>1, <1>2, <1>4, <2>1 DEF BatchName
<1>5. CASE Len(stack) = 3
  <2>1. Stage(stack) = pc /\ Stage(new) = pc + 1
    BY <1>1, <1>5 DEF Stage
  <2> QED
    BY <1>1, <1>2, <1>5, <2>1 DEF BatchName
<1> QED
  BY <1>2, <1>3, <1>4, <1>5

\* Where a loop begins, goes on or ends, no batch is under way.
LEMMA StageBetween ==
  ASSUME NEW stack, Nested(ChatProgram, stack)
  PROVE  /\ \A step, left, before :
              (/\ Last(stack).pc <= Len(Last(stack).body)
               /\ step = Last(stack).body[Last(stack).pc] /\ step.op \in LoopOps)
                => Stage(Append(stack, Frame(step.op, step.body, left, before))) \notin 2..5
         /\ \A left, before : Stage(Again(stack, left, before)) \notin 2..5
         /\ Last(stack).kind # "main" => Stage(Popped(stack)) \notin 2..5
         /\ \A k \in 1..(Len(stack) - 1) : Stage(Advanced(SubSeq(stack, 1, k))) \notin 2..5
         /\ Last(stack).pc > Len(Last(stack).body) => Stage(stack) \notin 1..5
<1> PICK n : n = Len(stack)
  OBVIOUS
<1>1. /\ n \in 1..3
      /\ n > 1 => stack[1].pc = 1
      /\ n > 2 => stack[2].pc = 8
      /\ n = 2 => stack[2].body = ChatTurn /\ Last(stack).pc \in 1..9
      /\ n = 3 => stack[3].body = PagedForward("next_token") /\ Last(stack).pc \in 1..6
  <2>1. /\ n \in 1..3
        /\ n > 1 => stack[1].pc = 1 /\ stack[2].body = ChatTurn
        /\ n > 2 => stack[2].pc = 8 /\ stack[3].body = PagedForward("next_token")
        /\ n = 2 => Last(stack).pc \in 1..9
        /\ n = 3 => Last(stack).pc \in 1..6
    BY ChatStack
  <2> QED
    BY <2>1
<1>2. ASSUME NEW step, NEW left, NEW before, Last(stack).pc <= Len(Last(stack).body),
             step = Last(stack).body[Last(stack).pc], step.op \in LoopOps
      PROVE  Stage(Append(stack, Frame(step.op, step.body, left, before))) \notin 2..5
  <2> PICK new : new = Append(stack, Frame(step.op, step.body, left, before))
    OBVIOUS
  <2>1. Len(new) = n + 1 /\ Last(new).pc = 1
    <3>1. stack \in Seq(ToSet(stack))
      BY DEF Nested
    <3>2. Len(new) = n + 1 /\ new[n + 1] = Frame(step.op, step.body, left, before)
      BY <3>1, SequenceFacts
    <3> QED
      BY <3>2 DEF Last, Frame
  <2>2. Stage(new) = IF n = 1 THEN -1 ELSE IF n = 2 THEN 1 ELSE 0
    BY <1>1, <2>1 DEF Stage
  <2> QED
    BY <1>1, <2>2
<1>3. ASSUME NEW left, NEW before
      PROVE  Stage(Again(stack, left, before)) \notin 2..5
  <2> PICK new : new = Again(stack, left, before)
    OBVIOUS
  <2>1. Len(new) = n /\ Last(new).pc = 1
    BY AgainStack DEF Frame
  <2>2. Stage(new) = IF n = 1 THEN 0 ELSE IF n = 2 THEN -1 ELSE 1
    BY <1>1, <2>1 DEF Stage
  <2> QED
    BY <1>1, <2>2
<1>4. ASSUME NEW k \in 1..(n - 1)
      PROVE  Stage(Advanced(SubSeq(stack, 1, k))) \notin 2..5
  <2> PICK new : new = Advanced(SubSeq(stack, 1, k))
    OBVIOUS
  <2>1. k \in 1..n /\ k \in 1..Len(stack) /\ (k = 1 \/ (k = 2 /\ n = 3))
    <3>1. n \in 1..3
      BY <1>1
    <3> QED
      BY <3>1
  <2>2. stack[k].pc <= Len(stack[k].body)
    BY DEF Nested, Encloses
  <2>3. Len(new) = k /\ new[k].pc = stack[k].pc + 1
    BY <2>1, <2>2, CutAt
  <2>4. Last(new).pc = stack[k].pc + 1
    BY <2>3 DEF Last
  <2>5. CASE k = 1
    BY <2>3, <2>5 DEF Stage
  <2>6. CASE k = 2 /\ n = 3
    <3>1. Stage(new) = (8 + 1) - 2
      BY <1>1, <2>3, <2>4, <2>6 DEF Stage
    <3> QED
      BY <3>1
  <2> QED
    BY <2>1, <2>5, <2>6
<1>5. ASSUME Last(stack).kind # "main"
      PROVE  Stage(Popped(stack)) \notin 2..5
  <2>1. n # 1
    BY <1>5 DEF Nested, Last
  <2>2. n - 1 \in 1..(n - 1)
    BY <1>1, <2>1
  <2>3. Popped(stack) = Advanced(SubSeq(stack, 1, n - 1))
    BY DEF Popped, Front
  <2> PICK k : k = n - 1
    OBVIOUS
  <2>4. k \in 1..(n - 1) /\ Popped(stack) = Advanced(SubSeq(stack, 1, k))
    BY <2>2, <2>3
  <2> QED
    BY <1>4, <2>4
<1>6. ASSUME Last(stack).pc > Len(Last(stack).body)
      PROVE  Stage(stack) \notin 1..5
  <2> PICK pc : pc = Last(stack).pc
    OBVIOUS
  <2>1. CASE n = 1
    BY <2>1 DEF Stage
  <2>2. CASE n = 2
    <3>1. Len(Last(stack).body) = 8
      BY <1>1, <2>2, TurnSteps DEF Last
    <3>2. Stage(stack) = pc - 2 /\ pc \in 1..9 /\ pc > 8
      BY <1>1, <1>6, <2>2, <3>1 DEF Stage
    <3> QED
      BY <3>2
  <2>3. CASE n = 3
    <3>1. Len(Last(stack).body) = 5
      BY <1>1, <2>3, ForwardSteps DEF Last
    <3>2. Stage(stack) = pc /\ pc \in 1..6 /\ pc > 5
      BY <1>1, <1>6, <2>3, <3>1 DEF Stage
    <3> QED
      BY <3>2
  <2> QED
    BY <1>1, <2>1, <2>2, <2>3
<1> QED
  BY <1>2, <1>3, <1>4, <1>5, <1>6
------------------------------------------------------------------------------
(* The cache.                                                                *)

LEMMA PageOf ==
  ASSUME NEW a \in Nat
  PROVE  /\ a \div PageSize \in Nat /\ a % PageSize \in Nat /\ a % PageSize < PageSize
         /\ (a \div PageSize) * PageSize + (a % PageSize) = a
<1> PICK m : m = PageSize
  OBVIOUS
<1>1. m \in Nat \ {0}
  BY StoreAssumption
<1> DEFINE q == a \div m
           r == a % m
<1>2. q \in Nat /\ r \in 0..(m - 1) /\ a = m * q + r
  BY <1>1
<1> HIDE DEF q, r
<1>3. q * m + r = a /\ r \in Nat /\ r < m
  BY <1>1, <1>2
<1> QED
  BY <1>2, <1>3 DEF q, r

LEMMA PagesInOrder ==
  ASSUME NEW a \in Nat, NEW b \in Nat, a <= b
  PROVE  a \div PageSize <= b \div PageSize
<1> PICK m, q, r, s, t : /\ m = PageSize /\ q = a \div PageSize /\ r = a % PageSize
                         /\ s = b \div PageSize /\ t = b % PageSize
  OBVIOUS
<1>1. /\ m \in Nat \ {0} /\ q \in Nat /\ s \in Nat /\ r \in Nat /\ t \in Nat /\ r < m /\ t < m
      /\ q * m + r = a /\ s * m + t = b
  BY PageOf, StoreAssumption
<1>2. q * m + r <= s * m + t
  BY <1>1
<1>3. ASSUME s + 1 <= q
      PROVE  FALSE
  <2>1. (s + 1) * m <= q * m
    <3>1. q = (s + 1) + (q - (s + 1)) /\ q - (s + 1) \in Nat
      BY <1>1, <1>3
    <3> PICK d : d = q - (s + 1)
      OBVIOUS
    <3>2. d \in Nat /\ q * m = (s + 1) * m + d * m /\ d * m \in Nat /\ (s + 1) * m \in Nat
      BY <1>1, <3>1
    <3> QED
      BY <3>2
  <2>2. (s + 1) * m = s * m + m
    BY <1>1
  <2>3. s * m \in Nat /\ q * m \in Nat
    BY <1>1
  <2> QED
    BY <1>1, <1>2, <2>1, <2>2, <2>3
<1>4. q <= s
  BY <1>1, <1>3
<1> QED
  BY <1>4

\* What may be in a batch.
Tokens == Sampled \cup UNION {ToSet(prompt) : prompt \in Prompts}

\* So many pages hold the first n tokens.
Reaches(size, n) == n # 0 => (n - 1) \div PageSize < size

\* The cache, the page table and the position, between any two steps.
ChatData(slots, done, batch) ==
  /\ done \in Seq(Tokens) /\ batch \in Seq(Tokens)
  /\ slots["position_offset"].data = Len(done)
  /\ Len(done) + Len(batch) <= Positions
  /\ \A i \in 1..Len(done) : slots["pages"].data[i - 1] = done[i]
  /\ \A i \in 1..Len(batch) : slots["pages"].data[Len(done) + i - 1] = batch[i]
  /\ \E size \in Nat :
       /\ slots["page_table"].data = [p \in 1..size |-> p - 1]
       /\ Reaches(size, Len(done) + Len(batch))

LEMMA NothingYet ==
  <<>> \in Seq(Tokens) /\ Len(<<>>) = 0
OBVIOUS

\* Through the page table the model reads what the cache holds.
LEMMA ReadThroughTable ==
  ASSUME ChatData(env.slots, history.done, history.batch)
  PROVE  CallsSeeTheConversation
<1> PICK done, batch : done = history.done /\ batch = history.batch
  OBVIOUS
<1>p. PICK pages : pages = env.slots["pages"].data
  OBVIOUS
<1>t. PICK tokens : tokens = done \o batch
  OBVIOUS
<1>n. PICK d, b : d = Len(done) /\ b = Len(batch)
  OBVIOUS
<1>1. done \in Seq(Tokens) /\ batch \in Seq(Tokens)
  BY DEF ChatData
<1>0. d \in Nat /\ b \in Nat
  BY <1>1, <1>n, LenProperties
<1>a. /\ \A i \in 1..d : pages[i - 1] = done[i]
      /\ \A i \in 1..b : pages[d + i - 1] = batch[i]
  BY <1>n, <1>p DEF ChatData
<1>2. PICK size \in Nat :
        /\ env.slots["page_table"].data = [p \in 1..size |-> p - 1]
        /\ Reaches(size, d + b)
  BY <1>n DEF ChatData
<1>3. /\ Len(tokens) = d + b
      /\ \A i \in 1..(d + b) : tokens[i] = IF i <= d THEN done[i] ELSE batch[i - d]
      /\ tokens \in Seq(Tokens)
  <2>1. /\ tokens \in Seq(Tokens) /\ Len(tokens) = Len(done) + Len(batch)
        /\ \A i \in 1..(Len(done) + Len(batch)) :
             tokens[i] = IF i <= Len(done) THEN done[i] ELSE batch[i - Len(done)]
    <3>1. /\ done \o batch \in Seq(Tokens) /\ Len(done \o batch) = Len(done) + Len(batch)
          /\ \A i \in 1..(Len(done) + Len(batch)) :
               (done \o batch)[i] = IF i <= Len(done) THEN done[i] ELSE batch[i - Len(done)]
      BY <1>1, ConcatProperties, Zenon
    <3> QED
      BY <1>t, <3>1, Zenon
  <2> QED
    BY <1>n, <2>1
<1>4. DOMAIN tokens = 1..(d + b)
  BY <1>3, LenProperties
<1>5. \A i \in 1..(d + b) : pages[i - 1] = tokens[i]
  <2> SUFFICES ASSUME NEW i \in 1..(d + b) PROVE pages[i - 1] = tokens[i]
    OBVIOUS
  <2>1. CASE i <= d
    <3>1. i \in 1..d
      BY <1>0, <2>1
    <3> QED
      BY <1>a, <1>3, <2>1, <3>1
  <2>2. CASE ~(i <= d)
    <3>k. PICK k : k = i - d
      OBVIOUS
    <3>1. k \in 1..b /\ d + k - 1 = i - 1
      BY <1>0, <2>2, <3>k
    <3>2. tokens[i] = batch[k]
      BY <1>3, <2>2, <3>k
    <3>3. pages[d + k - 1] = batch[k]
      BY <1>a, <3>1
    <3> QED
      BY <3>1, <3>2, <3>3
  <2> QED
    BY <2>1, <2>2
<1>6. d + b # 0 => (d + b - 1) \div PageSize < size
  BY <1>0, <1>2 DEF Reaches
<1>7. Covered(Len(tokens))
  <2>1. Len(env.slots["page_table"].data) = size
    BY <1>2, SeqDef, LenProperties
  <2>2. Covered(d + b)
    <3>1. CASE d + b = 0
      BY <3>1 DEF Covered
    <3>2. CASE d + b # 0
      <4>1. (d + b - 1) \div PageSize < Len(env.slots["page_table"].data)
        BY <1>6, <2>1, <3>2
      <4> QED
        BY <1>0, <4>1 DEF Covered
    <3> QED
      BY <3>1, <3>2
  <2>3. Len(tokens) = d + b
    BY <1>3
  <2> QED
    BY <2>2, <2>3
<1>8. \A i \in DOMAIN tokens : Cached(i - 1) = tokens[i]
  <2> SUFFICES ASSUME NEW i \in 1..(d + b) PROVE Cached(i - 1) = tokens[i]
    BY <1>4
  <2>p. PICK p : p = i - 1
    OBVIOUS
  <2>1. p \in Nat /\ p <= d + b - 1 /\ d + b # 0 /\ d + b - 1 \in Nat
    BY <1>0, <2>p
  <2>q. PICK q, last : q = p \div PageSize /\ last = (d + b - 1) \div PageSize
    OBVIOUS
  <2>2. q \in Nat /\ q * PageSize + (p % PageSize) = p
    BY <2>1, <2>q, PageOf
  <2>3. q <= last /\ last \in Nat
    BY <2>1, <2>q, PagesInOrder, PageOf
  <2>4. q + 1 \in 1..size
    <3>1. last < size
      BY <1>6, <2>1, <2>q
    <3> QED
      BY <2>2, <2>3, <3>1
  <2>5. env.slots["page_table"].data[q + 1] = q
    BY <1>2, <2>2, <2>4
  <2>6. Cached(p) = pages[p]
    BY <1>p, <2>2, <2>5, <2>q DEF Cached
  <2> QED
    BY <1>5, <2>6, <2>p
<1> QED
  BY <1>7, <1>8, <1>t DEF CallsSeeTheConversation

\* The slots of a plan for count tokens from a position.
PlannedFor(slots, start, count) ==
  /\ count > 0
  /\ slots["write_page_ids"].data = PlanPages(start, count)
  /\ slots["write_offsets"].data = PlanOffsets(start, count)
  /\ slots["page_table"].data = PlanTable(start, count)

\* The places of a plan follow one another.
LEMMA PlacesFollow ==
  ASSUME NEW start \in Nat, NEW count \in Nat, PlannedFor(env.slots, start, count),
         NEW n \in 0..count
  PROVE  /\ PlannedPlaces(n) = [k \in 1..n |-> start + k - 1]
         /\ Range(PlannedPlaces(n)) = start..(start + n - 1)
<1>1. ASSUME NEW k \in 1..n
      PROVE  env.slots["write_page_ids"].data[k] * PageSize + env.slots["write_offsets"].data[k]
               = start + k - 1
  <2>p. PICK p : p = start + k - 1
    OBVIOUS
  <2>1. p \in Nat /\ k \in 1..count
    BY <2>p
  <2>2. env.slots["write_page_ids"].data[k] = p \div PageSize
    BY <2>1, <2>p DEF PlannedFor, PlanPages
  <2>3. env.slots["write_offsets"].data[k] = p % PageSize
    BY <2>1, <2>p DEF PlannedFor, PlanOffsets
  <2>4. (p \div PageSize) * PageSize + (p % PageSize) = p
    BY <2>1, PageOf
  <2> QED
    BY <2>2, <2>3, <2>4, <2>p
<1>2. PlannedPlaces(n) = [k \in 1..n |-> start + k - 1]
  BY <1>1 DEF PlannedPlaces
<1> PICK f : f = PlannedPlaces(n)
  OBVIOUS
<1>3. DOMAIN f = 1..n /\ \A k \in 1..n : f[k] = start + k - 1
  BY <1>2
<1>4. Range(f) = start..(start + n - 1)
  <2>1. \A k \in 1..n : start + k - 1 \in start..(start + n - 1)
    OBVIOUS
  <2>2. \A p \in start..(start + n - 1) : p - start + 1 \in 1..n /\ start + (p - start + 1) - 1 = p
    OBVIOUS
  <2>3. \A p \in start..(start + n - 1) : \E k \in DOMAIN f : f[k] = p
    BY <1>3, <2>2
  <2>4. \A k \in DOMAIN f : f[k] \in start..(start + n - 1)
    BY <1>3, <2>1
  <2> QED
    BY <2>3, <2>4 DEF Range
<1> QED
  BY <1>2, <1>4

\* A call writes behind what the position counts.
LEMMA WrittenBehind ==
  ASSUME NEW program, Owns(program, env), "pages" \in Declared(program),
         NEW start \in Nat, NEW count \in Nat, PlannedFor(env.slots, start, count),
         NEW n \in 0..count, Fits(n), start <= Positions,
         NEW batch, NEW e, e = WriteCache(env, batch, n)
  PROVE  /\ start + n <= Positions
         /\ \A k \in 1..n : e.slots["pages"].data[start + k - 1] = batch[k]
         /\ \A p \in 0..(start - 1) : e.slots["pages"].data[p] = env.slots["pages"].data[p]
<1>1. /\ PlannedPlaces(n) = [k \in 1..n |-> start + k - 1]
      /\ Range(PlannedPlaces(n)) = start..(start + n - 1)
  BY PlacesFollow
<1>2. start + n <= Positions
  <2>1. CASE n = 0
    BY <2>1
  <2>2. CASE n # 0
    <3>1. start + n - 1 \in Range(PlannedPlaces(n))
      BY <1>1, <2>2
    <3>2. start + n - 1 < Positions
      BY <3>1 DEF Fits
    <3> QED
      BY <3>2, StoreAssumption
  <2> QED
    BY <2>1, <2>2
<1>a. PICK places, old : places = PlannedPlaces(n) /\ old = env.slots["pages"].data
  OBVIOUS
<1>b. e.slots["pages"].data = Overwritten(old, places, batch, n)
  BY <1>a, CacheWritten
<1>c. Range(places) = start..(start + n - 1) /\ places = [k \in 1..n |-> start + k - 1]
  BY <1>1, <1>a
<1>3. \A p \in 0..(Positions - 1) :
        e.slots["pages"].data[p] = IF p \in start..(start + n - 1)
                                   THEN batch[CHOOSE k \in 1..n : places[k] = p]
                                   ELSE old[p]
  BY <1>b, <1>c DEF Overwritten
<1>4. \A k \in 1..n : e.slots["pages"].data[start + k - 1] = batch[k]
  <2> SUFFICES ASSUME NEW k \in 1..n PROVE e.slots["pages"].data[start + k - 1] = batch[k]
    OBVIOUS
  <2>p. PICK p : p = start + k - 1
    OBVIOUS
  <2>1. p \in 0..(Positions - 1) /\ p \in start..(start + n - 1)
    BY <1>2, <2>p, StoreAssumption
  <2>2. \A j \in 1..n : places[j] = p <=> j = k
    BY <1>c, <2>p
  <2>3. (CHOOSE j \in 1..n : places[j] = p) = k
    BY <2>2
  <2> QED
    BY <1>3, <2>1, <2>3, <2>p
<1>5. \A p \in 0..(start - 1) : e.slots["pages"].data[p] = env.slots["pages"].data[p]
  <2>1. \A p \in 0..(start - 1) : p \in 0..(Positions - 1) /\ p \notin start..(start + n - 1)
    BY StoreAssumption
  <2> QED
    BY <1>3, <1>a, <2>1
<1> QED
  BY <1>2, <1>4, <1>5

\* The table of a plan covers what the last one covered.
LEMMA TableCovers ==
  ASSUME NEW start \in Nat, NEW count \in Nat \ {0}
  PROVE  \E size \in Nat :
           /\ PlanTable(start, count) = [p \in 1..size |-> p - 1]
           /\ Reaches(size, start) /\ Reaches(size, start + count)
<1>q. PICK q, r : q = (start + count - 1) \div PageSize /\ r = (start - 1) \div PageSize
  OBVIOUS
<1>1. q \in Nat /\ start + count - 1 \in Nat
  BY <1>q, PageOf
<1>2. PlanTable(start, count) = [p \in 1..(q + 1) |-> p - 1]
  BY <1>q DEF PlanTable
<1>3. start # 0 => r <= q /\ r \in Nat
  <2> SUFFICES ASSUME start # 0 PROVE r <= q /\ r \in Nat
    OBVIOUS
  <2>1. start - 1 \in Nat /\ start - 1 <= start + count - 1
    OBVIOUS
  <2> QED
    BY <1>1, <1>q, <2>1, PagesInOrder, PageOf
<1>4. q + 1 \in Nat /\ q < q + 1 /\ (start # 0 => r < q + 1)
  BY <1>1, <1>3
<1>5. Reaches(q + 1, start) /\ Reaches(q + 1, start + count)
  BY <1>4, <1>q DEF Reaches
<1> QED
  BY <1>2, <1>4, <1>5
------------------------------------------------------------------------------
(* A chat: the slots between the steps.                                      *)

LEMMA ChatDeclared ==
  Declared(ChatProgram) = {"pages", "page_table", "position_offset", "write_page_ids", "write_offsets"}
<1>1. ChatProgram.state = << <<"pages", "paged_tensor">>, <<"page_table", "page_table">>,
                             <<"position_offset", "tensor">>, <<"write_page_ids", "tensor">>,
                             <<"write_offsets", "tensor">> >>
  BY DEF ChatProgram
<1>2. ToSet(<< <<"pages", "paged_tensor">>, <<"page_table", "page_table">>,
               <<"position_offset", "tensor">>, <<"write_page_ids", "tensor">>,
               <<"write_offsets", "tensor">> >>)
        = { <<"pages", "paged_tensor">>, <<"page_table", "page_table">>,
            <<"position_offset", "tensor">>, <<"write_page_ids", "tensor">>,
            <<"write_offsets", "tensor">> }
  BY DEF ToSet
<1>3. ToSet(ChatProgram.state)
        = { <<"pages", "paged_tensor">>, <<"page_table", "page_table">>,
            <<"position_offset", "tensor">>, <<"write_page_ids", "tensor">>,
            <<"write_offsets", "tensor">> }
  BY <1>1, <1>2, Zenon
<1> QED
  BY <1>3 DEF Declared

LEMMA ForgetBatch ==
  ASSUME NEW slots, NEW done, NEW batch, ChatData(slots, done, batch)
  PROVE  ChatData(slots, done, <<>>)
<1>n. PICK d, b : d = Len(done) /\ b = Len(batch)
  OBVIOUS
<1>1. d \in Nat /\ b \in Nat /\ d + b <= Positions
  BY <1>n, LenProperties DEF ChatData
<1>2. PICK size \in Nat :
        /\ slots["page_table"].data = [p \in 1..size |-> p - 1]
        /\ Reaches(size, d + b)
  BY <1>n DEF ChatData
<1>3. Reaches(size, d)
  <2> SUFFICES ASSUME d # 0 PROVE (d - 1) \div PageSize < size
    BY DEF Reaches
  <2>1. d - 1 \in Nat /\ d + b - 1 \in Nat /\ d - 1 <= d + b - 1 /\ d + b # 0
    BY <1>1
  <2>q. PICK q, r : q = (d - 1) \div PageSize /\ r = (d + b - 1) \div PageSize
    OBVIOUS
  <2>2. q <= r /\ q \in Nat /\ r \in Nat
    BY <2>1, <2>q, PagesInOrder, PageOf
  <2>3. r < size
    BY <1>1, <1>2, <2>1, <2>q DEF Reaches
  <2> QED
    BY <2>2, <2>3, <2>q
<1>a. d + 0 = d
  BY <1>1
<1>4. d + 0 <= Positions
  BY <1>1, StoreAssumption
<1>5. <<>> \in Seq(Tokens) /\ Len(<<>>) = 0
  OBVIOUS
<1>6. /\ done \in Seq(Tokens) /\ slots["position_offset"].data = d
      /\ \A i \in 1..d : slots["pages"].data[i - 1] = done[i]
  BY <1>n DEF ChatData
<1>7. \A i \in 1..0 : slots["pages"].data[d + i - 1] = <<>>[i]
  OBVIOUS
<1> QED
  BY <1>2, <1>3, <1>4, <1>5, <1>6, <1>7, <1>a, <1>n DEF ChatData

\* The position moves behind the batch.
LEMMA KeepBatch ==
  ASSUME NEW slots, NEW done, NEW batch, ChatData(slots, done, batch), NEW new,
         new["position_offset"].data = Len(done) + Len(batch),
         new["pages"] = slots["pages"], new["page_table"] = slots["page_table"]
  PROVE  ChatData(new, done \o batch, <<>>)
<1>t. PICK tokens : tokens = done \o batch
  OBVIOUS
<1>n. PICK d, b : d = Len(done) /\ b = Len(batch)
  OBVIOUS
<1>1. d \in Nat /\ b \in Nat /\ d + b <= Positions /\ done \in Seq(Tokens) /\ batch \in Seq(Tokens)
  BY <1>n, LenProperties DEF ChatData
<1>2. PICK size \in Nat :
        /\ slots["page_table"].data = [p \in 1..size |-> p - 1]
        /\ Reaches(size, d + b)
  BY <1>n DEF ChatData
<1>3. /\ Len(tokens) = d + b
      /\ \A i \in 1..(d + b) : tokens[i] = IF i <= d THEN done[i] ELSE batch[i - d]
      /\ tokens \in Seq(Tokens)
  <2>1. /\ tokens \in Seq(Tokens) /\ Len(tokens) = Len(done) + Len(batch)
        /\ \A i \in 1..(Len(done) + Len(batch)) :
             tokens[i] = IF i <= Len(done) THEN done[i] ELSE batch[i - Len(done)]
    BY <1>1, <1>t, ConcatProperties
  <2> QED
    BY <1>n, <2>1
<1>4. /\ \A i \in 1..d : slots["pages"].data[i - 1] = done[i]
      /\ \A i \in 1..b : slots["pages"].data[d + i - 1] = batch[i]
  BY <1>n DEF ChatData
<1>5. \A i \in 1..(d + b) : slots["pages"].data[i - 1] = tokens[i]
  <2> SUFFICES ASSUME NEW i \in 1..(d + b) PROVE slots["pages"].data[i - 1] = tokens[i]
    OBVIOUS
  <2>1. CASE i <= d
    <3>1. i \in 1..d
      BY <1>1, <2>1
    <3> QED
      BY <1>3, <1>4, <2>1, <3>1
  <2>2. CASE ~(i <= d)
    <3>k. PICK k : k = i - d
      OBVIOUS
    <3>1. k \in 1..b /\ d + k - 1 = i - 1
      BY <1>1, <2>2, <3>k
    <3>2. tokens[i] = batch[k]
      BY <1>3, <2>2, <3>k
    <3>3. slots["pages"].data[d + k - 1] = batch[k]
      BY <1>4, <3>1
    <3> QED
      BY <3>1, <3>2, <3>3
  <2> QED
    BY <2>1, <2>2
<1>m. PICK m : m = d + b
  OBVIOUS
<1>6. /\ m \in Nat /\ m + 0 <= Positions /\ Len(tokens) = m /\ new["position_offset"].data = m
      /\ \A i \in 1..m : new["pages"].data[i - 1] = tokens[i]
  BY <1>1, <1>3, <1>5, <1>m, <1>n
<1>7. new["page_table"].data = [p \in 1..size |-> p - 1] /\ Reaches(size, m + 0)
  <2>1. m + 0 = m
    BY <1>6
  <2>2. Reaches(size, m)
    BY <1>2, <1>m
  <2> QED
    BY <1>2, <2>1, <2>2
<1>8. <<>> \in Seq(Tokens) /\ Len(<<>>) = 0 /\ tokens \in Seq(Tokens)
  BY <1>3
<1>9. \A i \in 1..0 : new["pages"].data[m + i - 1] = <<>>[i]
  OBVIOUS
<1>10. ChatData(new, tokens, <<>>)
  BY <1>6, <1>7, <1>8, <1>9 DEF ChatData
<1> QED
  BY <1>10, <1>t

\* A new plan changes the page table only.
LEMMA PlanKeeps ==
  ASSUME NEW slots, NEW done, ChatData(slots, done, <<>>), NEW new, NEW count \in Nat \ {0},
         new["position_offset"] = slots["position_offset"], new["pages"] = slots["pages"],
         new["page_table"].data = PlanTable(Len(done), count)
  PROVE  ChatData(new, done, <<>>)
<1>n. PICK d : d = Len(done)
  OBVIOUS
<1>1. d \in Nat /\ done \in Seq(Tokens) /\ <<>> \in Seq(Tokens) /\ Len(<<>>) = 0
  BY <1>n, LenProperties DEF ChatData
<1>2. PICK size \in Nat :
        /\ PlanTable(d, count) = [p \in 1..size |-> p - 1]
        /\ Reaches(size, d)
  BY <1>1, TableCovers
<1>3. new["page_table"].data = [p \in 1..size |-> p - 1]
  BY <1>2, <1>n
<1>4. Reaches(size, d + 0)
  <2>1. d + 0 = d
    BY <1>1
  <2> QED
    BY <1>2, <2>1
<1>5. /\ new["position_offset"].data = d /\ d + 0 <= Positions
      /\ \A i \in 1..d : new["pages"].data[i - 1] = done[i]
  BY <1>1, <1>n DEF ChatData
<1>6. \A i \in 1..0 : new["pages"].data[d + i - 1] = <<>>[i]
  OBVIOUS
<1> QED
  BY <1>1, <1>3, <1>4, <1>5, <1>6, <1>n DEF ChatData

\* What a call has written, and what was there before.
LEMMA CallWrites ==
  ASSUME Owns(ChatProgram, env), NEW done, ChatData(env.slots, done, <<>>),
         NEW batch \in Seq(Tokens), PlannedFor(env.slots, Len(done), Len(batch)),
         NEW n \in 0..Len(batch), Fits(n), NEW e, e = WriteCache(env, batch, n)
  PROVE  /\ Owns(ChatProgram, e) /\ e.values = env.values
         /\ ChatData(e.slots, done, <<>>)
         /\ n = Len(batch) => ChatData(e.slots, done, batch)
<1>n. PICK d, b : d = Len(done) /\ b = Len(batch)
  OBVIOUS
<1>1. d \in Nat /\ b \in Nat /\ done \in Seq(Tokens) /\ <<>> \in Seq(Tokens) /\ Len(<<>>) = 0
  BY <1>n, LenProperties DEF ChatData
<1>2. /\ d + 0 <= Positions /\ env.slots["position_offset"].data = d
      /\ \A i \in 1..d : env.slots["pages"].data[i - 1] = done[i]
  BY <1>1, <1>n DEF ChatData
<1>3. "pages" \in Declared(ChatProgram) /\ "position_offset" \in Declared(ChatProgram) \ {"pages"}
      /\ "page_table" \in Declared(ChatProgram) \ {"pages"}
  BY ChatDeclared
<1>4. /\ Owns(ChatProgram, e) /\ e.values = env.values
      /\ e.slots["position_offset"] = env.slots["position_offset"]
      /\ e.slots["page_table"] = env.slots["page_table"]
  BY <1>3, CacheWritten
<1>5. /\ d + n <= Positions
      /\ \A k \in 1..n : e.slots["pages"].data[d + k - 1] = batch[k]
      /\ \A p \in 0..(d - 1) : e.slots["pages"].data[p] = env.slots["pages"].data[p]
  <2>1. d <= Positions /\ PlannedFor(env.slots, d, b) /\ n \in 0..b
    BY <1>1, <1>2, <1>n
  <2> QED
    BY <1>1, <1>3, <2>1, WrittenBehind
<1>6. \A i \in 1..d : e.slots["pages"].data[i - 1] = done[i]
  <2>1. \A i \in 1..d : i - 1 \in 0..(d - 1)
    BY <1>1
  <2> QED
    BY <1>2, <1>5, <2>1
<1>7. PICK size \in Nat :
        /\ PlanTable(d, b) = [p \in 1..size |-> p - 1]
        /\ Reaches(size, d) /\ Reaches(size, d + b)
  <2>1. b \in Nat \ {0}
    BY <1>1, <1>n DEF PlannedFor
  <2> QED
    BY <1>1, <2>1, TableCovers
<1>8. e.slots["page_table"].data = [p \in 1..size |-> p - 1]
  BY <1>4, <1>7, <1>n DEF PlannedFor
<1>9. ChatData(e.slots, done, <<>>)
  <2>1. Reaches(size, d + 0)
    <3>1. d + 0 = d
      BY <1>1
    <3> QED
      BY <1>7, <3>1
  <2>2. \A i \in 1..0 : e.slots["pages"].data[d + i - 1] = <<>>[i]
    OBVIOUS
  <2>3. e.slots["position_offset"].data = d
    BY <1>2, <1>4
  <2> QED
    BY <1>1, <1>2, <1>6, <1>8, <1>n, <2>1, <2>2, <2>3 DEF ChatData
<1>10. ASSUME n = b
       PROVE  ChatData(e.slots, done, batch)
  <2>1. /\ d + b <= Positions
        /\ \A k \in 1..b : e.slots["pages"].data[d + k - 1] = batch[k]
    BY <1>5, <1>10
  <2>2. Reaches(size, d + b)
    BY <1>7
  <2>3. e.slots["position_offset"].data = d
    BY <1>2, <1>4
  <2> QED
    BY <1>1, <1>6, <1>8, <1>n, <2>1, <2>2, <2>3 DEF ChatData
<1> QED
  BY <1>4, <1>9, <1>10, <1>n
------------------------------------------------------------------------------
(* A chat: the values and the stages of a model call.                        *)

ChatValues(values) ==
  /\ "input_ids" \in DOMAIN values => values["input_ids"].data \in Seq(Tokens)
  /\ "next_token" \in DOMAIN values => /\ values["next_token"].data \in Seq(Tokens)
                                       /\ Len(values["next_token"].data) = 1

\* Up to the model call no batch is under way; at the call the plan is for the
\* named batch behind the position; after it the batch is still what the name holds.
ChatPhase(stack, e, done, batch) ==
  /\ Stage(stack) \notin 3..5 => batch = <<>>
  /\ Stage(stack) = 2 =>
       /\ BatchName(stack) \in DOMAIN e.values
       /\ PlannedFor(e.slots, Len(done), Len(e.values[BatchName(stack)].data))
  /\ Stage(stack) \in 3..5 =>
       /\ BatchName(stack) \in DOMAIN e.values
       /\ Len(e.values[BatchName(stack)].data) = Len(batch)

ChatInv ==
  session.program = ChatProgram =>
    /\ DOMAIN history = {"done", "batch"}
    /\ ChatData(env.slots, history.done, history.batch)
    /\ ChatValues(env.values)
    /\ status = "running" => ChatPhase(frames, env, history.done, history.batch)

LEMMA NoChatValues ==
  ChatValues(NoValues)
<1>1. DOMAIN NoValues = {}
  BY EmptyTable
<1> QED
  BY <1>1 DEF ChatValues

\* Names the chat does not pass to the model may be set and dropped.
LEMMA OtherSet ==
  ASSUME NEW values, ChatValues(values), NEW name, name \notin {"input_ids", "next_token"}, NEW v
  PROVE  ChatValues(Update(values, name, v))
<1> PICK new : new = Update(values, name, v)
  OBVIOUS
<1>1. \A n \in {"input_ids", "next_token"} :
        /\ n \in DOMAIN new <=> n \in DOMAIN values
        /\ n \in DOMAIN values => new[n] = values[n]
  BY DEF Update
<1> QED
  BY <1>1 DEF ChatValues

LEMMA OtherDropped ==
  ASSUME NEW values, ChatValues(values), NEW name, name \notin {"input_ids", "next_token"},
         NEW new, DOMAIN new = DOMAIN values \ {name},
         \A n \in DOMAIN values \ {name} : new[n] = values[n]
  PROVE  ChatValues(new)
<1>1. \A n \in {"input_ids", "next_token"} :
        /\ n \in DOMAIN new <=> n \in DOMAIN values
        /\ n \in DOMAIN values => new[n] = values[n]
  OBVIOUS
<1> QED
  BY <1>1 DEF ChatValues

\* Where no batch is under way.
LEMMA BetweenBatches ==
  ASSUME NEW stack, NEW e, NEW done, Stage(stack) \notin 2..5
  PROVE  ChatPhase(stack, e, done, <<>>)
<1>1. Stage(stack) # 2 /\ Stage(stack) \notin 3..5
  OBVIOUS
<1> QED
  BY <1>1 DEF ChatPhase

\* A step between two model calls.
LEMMA ChatRests ==
  ASSUME ChatInv, session' = session, history' = history,
         session.program = ChatProgram => history.batch = <<>>,
         session.program = ChatProgram =>
           /\ env'.slots = env.slots /\ ChatValues(env'.values)
           /\ status' = "running" => Stage(frames') \notin 2..5
  PROVE  ChatInv'
<1> SUFFICES ASSUME session.program = ChatProgram
    PROVE  /\ ChatData(env'.slots, history.done, history.batch)
           /\ ChatValues(env'.values)
           /\ status' = "running" => ChatPhase(frames', env', history.done, history.batch)
  BY DEF ChatInv
<1>1. ChatData(env'.slots, history.done, history.batch) /\ ChatValues(env'.values)
  BY DEF ChatInv
<1>2. status' = "running" => ChatPhase(frames', env', history.done, <<>>)
  BY BetweenBatches
<1>3. history.batch = <<>>
  OBVIOUS
<1> QED
  BY <1>1, <1>2, <1>3

\* A run that ends leaves the slots as they are.
LEMMA ChatEnds ==
  ASSUME RunInv, ChatInv, session' = session, history' = history,
         NEW outcome, outcome # "running", EndRun(outcome, env)
  PROVE  ChatInv'
<1>1. env' = CloseRun(env) /\ status' # "running"
  BY DEF EndRun
<1>2. env'.slots = env.slots /\ env'.values = NoValues
  BY <1>1, RunEnds DEF RunInv
<1> QED
  BY <1>1, <1>2, NoChatValues DEF ChatInv

LEMMA ChatStarts ==
  ASSUME RunInv, ChatInv, StartRun
  PROVE  ChatInv'
<1> SUFFICES ASSUME session.program = ChatProgram
    PROVE  /\ DOMAIN history' = {"done", "batch"}
           /\ ChatData(env'.slots, history'.done, history'.batch)
           /\ ChatValues(env'.values)
           /\ ChatPhase(frames', env', history'.done, history'.batch)
  BY DEF ChatInv, StartRun
<1>1. env'.slots = env.slots /\ env'.values = NoValues
  BY RunBegins DEF RunInv, StartRun
<1>2. /\ DOMAIN history' = {"done", "batch"}
      /\ history'.done = history.done /\ history'.batch = <<>>
  BY DEF StartRun, ChatInv
<1>3. Stage(frames') \notin 2..5
  <2> PICK f : f = Frame("main", session.program.steps, 0, 0)
    OBVIOUS
  <2>1. frames' = <<f>>
    BY DEF StartRun
  <2>2. Len(<<f>>) = 1
    OBVIOUS
  <2> QED
    BY <2>1, <2>2 DEF Stage
<1>4. ChatData(env.slots, history.done, <<>>)
  BY ForgetBatch DEF ChatInv
<1>5. ChatPhase(frames', env', history.done, <<>>)
  BY <1>3, BetweenBatches
<1> QED
  BY <1>1, <1>2, <1>4, <1>5, NoChatValues

\* A new session: no token yet, and an empty page table.
LEMMA ChatBegins ==
  ASSUME Init
  PROVE  ChatInv
<1> SUFFICES ASSUME session.program = ChatProgram
    PROVE  ChatData(env.slots, <<>>, <<>>) /\ ChatValues(env.values)
  BY DEF ChatInv, Init
<1>p. PICK program : program = session.program
  OBVIOUS
<1>1. program \in Programs /\ IsProgram(program) /\ program = ChatProgram
  BY <1>p, ProgramsAssumption DEF Init
<1>2. env.slots = NewState(program.state) /\ env.values = NoValues
  BY <1>1, <1>p, NewStateOwns DEF Init
<1>s. PICK state : state = ChatProgram.state
  OBVIOUS
<1>3. state = << <<"pages", "paged_tensor">>, <<"page_table", "page_table">>,
                 <<"position_offset", "tensor">>, <<"write_page_ids", "tensor">>,
                 <<"write_offsets", "tensor">> >>
  BY <1>s DEF ChatProgram
<1>4. /\ DOMAIN state = 1..5
      /\ state[1][1] = "pages" /\ state[2][1] = "page_table" /\ state[3][1] = "position_offset"
      /\ state[4][1] = "write_page_ids" /\ state[5][1] = "write_offsets"
      /\ state[2][2] = "page_table" /\ state[3][2] = "tensor"
  BY <1>3
<1>5. /\ (CHOOSE i \in DOMAIN state : state[i][1] = "page_table") = 2
      /\ (CHOOSE i \in DOMAIN state : state[i][1] = "position_offset") = 3
  <2>1. \A i \in DOMAIN state : i = 1 \/ i = 2 \/ i = 3 \/ i = 4 \/ i = 5
    BY <1>4
  <2>2. \A i \in DOMAIN state : /\ state[i][1] = "page_table" <=> i = 2
                                /\ state[i][1] = "position_offset" <=> i = 3
    BY <1>4, <2>1
  <2>3. 2 \in DOMAIN state /\ 3 \in DOMAIN state
    BY <1>4
  <2> QED
    BY <2>2, <2>3
<1>6. /\ {"page_table", "position_offset"} \subseteq {d[1] : d \in ToSet(state)}
  <2>1. state[2] \in ToSet(state) /\ state[3] \in ToSet(state)
    BY <1>4 DEF ToSet
  <2> QED
    BY <1>4, <2>1
<1>7. /\ NewState(state)["page_table"] = Materialized("page_table", 2)
      /\ NewState(state)["position_offset"] = Materialized("tensor", 3)
  BY <1>4, <1>5, <1>6 DEF NewState
<1>8. Materialized("page_table", 2) = HostValue("table", <<>>)
  BY Zenon DEF Materialized
<1>9. Materialized("tensor", 3) = TensorValue(3, 0)
  BY Zenon DEF Materialized
<1>10. env.slots["page_table"].data = <<>> /\ env.slots["position_offset"].data = 0
  BY <1>1, <1>2, <1>7, <1>8, <1>9, <1>s DEF HostValue, TensorValue
<1>11. ChatData(env.slots, <<>>, <<>>)
  <2>1. env.slots["page_table"].data = [p \in 1..0 |-> p - 1]
    BY <1>10
  <2>2. Reaches(0, 0 + 0)
    BY DEF Reaches
  <2>3. 0 + 0 <= Positions
    BY StoreAssumption
  <2>4. /\ \A i \in 1..0 : env.slots["pages"].data[i - 1] = <<>>[i]
        /\ \A i \in 1..0 : env.slots["pages"].data[0 + i - 1] = <<>>[i]
    OBVIOUS
  <2> QED
    BY <1>10, <2>1, <2>2, <2>3, <2>4, NothingYet DEF ChatData
<1> QED
  BY <1>2, <1>11, NoChatValues
------------------------------------------------------------------------------
(* A chat: loops, input and output.                                          *)

\* The step a running chat is at.
LEMMA ChatDue ==
  ASSUME RunInv, ChatInv, InBody, session.program = ChatProgram
  PROVE  /\ Nested(ChatProgram, frames) /\ Owns(ChatProgram, env) /\ ChatProgram \in Programs
         /\ Last(frames).pc <= Len(Last(frames).body)
         /\ Current = Last(frames).body[Last(frames).pc]
         /\ ChatData(env.slots, history.done, history.batch) /\ ChatValues(env.values)
         /\ ChatPhase(frames, env, history.done, history.batch)
<1>1. status = "running"
  BY DEF InBody
<1> QED
  BY <1>1, Due DEF ChatInv, RunInv, Current, Top

LEMMA ChatBodyDone ==
  ASSUME RunInv, ChatInv, BodyDone, session.program = ChatProgram
  PROVE  /\ Nested(ChatProgram, frames) /\ Owns(ChatProgram, env)
         /\ ChatValues(env.values) /\ history.batch = <<>>
<1>1. status = "running" /\ Last(frames).pc > Len(Last(frames).body)
  BY DEF BodyDone, Top
<1>2. Nested(ChatProgram, frames) /\ Owns(ChatProgram, env)
  BY <1>1 DEF RunInv
<1>3. Stage(frames) \notin 3..5
  BY <1>1, <1>2, StageBetween
<1> QED
  BY <1>1, <1>2, <1>3 DEF ChatInv, ChatPhase

LEMMA ChatEntersLoop ==
  ASSUME RunInv, ChatInv, EnterLoop
  PROVE  ChatInv'
<1>1. InBody /\ session' = session /\ history' = history
  BY DEF EnterLoop, EnterUntilEOF, EnterLoopCount, EnterLoopEach, At, Silent
<1> SUFFICES ASSUME session.program = ChatProgram
    PROVE  /\ history.batch = <<>>
           /\ env'.slots = env.slots /\ ChatValues(env'.values)
           /\ Stage(frames') \notin 2..5
  BY <1>1, ChatRests
<1>2. /\ Nested(ChatProgram, frames) /\ Owns(ChatProgram, env)
      /\ Last(frames).pc <= Len(Last(frames).body) /\ Current = Last(frames).body[Last(frames).pc]
      /\ ChatValues(env.values) /\ ChatPhase(frames, env, history.done, history.batch)
  BY <1>1, ChatDue
<1>3. Current.op \in LoopOps
  BY DEF LoopOps, EnterLoop, EnterUntilEOF, EnterLoopCount, EnterLoopEach, At
<1>4. Stage(frames) \notin 1..5 /\ Current.op # "loop_each"
  BY <1>2, <1>3, StageOps
<1>5. history.batch = <<>>
  BY <1>2, <1>4 DEF ChatPhase
<1>6. PICK left, before : frames' = Append(frames, Frame(Current.op, Current.body, left, before))
  BY DEF EnterLoop, EnterUntilEOF, EnterLoopCount, EnterLoopEach, At
<1>7. Stage(frames') \notin 2..5
  BY <1>2, <1>3, <1>6, StageBetween
<1>8. env'.slots = env.slots /\ ChatValues(env'.values)
  <2>1. CASE EnterUntilEOF
    BY <1>2, <2>1 DEF EnterUntilEOF
  <2>2. CASE EnterLoopCount
    <3>e. PICK e : e = DropValue(env, "loop_break")
      OBVIOUS
    <3>v. PICK v : v = HostValue("index", 0)
      OBVIOUS
    <3>1. /\ Owns(ChatProgram, e) /\ e.slots = env.slots
          /\ DOMAIN e.values = DOMAIN env.values \ {"loop_break"}
          /\ \A n \in DOMAIN env.values \ {"loop_break"} : e.values[n] = env.values[n]
      BY <1>2, <3>e, DropValueOwns
    <3>2. ChatValues(e.values)
      BY <1>2, <3>1, OtherDropped
    <3>3. v.id = 0 /\ "loop_index" \in Assigned(ChatProgram)
      BY <3>v, HostValues, LoopNames
    <3>4. /\ SetValue(e, "loop_index", v).slots = e.slots
          /\ SetValue(e, "loop_index", v).values = Update(e.values, "loop_index", v)
      BY <3>1, <3>3, StoreNew
    <3>5. env' = SetValue(e, "loop_index", v)
      BY <2>2, <3>e, <3>v DEF EnterLoopCount
    <3>6. ChatValues(Update(e.values, "loop_index", v))
      BY <3>2, OtherSet
    <3> QED
      BY <3>1, <3>4, <3>5, <3>6
  <2>3. CASE EnterLoopEach
    BY <1>4, <2>3 DEF EnterLoopEach, At
  <2> QED
    BY <2>1, <2>2, <2>3 DEF EnterLoop
<1> QED
  BY <1>5, <1>7, <1>8

LEMMA ChatEndsBody ==
  ASSUME RunInv, ChatInv, EndCountedIteration \/ EndEachIteration \/ EndUntilEOFIteration
  PROVE  ChatInv'
<1>1. BodyDone /\ Top.kind # "main" /\ session' = session /\ history' = history
  BY DEF EndCountedIteration, EndEachIteration, EndUntilEOFIteration, Silent
<1> SUFFICES ASSUME session.program = ChatProgram
    PROVE  /\ history.batch = <<>>
           /\ env'.slots = env.slots /\ ChatValues(env'.values)
           /\ Stage(frames') \notin 2..5
  BY <1>1, ChatRests
<1>2. /\ Nested(ChatProgram, frames) /\ Owns(ChatProgram, env)
      /\ ChatValues(env.values) /\ history.batch = <<>>
  BY <1>1, ChatBodyDone
<1>3. Stage(Popped(frames)) \notin 2..5
  BY <1>1, <1>2, StageBetween DEF Top
<1>4. \A left, before : Stage(Again(frames, left, before)) \notin 2..5
  BY <1>2, StageBetween
<1>5. Stage(frames') \notin 2..5
  BY <1>3, <1>4 DEF EndCountedIteration, EndEachIteration, EndUntilEOFIteration
<1>6. Top.kind # "loop_each"
  <2>1. /\ Len(frames) \in 1..3 /\ frames[1].kind = "main"
        /\ Len(frames) > 1 => frames[2].kind = "until_eof"
        /\ Len(frames) > 2 => frames[3].kind = "loop_count"
    BY <1>2, ChatStack
  <2>2. Len(frames) = 1 \/ Len(frames) = 2 \/ Len(frames) = 3
    BY <2>1
  <2> QED
    BY <2>1, <2>2 DEF Top, Last
<1>7. env'.slots = env.slots /\ ChatValues(env'.values)
  <2>1. CASE EndCountedIteration
    <3>1. /\ DropValue(env, "loop_break").slots = env.slots
          /\ ChatValues(DropValue(env, "loop_break").values)
      <4>e. PICK e : e = DropValue(env, "loop_break")
        OBVIOUS
      <4>1. /\ e.slots = env.slots
            /\ DOMAIN e.values = DOMAIN env.values \ {"loop_break"}
            /\ \A n \in DOMAIN env.values \ {"loop_break"} : e.values[n] = env.values[n]
        BY <1>2, <4>e, DropValueOwns
      <4>2. ChatValues(e.values)
        BY <1>2, <4>1, OtherDropped
      <4> QED
        BY <4>1, <4>2, <4>e
    <3>2. ASSUME NEW data
          PROVE  /\ SetValue(env, "loop_index", HostValue("index", data)).slots = env.slots
                 /\ ChatValues(SetValue(env, "loop_index", HostValue("index", data)).values)
      <4>v. PICK v : v = HostValue("index", data)
        OBVIOUS
      <4>1. v.id = 0 /\ "loop_index" \in Assigned(ChatProgram)
        BY <4>v, HostValues, LoopNames
      <4>2. /\ SetValue(env, "loop_index", v).slots = env.slots
            /\ SetValue(env, "loop_index", v).values = Update(env.values, "loop_index", v)
        BY <1>2, <4>1, StoreNew
      <4>3. ChatValues(Update(env.values, "loop_index", v))
        BY <1>2, OtherSet
      <4> QED
        BY <4>2, <4>3, <4>v
    <3>3. \/ env' = env \/ env' = DropValue(env, "loop_break")
          \/ \E data : env' = SetValue(env, "loop_index", HostValue("index", data))
      BY <2>1 DEF EndCountedIteration
    <3> QED
      BY <1>2, <3>1, <3>2, <3>3
  <2>2. CASE EndEachIteration
    BY <1>6, <2>2 DEF EndEachIteration
  <2>3. CASE EndUntilEOFIteration
    BY <1>2, <2>3 DEF EndUntilEOFIteration
  <2> QED
    BY <2>1, <2>2, <2>3
<1> QED
  BY <1>2, <1>5, <1>7

LEMMA ChatReadsLine ==
  ASSUME RunInv, ChatInv, ReadLine
  PROVE  ChatInv'
<1>1. InBody /\ session' = session /\ history' = history /\ Current.op = "read_line"
  BY DEF ReadLine, At
<1> SUFFICES ASSUME session.program = ChatProgram
    PROVE  /\ history.batch = <<>>
           /\ env'.slots = env.slots /\ ChatValues(env'.values)
           /\ Stage(frames') \notin 2..5
  BY <1>1, ChatRests
<1>2. /\ Nested(ChatProgram, frames) /\ Owns(ChatProgram, env)
      /\ Last(frames).pc <= Len(Last(frames).body) /\ Current = Last(frames).body[Last(frames).pc]
      /\ ChatValues(env.values) /\ ChatPhase(frames, env, history.done, history.batch)
  BY <1>1, ChatDue
<1>3. Stage(frames) \notin 1..5 /\ Current.out = <<"user_text">>
  BY <1>1, <1>2, StageOps
<1>4. history.batch = <<>>
  BY <1>2, <1>3 DEF ChatPhase
<1>5. PICK line : /\ env' = SetValue(env, Output, HostValue("line", line))
                  /\ \/ Top.kind = "until_eof" /\ frames' = Popped(frames)
                     \/ frames' = Advanced(frames)
  BY DEF ReadLine
<1>6. Stage(frames') \notin 2..5
  <2>1. CASE Top.kind = "until_eof" /\ frames' = Popped(frames)
    BY <1>2, <2>1, StageBetween DEF Top
  <2>2. CASE frames' = Advanced(frames)
    BY <1>2, <1>3, <2>2, StageAdvanced
  <2> QED
    BY <1>5, <2>1, <2>2
<1>7. env'.slots = env.slots /\ ChatValues(env'.values)
  <2>v. PICK v : v = HostValue("line", line)
    OBVIOUS
  <2>1. v.id = 0 /\ Output = "user_text"
    BY <1>3, <2>v, HostValues DEF Output
  <2>2. "user_text" \in Assigned(ChatProgram)
    <3>1. Len(Current.out) = 1
      BY <1>3
    <3> QED
      BY <1>1, <2>1, <3>1, OneOutput
  <2>3. /\ SetValue(env, "user_text", v).slots = env.slots
        /\ SetValue(env, "user_text", v).values = Update(env.values, "user_text", v)
    BY <1>2, <2>1, <2>2, StoreNew
  <2>4. ChatValues(Update(env.values, "user_text", v))
    BY <1>2, OtherSet
  <2> QED
    BY <1>5, <2>1, <2>3, <2>4, <2>v
<1> QED
  BY <1>4, <1>6, <1>7

LEMMA ChatReadsEOF ==
  ASSUME RunInv, ChatInv, ReadEOF
  PROVE  ChatInv'
<1>1. InBody /\ session' = session /\ history' = history /\ Current.op = "read_line"
  BY DEF ReadEOF, At
<1>l. PICK loops : loops = {i \in DOMAIN frames : frames[i].kind = "until_eof"}
  OBVIOUS
<1>2. CASE loops = {}
  <2>1. EndRun("failed", env)
    BY <1>2, <1>l DEF ReadEOF
  <2> QED
    BY <1>1, <2>1, ChatEnds
<1>3. CASE loops # {}
  <2> SUFFICES ASSUME session.program = ChatProgram
      PROVE  /\ history.batch = <<>>
             /\ env'.slots = env.slots /\ ChatValues(env'.values)
             /\ Stage(frames') \notin 2..5
    BY <1>1, ChatRests
  <2>1. /\ Nested(ChatProgram, frames) /\ Last(frames).pc <= Len(Last(frames).body)
        /\ Current = Last(frames).body[Last(frames).pc]
        /\ ChatValues(env.values) /\ ChatPhase(frames, env, history.done, history.batch)
    BY <1>1, ChatDue
  <2>2. Stage(frames) \notin 1..5
    BY <1>1, <2>1, StageOps
  <2>3. history.batch = <<>>
    BY <2>1, <2>2 DEF ChatPhase
  <2>4. frames' = Advanced(SubSeq(frames, 1, Max(loops) - 1)) /\ env' = env
    BY <1>3, <1>l DEF ReadEOF
  <2>5. Max(loops) \in 2..Len(frames)
    BY <1>3, <1>l, <2>1, EOFLoop
  <2>k. PICK k : k = Max(loops) - 1
    OBVIOUS
  <2>6. k \in 1..(Len(frames) - 1)
    <3>1. Len(frames) \in Nat
      BY <2>1, SequenceFacts DEF Nested
    <3> QED
      BY <2>5, <2>k, <3>1
  <2>7. Stage(frames') \notin 2..5
    BY <2>1, <2>4, <2>6, <2>k, StageBetween
  <2> QED
    BY <2>1, <2>3, <2>4, <2>7
<1> QED
  BY <1>2, <1>3

LEMMA ChatEncodes ==
  ASSUME RunInv, ChatInv, Encode
  PROVE  ChatInv'
<1>1. InBody /\ session' = session /\ history' = history /\ Current.op = "encode"
  BY DEF Encode, At, Silent
<1> SUFFICES ASSUME session.program = ChatProgram
    PROVE  /\ history.batch = <<>>
           /\ env'.slots = env.slots /\ ChatValues(env'.values)
           /\ Stage(frames') \notin 2..5
  BY <1>1, ChatRests
<1>2. /\ Nested(ChatProgram, frames) /\ Owns(ChatProgram, env)
      /\ Last(frames).pc <= Len(Last(frames).body) /\ Current = Last(frames).body[Last(frames).pc]
      /\ ChatValues(env.values) /\ ChatPhase(frames, env, history.done, history.batch)
  BY <1>1, ChatDue
<1>3. Stage(frames) \notin 1..5 /\ Current.out = <<"input_ids">> /\ Current.arg = "input_ids"
  BY <1>1, <1>2, StageOps
<1>4. history.batch = <<>>
  BY <1>2, <1>3 DEF ChatPhase
<1>o. PICK existing : existing = IF "input_ids" \in DOMAIN env.values
                                 THEN env.values["input_ids"].data ELSE <<>>
  OBVIOUS
<1>5. PICK prompt \in Prompts :
        Continue(SetValue(env, "input_ids", HostValue("tokens", existing \o prompt)))
  <2>1. Output = "input_ids" /\ Current.arg = "input_ids"
    BY <1>3 DEF Output
  <2> QED
    BY <1>o, <2>1 DEF Encode
<1>6. existing \in Seq(Tokens) /\ prompt \in Seq(Tokens)
  <2>1. existing \in Seq(Tokens)
    BY <1>2, <1>o, NothingYet DEF ChatValues
  <2>2. prompt \in Seq(ToSet(prompt)) /\ ToSet(prompt) \subseteq Tokens
    BY PromptsAssumption DEF Tokens
  <2>3. prompt \in Seq(Tokens)
    BY <2>2, SeqDef
  <2> QED
    BY <2>1, <2>3
<1>t. PICK tokens : tokens = existing \o prompt
  OBVIOUS
<1>7. tokens \in Seq(Tokens)
  BY <1>6, <1>t, ConcatProperties
<1>8. Stage(frames') \notin 2..5
  BY <1>2, <1>3, <1>5, StageAdvanced DEF Continue
<1>9. env'.slots = env.slots /\ ChatValues(env'.values)
  <2>v. PICK v : v = HostValue("tokens", tokens)
    OBVIOUS
  <2>1. v.id = 0 /\ v.data = tokens
    BY <2>v, HostValues
  <2>2. "input_ids" \in Assigned(ChatProgram)
    <3>1. Len(Current.out) = 1 /\ Output = "input_ids"
      BY <1>3 DEF Output
    <3> QED
      BY <1>1, <3>1, OneOutput
  <2>3. /\ SetValue(env, "input_ids", v).slots = env.slots
        /\ SetValue(env, "input_ids", v).values = Update(env.values, "input_ids", v)
    BY <1>2, <2>1, <2>2, StoreNew
  <2>n. PICK new : new = Update(env.values, "input_ids", v)
    OBVIOUS
  <2>4. /\ new["input_ids"] = v /\ DOMAIN new = DOMAIN env.values \cup {"input_ids"}
        /\ "next_token" \in DOMAIN env.values => new["next_token"] = env.values["next_token"]
    BY <2>n DEF Update
  <2>5. ChatValues(new)
    BY <1>2, <1>7, <2>1, <2>4 DEF ChatValues
  <2>6. env' = SetValue(env, "input_ids", v)
    BY <1>5, <1>t, <2>v DEF Continue
  <2> QED
    BY <2>3, <2>5, <2>6, <2>n
<1> QED
  BY <1>4, <1>8, <1>9
------------------------------------------------------------------------------
(* A chat: the five steps of a model call.                                   *)

\* A step that reads the batch and the position finds them in the value table and
\* in the slot.
LEMMA BatchRead ==
  ASSUME RunInv, ChatInv, InBody, session.program = ChatProgram, InputsReadable,
         Current.op \in {"paged_plan", "call_model", "advance_position"}
  PROVE  /\ BatchName(frames) \in DOMAIN env.values
         /\ Data(Current.in[1]) = env.values[BatchName(frames)].data
         /\ Data(Current.in[1]) \in Seq(Tokens)
         /\ Data(Current.in[2]) = Len(history.done)
<1>1. /\ Nested(ChatProgram, frames) /\ Owns(ChatProgram, env)
      /\ Last(frames).pc <= Len(Last(frames).body)
      /\ Current = Last(frames).body[Last(frames).pc]
      /\ ChatData(env.slots, history.done, history.batch) /\ ChatValues(env.values)
  BY ChatDue
<1>n. PICK name : name = BatchName(frames)
  OBVIOUS
<1>i. PICK in : in = Current.in
  OBVIOUS
<1>2. in[1] = name /\ in[2] = "position_offset"
  <2>1. \/ in = <<name, "position_offset">>
        \/ in = <<name, "position_offset", "pages", "page_table", "write_page_ids", "write_offsets">>
    BY <1>1, <1>i, <1>n, StageOps
  <2> QED
    BY <2>1
<1>3. name \in {"input_ids", "next_token"}
  BY <1>n DEF BatchName
<1>4. /\ DOMAIN env.slots = {"pages", "page_table", "position_offset", "write_page_ids",
                             "write_offsets"}
  BY <1>1, ChatDeclared DEF Owns
<1>5. name \in ToSet(in)
  <2>1. \/ in = <<name, "position_offset">>
        \/ in = <<name, "position_offset", "pages", "page_table", "write_page_ids", "write_offsets">>
    BY <1>1, <1>i, <1>n, StageOps
  <2> QED
    BY <2>1 DEF ToSet
<1>6. Known(env, name)
  BY <1>5, <1>i DEF InputsReadable, Readable
<1>7. name \notin DOMAIN env.slots
  BY <1>3, <1>4
<1>8. name \in DOMAIN env.values
  BY <1>6, <1>7 DEF Known
<1>9. Lookup(env, name) = env.values[name]
  BY <1>7 DEF Lookup
<1>10. Lookup(env, "position_offset") = env.slots["position_offset"]
  BY <1>4 DEF Lookup
<1>11. env.values[name].data \in Seq(Tokens)
  BY <1>1, <1>3, <1>8 DEF ChatValues
<1>12. env.slots["position_offset"].data = Len(history.done)
  BY <1>1 DEF ChatData
<1> QED
  BY <1>2, <1>8, <1>9, <1>10, <1>11, <1>12, <1>i, <1>n DEF Data

LEMMA ChatEmits ==
  ASSUME RunInv, ChatInv, Emit
  PROVE  ChatInv'
<1>1. InBody /\ session' = session /\ history' = history /\ Continue(env)
      /\ Current.op \in {"emit_token", "write_image"}
  BY DEF Emit, At, Silent
<1> SUFFICES ASSUME session.program = ChatProgram
    PROVE  /\ ChatData(env'.slots, history.done, history.batch)
           /\ ChatValues(env'.values)
           /\ ChatPhase(frames', env', history.done, history.batch)
  BY <1>1 DEF ChatInv
<1>2. /\ Nested(ChatProgram, frames)
      /\ Last(frames).pc <= Len(Last(frames).body) /\ Current = Last(frames).body[Last(frames).pc]
      /\ ChatData(env.slots, history.done, history.batch)
      /\ ChatValues(env.values) /\ ChatPhase(frames, env, history.done, history.batch)
  BY <1>1, ChatDue
<1>3. Current.op = "emit_token" /\ Stage(frames) = 4
  BY <1>1, <1>2, StageOps DEF LoopOps
<1>4. env' = env /\ frames' = Advanced(frames)
  BY <1>1 DEF Continue
<1>5. Stage(frames') = 5 /\ BatchName(frames') = BatchName(frames)
  BY <1>2, <1>3, <1>4, StageAdvanced
<1>6. ChatPhase(frames', env, history.done, history.batch)
  BY <1>2, <1>3, <1>5 DEF ChatPhase
<1> QED
  BY <1>2, <1>4, <1>6

\* Both batches have one token where the name of the second is overwritten.
LEMMA ChatSamples ==
  ASSUME RunInv, ChatInv, Sample
  PROVE  ChatInv'
<1>1. InBody /\ session' = session /\ history' = history /\ Current.op = "sample"
  BY DEF Sample, At, Silent
<1> SUFFICES ASSUME session.program = ChatProgram
    PROVE  /\ ChatData(env'.slots, history.done, history.batch)
           /\ ChatValues(env'.values)
           /\ ChatPhase(frames', env', history.done, history.batch)
  BY <1>1 DEF ChatInv
<1>2. /\ Nested(ChatProgram, frames) /\ Owns(ChatProgram, env)
      /\ Last(frames).pc <= Len(Last(frames).body) /\ Current = Last(frames).body[Last(frames).pc]
      /\ ChatData(env.slots, history.done, history.batch)
      /\ ChatValues(env.values) /\ ChatPhase(frames, env, history.done, history.batch)
  BY <1>1, ChatDue
<1>3. Current.out = <<"next_token">> /\ Stage(frames) = 3
  BY <1>1, <1>2, StageOps
<1>4. Output = "next_token" /\ "next_token" \in Assigned(ChatProgram)
  <2>1. Len(Current.out) = 1 /\ Output = "next_token"
    BY <1>3 DEF Output
  <2> QED
    BY <1>1, <2>1, OneOutput
<1>f. PICK flag : flag = HostValue("flag", TRUE)
  OBVIOUS
<1>5. PICK token, e :
        /\ token \in Sampled
        /\ e = env \/ e = SetValue(env, "loop_break", flag)
        /\ Continue(SetValue(e, "next_token", HostValue("tokens", <<token>>)))
  BY <1>4, <1>f DEF Sample
<1>6. /\ Owns(ChatProgram, e) /\ e.slots = env.slots
      /\ \A n \in DOMAIN env.values \ {"loop_break"} : n \in DOMAIN e.values /\ e.values[n] = env.values[n]
      /\ "input_ids" \in DOMAIN e.values <=> "input_ids" \in DOMAIN env.values
  <2>1. CASE e = env
    BY <1>2, <2>1
  <2>2. CASE e = SetValue(env, "loop_break", flag)
    <3>1. flag.id = 0 /\ "loop_break" \in Assigned(ChatProgram)
      BY <1>f, HostValues, LoopNames
    <3>2. /\ Owns(ChatProgram, e) /\ e.slots = env.slots
          /\ e.values = Update(env.values, "loop_break", flag)
      BY <1>2, <2>2, <3>1, StoreNew
    <3> QED
      BY <3>2 DEF Update
  <2> QED
    BY <1>5, <2>1, <2>2
<1>v. PICK v : v = HostValue("tokens", <<token>>)
  OBVIOUS
<1>7. v.id = 0 /\ v.data = <<token>>
  BY <1>v, HostValues
<1>n. PICK new : new = Update(e.values, "next_token", v)
  OBVIOUS
<1>8. /\ new["next_token"] = v /\ DOMAIN new = DOMAIN e.values \cup {"next_token"}
      /\ \A m \in DOMAIN e.values \ {"next_token"} : new[m] = e.values[m]
  BY <1>n DEF Update
<1>9. env' = SetValue(e, "next_token", v) /\ frames' = Advanced(frames)
  BY <1>5, <1>v DEF Continue
<1>10. env'.slots = env.slots /\ env'.values = new
  BY <1>4, <1>6, <1>7, <1>9, <1>n, StoreNew
<1>11. v.data \in Seq(Tokens) /\ Len(v.data) = 1
  <2>1. token \in Tokens
    BY <1>5 DEF Tokens
  <2> QED
    BY <1>7, <2>1
<1>12. "input_ids" \in DOMAIN env.values =>
         "input_ids" \in DOMAIN new /\ new["input_ids"] = env.values["input_ids"]
  BY <1>6, <1>8
<1>13. ChatValues(new)
  <2>1. "input_ids" \in DOMAIN new => new["input_ids"].data \in Seq(Tokens)
    BY <1>2, <1>6, <1>8, <1>12 DEF ChatValues
  <2> QED
    BY <1>8, <1>11, <2>1 DEF ChatValues
<1>14. Stage(frames') = 4 /\ BatchName(frames') = BatchName(frames)
  BY <1>2, <1>3, <1>9, StageAdvanced
<1>15. /\ BatchName(frames) \in DOMAIN new
       /\ Len(new[BatchName(frames)].data) = Len(history.batch)
  <2>1. /\ BatchName(frames) \in DOMAIN env.values
        /\ Len(env.values[BatchName(frames)].data) = Len(history.batch)
    BY <1>2, <1>3 DEF ChatPhase
  <2>2. BatchName(frames) = "input_ids" \/ BatchName(frames) = "next_token"
    BY DEF BatchName
  <2>3. CASE BatchName(frames) = "input_ids"
    BY <1>12, <2>1, <2>3
  <2>4. CASE BatchName(frames) = "next_token"
    <3>1. Len(env.values["next_token"].data) = 1
      BY <1>2, <2>1, <2>4 DEF ChatValues
    <3> QED
      BY <1>8, <1>11, <2>1, <2>4, <3>1
  <2> QED
    BY <2>2, <2>3, <2>4
<1>16. ChatPhase(frames', env', history.done, history.batch)
  BY <1>10, <1>14, <1>15 DEF ChatPhase
<1> QED
  BY <1>2, <1>10, <1>13, <1>16

LEMMA ChatPlans ==
  ASSUME RunInv, ChatInv, PagedPlan
  PROVE  ChatInv'
<1>1. InBody /\ session' = session /\ history' = history /\ Current.op = "paged_plan"
      /\ InputsReadable
  BY DEF PagedPlan, At, Silent
<1> SUFFICES ASSUME session.program = ChatProgram
    PROVE  /\ ChatData(env'.slots, history.done, history.batch)
           /\ ChatValues(env'.values)
           /\ ChatPhase(frames', env', history.done, history.batch)
  BY <1>1 DEF ChatInv
<1>2. /\ Nested(ChatProgram, frames)
      /\ Last(frames).pc <= Len(Last(frames).body) /\ Current = Last(frames).body[Last(frames).pc]
      /\ ChatData(env.slots, history.done, history.batch)
      /\ ChatValues(env.values) /\ ChatPhase(frames, env, history.done, history.batch)
  BY <1>1, ChatDue
<1>3. Stage(frames) = 1
  BY <1>1, <1>2, StageOps
<1>4. history.batch = <<>>
  BY <1>2, <1>3 DEF ChatPhase
<1>n. PICK name : name = BatchName(frames)
  OBVIOUS
<1>5. /\ name \in DOMAIN env.values /\ Data(Current.in[1]) = env.values[name].data
      /\ Data(Current.in[1]) \in Seq(Tokens) /\ Data(Current.in[2]) = Len(history.done)
  BY <1>1, <1>n, BatchRead
<1>s. PICK start, count : start = Len(history.done) /\ count = Len(env.values[name].data)
  OBVIOUS
<1>6. count \in Nat /\ count > 0
  <2>1. count \in Nat
    BY <1>5, <1>s, LenProperties
  <2>2. count > 0
    BY <1>5, <1>s DEF PagedPlan
  <2> QED
    BY <2>1, <2>2
<1>7. /\ Planned(ChatProgram, env, PlanPages(start, count), PlanOffsets(start, count),
                 PlanTable(start, count), env')
      /\ Continue(env')
  BY <1>5, <1>s, PagedPlanStores
<1>8. /\ env'.values = env.values
      /\ env'.slots["write_page_ids"].data = PlanPages(start, count)
      /\ env'.slots["write_offsets"].data = PlanOffsets(start, count)
      /\ env'.slots["page_table"].data = PlanTable(start, count)
      /\ env'.slots["position_offset"] = env.slots["position_offset"]
      /\ env'.slots["pages"] = env.slots["pages"]
  BY <1>7, ChatDeclared DEF Planned
<1>9. ChatData(env'.slots, history.done, <<>>)
  <2>1. count \in Nat \ {0}
    BY <1>6
  <2>o. PICK slots : slots = env'.slots
    OBVIOUS
  <2>2. ChatData(env.slots, history.done, <<>>)
    BY <1>2, <1>4
  <2>3. /\ slots["position_offset"] = env.slots["position_offset"]
        /\ slots["pages"] = env.slots["pages"]
        /\ slots["page_table"].data = PlanTable(Len(history.done), count)
    BY <1>8, <1>s, <2>o
  <2>4. ChatData(slots, history.done, <<>>)
    BY <2>1, <2>2, <2>3, PlanKeeps
  <2> QED
    BY <2>4, <2>o
<1>10. Stage(frames') = 2 /\ BatchName(frames') = name
  <2>1. frames' = Advanced(frames)
    BY <1>7 DEF Continue
  <2> QED
    BY <1>2, <1>3, <1>n, <2>1, StageAdvanced
<1>11. PlannedFor(env'.slots, start, count)
  BY <1>6, <1>8 DEF PlannedFor
<1>12. ChatPhase(frames', env', history.done, <<>>)
  BY <1>5, <1>8, <1>10, <1>11, <1>s DEF ChatPhase
<1> QED
  BY <1>2, <1>4, <1>8, <1>9, <1>12

\* At a model call the plan is for the batch that is passed.
LEMMA ChatCalling ==
  ASSUME RunInv, ChatInv, InBody, session.program = ChatProgram, InputsReadable,
         Current.op = "call_model"
  PROVE  /\ Stage(frames) = 2 /\ Current.out = <<"logits">>
         /\ history.batch = <<>> /\ Data(Current.in[1]) \in Seq(Tokens)
         /\ BatchName(frames) \in DOMAIN env.values
         /\ Data(Current.in[1]) = env.values[BatchName(frames)].data
         /\ PlannedFor(env.slots, Len(history.done), Len(Data(Current.in[1])))
         /\ ChatData(env.slots, history.done, <<>>)
         /\ Owns(ChatProgram, env) /\ ChatValues(env.values)
<1>1. /\ Nested(ChatProgram, frames) /\ Owns(ChatProgram, env)
      /\ Last(frames).pc <= Len(Last(frames).body) /\ Current = Last(frames).body[Last(frames).pc]
      /\ ChatData(env.slots, history.done, history.batch)
      /\ ChatValues(env.values) /\ ChatPhase(frames, env, history.done, history.batch)
  BY ChatDue
<1>2. Stage(frames) = 2 /\ Current.out = <<"logits">>
  BY <1>1, StageOps
<1>3. /\ BatchName(frames) \in DOMAIN env.values
      /\ Data(Current.in[1]) = env.values[BatchName(frames)].data
      /\ Data(Current.in[1]) \in Seq(Tokens)
  BY BatchRead
<1>4. /\ history.batch = <<>>
      /\ PlannedFor(env.slots, Len(history.done), Len(env.values[BatchName(frames)].data))
  <2>1. Stage(frames) \notin 3..5
    BY <1>2
  <2> QED
    BY <1>1, <1>2, <2>1 DEF ChatPhase
<1> QED
  BY <1>1, <1>2, <1>3, <1>4

LEMMA ChatCalls ==
  ASSUME RunInv, ChatInv, CallModel
  PROVE  ChatInv'
<1>1. InBody /\ session' = session /\ Current.op = "call_model" /\ InputsReadable
  BY DEF CallModel, At
<1> SUFFICES ASSUME session.program = ChatProgram
    PROVE  /\ DOMAIN history' = {"done", "batch"}
           /\ ChatData(env'.slots, history'.done, history'.batch)
           /\ ChatValues(env'.values)
           /\ ChatPhase(frames', env', history'.done, history'.batch)
  BY <1>1 DEF ChatInv
<1>b. PICK batch, done, name : /\ batch = Data(Current.in[1]) /\ done = history.done
                               /\ name = BatchName(frames)
  OBVIOUS
<1>2. /\ Stage(frames) = 2 /\ Current.out = <<"logits">>
      /\ batch \in Seq(Tokens) /\ name \in DOMAIN env.values /\ batch = env.values[name].data
      /\ PlannedFor(env.slots, Len(done), Len(batch)) /\ ChatData(env.slots, done, <<>>)
      /\ Owns(ChatProgram, env) /\ ChatValues(env.values)
  BY <1>1, <1>b, ChatCalling
<1>e. PICK e : e = WriteCache(env, batch, Len(batch))
  OBVIOUS
<1>v. PICK v : v = Upload(e, 0)
  OBVIOUS
<1>3. Output = "logits" /\ "logits" \in Assigned(ChatProgram) /\ "logits" \notin Declared(ChatProgram)
  <2>1. Len(Current.out) = 1 /\ Output = "logits"
    BY <1>2 DEF Output
  <2> QED
    BY <1>1, <2>1, OneOutput, ChatDeclared
<1>4. /\ Fits(Len(batch)) /\ Continue(Write(e, "logits", v))
      /\ DOMAIN history' = {"done", "batch"}
      /\ history'.batch = batch /\ history'.done = done
  <2>1. /\ Fits(Len(batch)) /\ Continue(Write(e, Output, v))
        /\ history' = [history EXCEPT !.batch = batch]
    BY <1>b, <1>e, <1>v DEF CallModel
  <2>2. DOMAIN history = {"done", "batch"}
    BY DEF ChatInv
  <2>3. DOMAIN history' = {"done", "batch"} /\ history'.batch = batch /\ history'.done = history.done
    BY <2>1, <2>2
  <2> QED
    BY <1>3, <1>b, <2>1, <2>3
<1>5. Owns(ChatProgram, e) /\ e.values = env.values /\ ChatData(e.slots, done, batch)
  <2>1. Len(batch) \in 0..Len(batch)
    BY <1>2, LenProperties
  <2> QED
    BY <1>2, <1>4, <1>e, <2>1, CallWrites
<1>6. v.id = 0 \/ IsFresh(e, v)
  <2>1. ChatProgram \in Programs
    BY DEF RunInv
  <2> QED
    BY <1>5, <1>v, <2>1, UploadStored
<1>7. Stored(ChatProgram, e, "logits", v, Write(e, "logits", v))
  BY <1>3, <1>5, <1>6, StoreNew
<1>8. env' = Write(e, "logits", v) /\ frames' = Advanced(frames)
  BY <1>4 DEF Continue
<1>9. env'.slots = e.slots /\ env'.values = Update(env.values, "logits", v)
  BY <1>3, <1>5, <1>7, <1>8 DEF Stored
<1>10. ChatValues(env'.values)
  BY <1>2, <1>9, OtherSet
<1>11. Stage(frames') = 3 /\ BatchName(frames') = name
  <2>1. /\ Nested(ChatProgram, frames) /\ Last(frames).pc <= Len(Last(frames).body)
    BY <1>1, ChatDue
  <2> QED
    BY <1>2, <1>8, <1>b, <2>1, StageAdvanced
<1>12. name \in DOMAIN env'.values /\ Len(env'.values[name].data) = Len(batch)
  <2>1. name = "input_ids" \/ name = "next_token"
    BY <1>b DEF BatchName
  <2>2. name # "logits"
    BY <2>1
  <2>3. name \in DOMAIN env'.values /\ env'.values[name] = env.values[name]
    BY <1>2, <1>9, <2>2 DEF Update
  <2> QED
    BY <1>2, <2>3
<1>13. ChatPhase(frames', env', done, batch)
  BY <1>11, <1>12 DEF ChatPhase
<1> QED
  BY <1>4, <1>5, <1>9, <1>10, <1>13

\* The position does not count what a call that fails has written.
LEMMA ChatCallFails ==
  ASSUME RunInv, ChatInv, CallModelFails
  PROVE  ChatInv'
<1>1. InBody /\ session' = session /\ history' = history /\ Current.op = "call_model"
      /\ InputsReadable
  BY DEF CallModelFails, At, Silent
<1> SUFFICES ASSUME session.program = ChatProgram
    PROVE  /\ ChatData(env'.slots, history.done, history.batch)
           /\ ChatValues(env'.values)
           /\ status' # "running"
  BY <1>1 DEF ChatInv
<1>b. PICK batch, done : batch = Data(Current.in[1]) /\ done = history.done
  OBVIOUS
<1>2. /\ history.batch = <<>> /\ batch \in Seq(Tokens)
      /\ PlannedFor(env.slots, Len(done), Len(batch)) /\ ChatData(env.slots, done, <<>>)
      /\ Owns(ChatProgram, env)
  BY <1>1, <1>b, ChatCalling
<1>3. PICK n \in 0..Len(batch) : Fits(n) /\ EndRun("failed", WriteCache(env, batch, n))
  BY <1>b DEF CallModelFails
<1>e. PICK e : e = WriteCache(env, batch, n)
  OBVIOUS
<1>4. Owns(ChatProgram, e) /\ ChatData(e.slots, done, <<>>)
  BY <1>2, <1>3, <1>e, CallWrites
<1>5. env' = CloseRun(e) /\ status' = "failed"
  BY <1>3, <1>e DEF EndRun
<1>6. env'.slots = e.slots /\ env'.values = NoValues
  BY <1>4, <1>5, RunEnds
<1> QED
  BY <1>2, <1>4, <1>5, <1>6, <1>b, NoChatValues

LEMMA ChatAdvances ==
  ASSUME RunInv, ChatInv, AdvancePosition
  PROVE  ChatInv'
<1>1. InBody /\ session' = session /\ Current.op = "advance_position" /\ InputsReadable
  BY DEF AdvancePosition, At
<1> SUFFICES ASSUME session.program = ChatProgram
    PROVE  /\ DOMAIN history' = {"done", "batch"}
           /\ ChatData(env'.slots, history'.done, history'.batch)
           /\ ChatValues(env'.values)
           /\ ChatPhase(frames', env', history'.done, history'.batch)
  BY <1>1 DEF ChatInv
<1>b. PICK batch, done, name : /\ batch = history.batch /\ done = history.done
                               /\ name = BatchName(frames)
  OBVIOUS
<1>2. /\ Nested(ChatProgram, frames) /\ Owns(ChatProgram, env) /\ ChatProgram \in Programs
      /\ Last(frames).pc <= Len(Last(frames).body) /\ Current = Last(frames).body[Last(frames).pc]
      /\ ChatData(env.slots, done, batch)
      /\ ChatValues(env.values) /\ ChatPhase(frames, env, done, batch)
  BY <1>1, <1>b, ChatDue
<1>3. Stage(frames) = 5 /\ Current.out = <<"position_offset">>
  BY <1>1, <1>2, StageOps
<1>4. /\ Data(Current.in[1]) = env.values[name].data /\ Data(Current.in[2]) = Len(done)
  BY <1>1, <1>b, BatchRead
<1>5. Len(env.values[name].data) = Len(batch)
  BY <1>2, <1>3, <1>b DEF ChatPhase
<1>v. PICK v : v = Upload(env, Len(done) + Len(batch))
  OBVIOUS
<1>6. Continue(SetReference(env, "position_offset", v))
  <2>1. Output = "position_offset"
    BY <1>3 DEF Output
  <2>2. Continue(SetReference(env, Output, Upload(env, Data(Current.in[2]) + Len(Data(Current.in[1])))))
    BY DEF AdvancePosition
  <2>3. Data(Current.in[2]) + Len(Data(Current.in[1])) = Len(done) + Len(batch)
    BY <1>4, <1>5
  <2> QED
    BY <1>v, <2>1, <2>2, <2>3
<1>7. v.data = Len(done) + Len(batch) /\ (v.id = 0 \/ IsFresh(env, v))
  BY <1>2, <1>v, UploadStored
<1>8. /\ SetReference(env, "position_offset", v).values = env.values
      /\ SetReference(env, "position_offset", v).slots = Update(env.slots, "position_offset", v)
  <2>1. "position_offset" \in Declared(ChatProgram)
    BY ChatDeclared
  <2> QED
    BY <1>2, <1>7, <2>1, RefNew
<1>9. env'.values = env.values /\ env'.slots = Update(env.slots, "position_offset", v)
      /\ frames' = Advanced(frames)
  BY <1>6, <1>8 DEF Continue
<1>s. PICK slots : slots = env'.slots
  OBVIOUS
<1>10. /\ slots["position_offset"].data = Len(done) + Len(batch)
       /\ slots["pages"] = env.slots["pages"] /\ slots["page_table"] = env.slots["page_table"]
  <2>1. DOMAIN env.slots = Declared(ChatProgram)
    BY <1>2 DEF Owns
  <2>2. /\ slots["position_offset"] = v
        /\ slots["pages"] = env.slots["pages"] /\ slots["page_table"] = env.slots["page_table"]
    BY <1>9, <1>s, <2>1, ChatDeclared DEF Update
  <2> QED
    BY <1>7, <2>2
<1>11. ChatData(slots, done \o batch, <<>>)
  BY <1>2, <1>10, KeepBatch
<1>12. Stage(frames') = 6
  BY <1>2, <1>3, <1>9, StageAdvanced
<1>13. history' = [done |-> done \o batch, batch |-> <<>>]
  BY <1>b DEF AdvancePosition
<1>14. DOMAIN history' = {"done", "batch"} /\ history'.done = done \o batch /\ history'.batch = <<>>
  BY <1>13
<1>15. ChatPhase(frames', env', done \o batch, <<>>)
  BY <1>12, BetweenBatches
<1> QED
  BY <1>2, <1>9, <1>11, <1>14, <1>15, <1>s

\* The other operations are not in the program.
LEMMA ChatHasNoOther ==
  ASSUME RunInv, ChatInv, Vector \/ SchedulerDelta \/ Axpy \/ UpdateState \/ CallGraph
  PROVE  ChatInv'
<1>1. /\ InBody /\ session' = session
      /\ Current.op \in {"vector", "scheduler_delta", "axpy", "update", "call_graph"}
  BY DEF Vector, SchedulerDelta, Axpy, UpdateState, CallGraph, At, Silent
<1> SUFFICES ASSUME session.program = ChatProgram
    PROVE  FALSE
  BY <1>1 DEF ChatInv
<1>2. /\ Nested(ChatProgram, frames) /\ Last(frames).pc <= Len(Last(frames).body)
      /\ Current = Last(frames).body[Last(frames).pc]
  BY <1>1, ChatDue
<1>3. Current.op \in LoopOps \cup {"read_line", "encode", "paged_plan", "call_model", "sample",
                                   "emit_token", "advance_position"}
  BY <1>2, StageOps
<1> QED
  BY <1>1, <1>3 DEF LoopOps

LEMMA ChatStepHolds ==
  ASSUME RunInv, ChatInv, [Next]_vars
  PROVE  ChatInv'
<1>1. CASE StartRun
  BY <1>1, ChatStarts
<1>2. CASE FinishRun
  <2>1. EndRun("done", env) /\ session' = session /\ history' = history
    BY <1>2 DEF FinishRun, Silent
  <2> QED
    BY <2>1, ChatEnds
<1>3. CASE StepFails
  <2>1. EndRun("failed", env) /\ session' = session /\ history' = history
    BY <1>3 DEF StepFails, Silent
  <2> QED
    BY <2>1, ChatEnds
<1>4. CASE EnterLoop
  BY <1>4, ChatEntersLoop
<1>5. CASE EndCountedIteration \/ EndEachIteration \/ EndUntilEOFIteration
  BY <1>5, ChatEndsBody
<1>6. CASE ReadLine
  BY <1>6, ChatReadsLine
<1>7. CASE ReadEOF
  BY <1>7, ChatReadsEOF
<1>8. CASE Encode
  BY <1>8, ChatEncodes
<1>9. CASE Emit
  BY <1>9, ChatEmits
<1>10. CASE Sample
  BY <1>10, ChatSamples
<1>11. CASE Vector \/ SchedulerDelta \/ Axpy \/ UpdateState \/ CallGraph
  BY <1>11, ChatHasNoOther
<1>12. CASE PagedPlan
  BY <1>12, ChatPlans
<1>13. CASE CallModel
  BY <1>13, ChatCalls
<1>14. CASE CallModelFails
  BY <1>14, ChatCallFails
<1>15. CASE AdvancePosition
  BY <1>15, ChatAdvances
<1>16. CASE UNCHANGED vars
  BY <1>16 DEF ChatInv, vars
<1> QED
  BY <1>1, <1>2, <1>3, <1>4, <1>5, <1>6, <1>7, <1>8, <1>9, <1>10, <1>11, <1>12, <1>13, <1>14,
     <1>15, <1>16 DEF Next

\* A diffusion program has no cache.
LEMMA DiffusionDeclared ==
  Declared(DiffusionProgram) = {"step_index", "latents", "sigmas", "timesteps", "text_embedding"}
<1>1. DiffusionProgram.state
        = << <<"step_index", "counter">>, <<"latents", "tensor">>, <<"sigmas", "tensor">>,
             <<"timesteps", "tensor">>, <<"text_embedding", "tensor">> >>
  BY DEF DiffusionProgram
<1>2. ToSet(<< <<"step_index", "counter">>, <<"latents", "tensor">>, <<"sigmas", "tensor">>,
               <<"timesteps", "tensor">>, <<"text_embedding", "tensor">> >>)
        = { <<"step_index", "counter">>, <<"latents", "tensor">>, <<"sigmas", "tensor">>,
            <<"timesteps", "tensor">>, <<"text_embedding", "tensor">> }
  BY DEF ToSet
<1>3. ToSet(DiffusionProgram.state)
        = { <<"step_index", "counter">>, <<"latents", "tensor">>, <<"sigmas", "tensor">>,
            <<"timesteps", "tensor">>, <<"text_embedding", "tensor">> }
  BY <1>1, <1>2, Zenon
<1> QED
  BY <1>3 DEF Declared

\* Of the shipped programs (pagedKVCache and the paged operations of the executor):
\* after any number of turns, also when calls or runs failed between a write to the cache
\* and the advance of the position, the model reads through the page table exactly the
\* tokens the position counts, followed by the batch of the call.
THEOREM ConversationIsCached ==
  ASSUME Programs \subseteq {ChatProgram, DiffusionProgram}
  PROVE  Spec => []CallsSeeTheConversation
<1>1. Init => RunInv /\ ChatInv
  BY SessionBegins, ChatBegins
<1>2. RunInv /\ ChatInv /\ [Next]_vars => (RunInv /\ ChatInv)'
  BY StepHolds, ChatStepHolds
<1>3. RunInv /\ ChatInv => CallsSeeTheConversation
  <2> SUFFICES ASSUME RunInv, ChatInv
      PROVE  CallsSeeTheConversation
    OBVIOUS
  <2>1. CASE session.program = ChatProgram
    BY <2>1, ReadThroughTable DEF ChatInv
  <2>2. CASE session.program = DiffusionProgram
    <3>1. DOMAIN env.slots = {"step_index", "latents", "sigmas", "timesteps", "text_embedding"}
      BY <2>2, DiffusionDeclared DEF RunInv, Owns
    <3> QED
      BY <3>1 DEF CallsSeeTheConversation
  <2> QED
    BY <2>1, <2>2 DEF RunInv
<1> QED
  BY <1>1, <1>2, <1>3, PTL DEF Spec
------------------------------------------------------------------------------
(* Where a run of the diffusion program stands.                              *)

\* Up to the loop; the loop fills a vector from another, or from its argument.
LEMMA PreparingSteps ==
  ASSUME NEW s, s = DiffusionProgram.steps
  PROVE  /\ Len(s) = 13
         /\ s[1].op = "read_line" /\ s[1].out = <<"user_prompt">>
         /\ s[2].op = "encode" /\ s[2].out = <<"text_ids">>
         /\ s[3].op = "call_graph" /\ s[3].out = <<"text_embedding">>
         /\ s[4].op = "vector" /\ s[4].in = <<>> /\ s[4].out = <<"latents">> /\ s[4].arg = <<>>
         /\ s[5].op = "vector" /\ s[5].in = <<>> /\ s[5].out = <<"raw_sigmas">>
         /\ s[5].arg = InferenceSteps
         /\ s[6].op = "vector" /\ s[6].out = <<"shift_mu">>
         /\ s[7].op = "vector" /\ s[7].in = <<"raw_sigmas", "shift_mu">> /\ s[7].out = <<"sigmas">>
         /\ s[8].op = "vector" /\ s[8].in = <<"sigmas">>
         /\ s[8].out = <<"timesteps", "timesteps_list">>
         /\ s[9].op = "vector" /\ s[9].out = <<"guidance_scale">>
         /\ s[10].op = "vector" /\ s[10].out = <<"guidance_timestep">>
         /\ s[11].op = "loop_each" /\ s[11].in = <<"timesteps_list">>
         /\ s[11].out = <<"timestep">> /\ s[11].body = DenoisingStep
         /\ s[12].op = "call_graph" /\ s[12].out = <<"decoded_image">>
         /\ s[13].op = "write_image"
<1>s1. PICK s1 : s1 = Step("read_line", <<>>, <<"user_prompt">>, 0)
  OBVIOUS
<1>s2. PICK s2 : s2 = Step("encode", <<"user_prompt">>, <<"text_ids">>, "no append_to")
  OBVIOUS
<1>s3. PICK s3 : s3 = Step("call_graph", <<"text_ids">>, <<"text_embedding">>, 0)
  OBVIOUS
<1>s4. PICK s4 : s4 = Step("vector", <<>>, <<"latents">>, <<>>)
  OBVIOUS
<1>s5. PICK s5 : s5 = Step("vector", <<>>, <<"raw_sigmas">>, InferenceSteps)
  OBVIOUS
<1>s6. PICK s6 : s6 = Step("vector", <<>>, <<"shift_mu">>, 1)
  OBVIOUS
<1>s7. PICK s7 : s7 = Step("vector", <<"raw_sigmas", "shift_mu">>, <<"sigmas">>, 0)
  OBVIOUS
<1>s8. PICK s8 : s8 = Step("vector", <<"sigmas">>, <<"timesteps", "timesteps_list">>, 0)
  OBVIOUS
<1>s9. PICK s9 : s9 = Step("vector", <<>>, <<"guidance_scale">>, 1)
  OBVIOUS
<1>s10. PICK s10 : s10 = Step("vector", <<"guidance_scale">>, <<"guidance_timestep">>, 0)
  OBVIOUS
<1>s11. PICK s11 : s11 = Loop("loop_each", <<"timesteps_list">>, <<"timestep">>, 0, DenoisingStep)
  OBVIOUS
<1>s12. PICK s12 : s12 = Step("call_graph", <<"latents">>, <<"decoded_image">>, 0)
  OBVIOUS
<1>s13. PICK s13 : s13 = Step("write_image", <<"decoded_image">>, <<>>, 0)
  OBVIOUS
<1>1. s = <<s1, s2, s3, s4, s5, s6, s7, s8, s9, s10, s11, s12, s13>>
  BY <1>s1, <1>s2, <1>s3, <1>s4, <1>s5, <1>s6, <1>s7, <1>s8, <1>s9, <1>s10, <1>s11, <1>s12,
     <1>s13 DEF DiffusionProgram
<1>2. /\ Len(s) = 13
      /\ s[1] = s1 /\ s[2] = s2 /\ s[3] = s3 /\ s[4] = s4 /\ s[5] = s5 /\ s[6] = s6
      /\ s[7] = s7 /\ s[8] = s8 /\ s[9] = s9 /\ s[10] = s10 /\ s[11] = s11 /\ s[12] = s12
      /\ s[13] = s13
  BY <1>1
<1>3. /\ s1.op = "read_line" /\ s1.out = <<"user_prompt">>
      /\ s2.op = "encode" /\ s2.out = <<"text_ids">>
      /\ s3.op = "call_graph" /\ s3.out = <<"text_embedding">>
  BY <1>s1, <1>s2, <1>s3 DEF Step, Loop
<1>4. /\ s4.op = "vector" /\ s4.in = <<>> /\ s4.out = <<"latents">> /\ s4.arg = <<>>
      /\ s5.op = "vector" /\ s5.in = <<>> /\ s5.out = <<"raw_sigmas">> /\ s5.arg = InferenceSteps
  BY <1>s4, <1>s5 DEF Step, Loop
<1>5. /\ s6.op = "vector" /\ s6.out = <<"shift_mu">>
      /\ s7.op = "vector" /\ s7.in = <<"raw_sigmas", "shift_mu">> /\ s7.out = <<"sigmas">>
  BY <1>s6, <1>s7 DEF Step, Loop
<1>6. /\ s8.op = "vector" /\ s8.in = <<"sigmas">> /\ s8.out = <<"timesteps", "timesteps_list">>
  BY <1>s8 DEF Step, Loop
<1>7. /\ s9.op = "vector" /\ s9.out = <<"guidance_scale">>
      /\ s10.op = "vector" /\ s10.out = <<"guidance_timestep">>
  BY <1>s9, <1>s10 DEF Step, Loop
<1>8. /\ s11.op = "loop_each" /\ s11.in = <<"timesteps_list">>
      /\ s11.out = <<"timestep">> /\ s11.body = DenoisingStep
  BY <1>s11 DEF Step, Loop
<1>9. /\ s12.op = "call_graph" /\ s12.out = <<"decoded_image">>
      /\ s13.op = "write_image"
  BY <1>s12, <1>s13 DEF Step, Loop
<1>10. /\ s[1].op = "read_line" /\ s[1].out = <<"user_prompt">>
       /\ s[2].op = "encode" /\ s[2].out = <<"text_ids">>
       /\ s[3].op = "call_graph" /\ s[3].out = <<"text_embedding">>
  BY <1>2, <1>3
<1>11. /\ s[4].op = "vector" /\ s[4].in = <<>> /\ s[4].out = <<"latents">> /\ s[4].arg = <<>>
       /\ s[5].op = "vector" /\ s[5].in = <<>> /\ s[5].out = <<"raw_sigmas">>
       /\ s[5].arg = InferenceSteps
  BY <1>2, <1>4
<1>12. /\ s[6].op = "vector" /\ s[6].out = <<"shift_mu">>
       /\ s[7].op = "vector" /\ s[7].in = <<"raw_sigmas", "shift_mu">> /\ s[7].out = <<"sigmas">>
  BY <1>2, <1>5
<1>13. /\ s[8].op = "vector" /\ s[8].in = <<"sigmas">>
       /\ s[8].out = <<"timesteps", "timesteps_list">>
       /\ s[9].op = "vector" /\ s[9].out = <<"guidance_scale">>
       /\ s[10].op = "vector" /\ s[10].out = <<"guidance_timestep">>
  BY <1>2, <1>6, <1>7
<1>14. /\ s[11].op = "loop_each" /\ s[11].in = <<"timesteps_list">>
       /\ s[11].out = <<"timestep">> /\ s[11].body = DenoisingStep
       /\ s[12].op = "call_graph" /\ s[12].out = <<"decoded_image">>
       /\ s[13].op = "write_image"
  BY <1>2, <1>8, <1>9
<1> QED
  BY <1>2, <1>10, <1>11, <1>12, <1>13, <1>14

LEMMA DenoisingSteps ==
  /\ Len(DenoisingStep) = 4
  /\ DenoisingStep[1].op = "call_graph" /\ DenoisingStep[1].out = <<"noise_pred">>
  /\ DenoisingStep[2].op = "scheduler_delta" /\ DenoisingStep[2].out = <<"sigma_delta">>
  /\ DenoisingStep[2].in = <<"sigmas", "step_index">>
  /\ DenoisingStep[3].op = "axpy" /\ DenoisingStep[3].out = <<"latents">>
  /\ DenoisingStep[3].in = <<"latents", "noise_pred", "sigma_delta">>
  /\ DenoisingStep[4].op = "update" /\ DenoisingStep[4].out = <<"step_index">>
<1>s. PICK s : s = DenoisingStep
  OBVIOUS
<1>1. s = <<
        Step("call_graph", <<"latents", "text_embedding", "timestep", "guidance_timestep">>,
             <<"noise_pred">>, 0),
        Step("scheduler_delta", <<"sigmas", "step_index">>, <<"sigma_delta">>, 0),
        Step("axpy", <<"latents", "noise_pred", "sigma_delta">>, <<"latents">>, 0),
        Step("update", <<>>, <<"step_index">>, 0)>>
  BY <1>s DEF DenoisingStep
<1>2. /\ Len(s) = 4
      /\ s[1] = Step("call_graph", <<"latents", "text_embedding", "timestep", "guidance_timestep">>,
                     <<"noise_pred">>, 0)
      /\ s[2] = Step("scheduler_delta", <<"sigmas", "step_index">>, <<"sigma_delta">>, 0)
      /\ s[3] = Step("axpy", <<"latents", "noise_pred", "sigma_delta">>, <<"latents">>, 0)
      /\ s[4] = Step("update", <<>>, <<"step_index">>, 0)
  BY <1>1
<1>3. /\ s[1].op = "call_graph" /\ s[1].out = <<"noise_pred">>
      /\ s[2].op = "scheduler_delta" /\ s[2].out = <<"sigma_delta">>
      /\ s[2].in = <<"sigmas", "step_index">>
  BY <1>2 DEF Step
<1>4. /\ s[3].op = "axpy" /\ s[3].out = <<"latents">>
      /\ s[3].in = <<"latents", "noise_pred", "sigma_delta">>
      /\ s[4].op = "update" /\ s[4].out = <<"step_index">>
  BY <1>2 DEF Step
<1> QED
  BY <1>2, <1>3, <1>4, <1>s

\* The steps are numbered from 1, those of the loop from 21.
Place(stack) == IF Len(stack) = 1 THEN Last(stack).pc ELSE 20 + Last(stack).pc

LEMMA DiffusionStack ==
  ASSUME NEW stack, Nested(DiffusionProgram, stack)
  PROVE  /\ Len(stack) \in 1..2
         /\ stack[1].body = DiffusionProgram.steps /\ stack[1].kind = "main"
         /\ Len(stack) = 1 => /\ Last(stack).kind = "main" /\ Last(stack).pc \in 1..14
                              /\ Last(stack).body = DiffusionProgram.steps
         /\ Len(stack) = 2 => /\ Last(stack).kind = "loop_each" /\ Last(stack).pc \in 1..5
                              /\ Last(stack).body = DenoisingStep /\ stack[1].pc = 11
<1>n. PICK n, steps : n = Len(stack) /\ steps = DiffusionProgram.steps
  OBVIOUS
<1>1. n \in Nat /\ n >= 1
  BY <1>n, SequenceFacts DEF Nested
<1>2. \A i \in 1..n : stack[i].pc \in 1..(Len(stack[i].body) + 1)
  BY <1>n DEF Nested, IsFrame
<1>3. stack[1].body = steps /\ stack[1].kind = "main" /\ stack[1].pc \in 1..14
  <2>1. stack[1].body = steps /\ stack[1].kind = "main"
    BY <1>n DEF Nested
  <2>2. 1 \in 1..n
    BY <1>1
  <2>3. Len(steps) = 13
    BY <1>n, PreparingSteps
  <2>4. stack[1].pc \in 1..(13 + 1)
    BY <1>2, <2>1, <2>2, <2>3
  <2> QED
    BY <2>1, <2>4
<1>4. ASSUME n > 1
      PROVE  /\ stack[1].pc = 11 /\ stack[2].kind = "loop_each"
             /\ stack[2].body = DenoisingStep /\ stack[2].pc \in 1..5
  <2>1. 1 \in 1..(n - 1) /\ 2 \in 1..n /\ 1 + 1 = 2
    BY <1>1, <1>4
  <2>2. Encloses(stack[1], stack[2])
    BY <1>n, <2>1 DEF Nested
  <2>p. PICK pc : pc = stack[1].pc
    OBVIOUS
  <2>3. pc \in 1..13 /\ steps[pc].op \in LoopOps
    <3>1. Len(steps) = 13
      BY <1>n, PreparingSteps
    <3>2. pc <= Len(steps) /\ steps[pc].op \in LoopOps
      BY <1>3, <2>2, <2>p DEF Encloses
    <3> QED
      BY <1>3, <2>p, <3>1, <3>2
  <2>4. pc = 11
    <3>1. \/ pc = 1 \/ pc = 2 \/ pc = 3 \/ pc = 4 \/ pc = 5 \/ pc = 6 \/ pc = 7
          \/ pc = 8 \/ pc = 9 \/ pc = 10 \/ pc = 11 \/ pc = 12 \/ pc = 13
      BY <2>3
    <3> QED
      BY <1>n, <2>3, <3>1, PreparingSteps DEF LoopOps
  <2>5. stack[2].kind = "loop_each" /\ stack[2].body = DenoisingStep
    <3>1. stack[2].kind = steps[11].op /\ stack[2].body = steps[11].body
      BY <1>3, <2>2, <2>4, <2>p DEF Encloses
    <3>2. steps[11].op = "loop_each" /\ steps[11].body = DenoisingStep
      BY <1>n, PreparingSteps
    <3> QED
      BY <3>1, <3>2
  <2>6. stack[2].pc \in 1..(4 + 1)
    BY <1>2, <2>1, <2>5, DenoisingSteps
  <2> QED
    BY <2>4, <2>5, <2>6, <2>p
<1>5. n <= 2
  <2> SUFFICES ASSUME n > 2 PROVE FALSE
    BY <1>1
  <2>1. 2 \in 1..(n - 1) /\ n > 1
    BY <1>1
  <2>2. Encloses(stack[2], stack[2 + 1])
    BY <1>n, <2>1 DEF Nested
  <2>p. PICK pc : pc = stack[2].pc
    OBVIOUS
  <2>3. pc \in 1..4 /\ DenoisingStep[pc].op \in LoopOps
    <3>1. pc <= Len(DenoisingStep) /\ DenoisingStep[pc].op \in LoopOps
      BY <1>4, <2>1, <2>2, <2>p DEF Encloses
    <3> QED
      BY <1>4, <2>1, <2>p, <3>1, DenoisingSteps
  <2>4. pc = 1 \/ pc = 2 \/ pc = 3 \/ pc = 4
    BY <2>3
  <2> QED
    BY <2>3, <2>4, DenoisingSteps DEF LoopOps
<1>6. n \in 1..2
  BY <1>1, <1>5
<1>7. Last(stack) = stack[n]
  BY <1>n DEF Last
<1> QED
  BY <1>3, <1>4, <1>6, <1>7, <1>n

LEMMA PlaceStep ==
  ASSUME NEW stack, Nested(DiffusionProgram, stack), Last(stack).pc <= Len(Last(stack).body),
         NEW step, step = Last(stack).body[Last(stack).pc], NEW p, p = Place(stack)
  PROVE  \/ p \in 1..13 /\ step = DiffusionProgram.steps[p] /\ Len(stack) = 1
         \/ p \in 21..24 /\ step = DenoisingStep[p - 20] /\ Len(stack) = 2
<1>c. PICK pc : pc = Last(stack).pc
  OBVIOUS
<1>1. /\ Len(stack) = 1 \/ Len(stack) = 2
      /\ Len(stack) = 1 => pc \in 1..14 /\ Last(stack).body = DiffusionProgram.steps
      /\ Len(stack) = 2 => pc \in 1..5 /\ Last(stack).body = DenoisingStep
  <2>1. /\ Len(stack) \in 1..2
        /\ Len(stack) = 1 => pc \in 1..14 /\ Last(stack).body = DiffusionProgram.steps
        /\ Len(stack) = 2 => pc \in 1..5 /\ Last(stack).body = DenoisingStep
    BY <1>c, DiffusionStack
  <2> QED
    BY <2>1
<1>2. CASE Len(stack) = 1
  <2>1. Len(DiffusionProgram.steps) = 13
    BY PreparingSteps
  <2>2. pc \in 1..13 /\ p = pc /\ step = DiffusionProgram.steps[pc]
    BY <1>1, <1>2, <1>c, <2>1 DEF Place
  <2> QED
    BY <1>2, <2>2
<1>3. CASE Len(stack) = 2
  <2>1. pc \in 1..4 /\ p = 20 + pc /\ step = DenoisingStep[pc]
    BY <1>1, <1>3, <1>c, DenoisingSteps DEF Place
  <2>2. p \in 21..24 /\ p - 20 = pc
    BY <2>1
  <2> QED
    BY <1>3, <2>1, <2>2
<1> QED
  BY <1>1, <1>2, <1>3

\* What a vector step fills.
VectorAt(p, step) ==
  \/ p = 4 /\ step.in = <<>> /\ step.out = <<"latents">> /\ step.arg = <<>>
  \/ p = 5 /\ step.in = <<>> /\ step.out = <<"raw_sigmas">> /\ step.arg = InferenceSteps
  \/ p = 6 /\ step.out = <<"shift_mu">>
  \/ p = 7 /\ step.in = <<"raw_sigmas", "shift_mu">> /\ step.out = <<"sigmas">>
  \/ p = 8 /\ step.in = <<"sigmas">> /\ step.out = <<"timesteps", "timesteps_list">>
  \/ p = 9 /\ step.out = <<"guidance_scale">>
  \/ p = 10 /\ step.out = <<"guidance_timestep">>

GraphAt(p, step) ==
  \/ p = 3 /\ step.out = <<"text_embedding">>
  \/ p = 12 /\ step.out = <<"decoded_image">>
  \/ p = 21 /\ step.out = <<"noise_pred">>

\* What the step at a place does.
OpAt(p, step) ==
  /\ step.op = "read_line" => p = 1 /\ step.out = <<"user_prompt">>
  /\ step.op = "encode" => p = 2 /\ step.out = <<"text_ids">>
  /\ step.op = "call_graph" => GraphAt(p, step)
  /\ step.op = "vector" => VectorAt(p, step)
  /\ step.op = "loop_each" => /\ p = 11 /\ step.in = <<"timesteps_list">>
                              /\ step.out = <<"timestep">>
  /\ step.op = "write_image" => p = 13
  /\ step.op = "scheduler_delta" => /\ p = 22 /\ step.in = <<"sigmas", "step_index">>
                                    /\ step.out = <<"sigma_delta">>
  /\ step.op = "axpy" => /\ p = 23 /\ step.in = <<"latents", "noise_pred", "sigma_delta">>
                         /\ step.out = <<"latents">>
  /\ step.op = "update" => p = 24 /\ step.out = <<"step_index">>
  /\ step.op \in {"read_line", "encode", "call_graph", "vector", "loop_each", "write_image",
                  "scheduler_delta", "axpy", "update"}

LEMMA PlaceOps ==
  ASSUME NEW stack, Nested(DiffusionProgram, stack), Last(stack).pc <= Len(Last(stack).body),
         NEW step, step = Last(stack).body[Last(stack).pc], NEW p, p = Place(stack)
  PROVE  OpAt(p, step)
<1>s. PICK s : s = DiffusionProgram.steps
  OBVIOUS
<1>1. CASE p \in 1..13 /\ step = s[p]
  <2>1. CASE p = 1 \/ p = 2 \/ p = 3
    BY <1>1, <1>s, <2>1, PreparingSteps DEF OpAt, GraphAt
  <2>2. CASE p = 4 \/ p = 5 \/ p = 6
    BY <1>1, <1>s, <2>2, PreparingSteps DEF OpAt, VectorAt
  <2>3. CASE p = 7 \/ p = 8
    BY <1>1, <1>s, <2>3, PreparingSteps DEF OpAt, VectorAt
  <2>4. CASE p = 9 \/ p = 10
    BY <1>1, <1>s, <2>4, PreparingSteps DEF OpAt, VectorAt
  <2>5. CASE p = 11 \/ p = 12 \/ p = 13
    BY <1>1, <1>s, <2>5, PreparingSteps DEF OpAt, GraphAt
  <2> QED
    BY <1>1, <2>1, <2>2, <2>3, <2>4, <2>5
<1>2. CASE p \in 21..24 /\ step = DenoisingStep[p - 20]
  <2>q. PICK q : q = p - 20
    OBVIOUS
  <2>1. (q = 1 \/ q = 2 \/ q = 3 \/ q = 4) /\ p = q + 20 /\ step = DenoisingStep[q]
    BY <1>2, <2>q
  <2> QED
    BY <2>1, DenoisingSteps DEF OpAt, GraphAt
<1>3. \/ p \in 1..13 /\ step = s[p]
      \/ p \in 21..24 /\ step = DenoisingStep[p - 20]
  BY <1>s, PlaceStep
<1> QED
  BY <1>1, <1>2, <1>3

LEMMA PlaceMoves ==
  ASSUME NEW stack, Nested(DiffusionProgram, stack)
  PROVE  /\ Last(stack).pc <= Len(Last(stack).body) =>
              /\ Place(Advanced(stack)) = Place(stack) + 1 /\ Place(stack) \in 1..24
              /\ Last(Advanced(stack)).left = Last(stack).left
         /\ Last(stack).pc > Len(Last(stack).body) =>
              IF Last(stack).kind = "main" THEN Place(stack) = 14
              ELSE Place(stack) = 25 /\ Last(stack).kind = "loop_each"
         /\ Last(stack).kind # "main" => Place(Popped(stack)) = 12
         /\ Last(stack).kind # "main" =>
              \A left, before : /\ Place(Again(stack, left, before)) = 21
                                /\ Last(Again(stack, left, before)).left = left
         /\ \A step, left, before :
              (/\ Last(stack).pc <= Len(Last(stack).body)
               /\ step = Last(stack).body[Last(stack).pc] /\ step.op \in LoopOps)
                => /\ Place(Append(stack, Frame(step.op, step.body, left, before))) = 21
                   /\ Last(Append(stack, Frame(step.op, step.body, left, before))).left = left
<1>c. PICK n, pc : n = Len(stack) /\ pc = Last(stack).pc
  OBVIOUS
<1>1. /\ n = 1 \/ n = 2
      /\ n = 1 => /\ Last(stack).kind = "main" /\ pc \in 1..14
                  /\ Len(Last(stack).body) = 13
      /\ n = 2 => /\ Last(stack).kind = "loop_each" /\ pc \in 1..5
                  /\ Len(Last(stack).body) = 4 /\ stack[1].pc = 11
  <2>1. /\ n \in 1..2
        /\ n = 1 => /\ Last(stack).kind = "main" /\ pc \in 1..14
                    /\ Last(stack).body = DiffusionProgram.steps
        /\ n = 2 => /\ Last(stack).kind = "loop_each" /\ pc \in 1..5
                    /\ Last(stack).body = DenoisingStep /\ stack[1].pc = 11
    BY <1>c, DiffusionStack
  <2>2. Len(DiffusionProgram.steps) = 13 /\ Len(DenoisingStep) = 4
    BY PreparingSteps, DenoisingSteps
  <2> QED
    BY <2>1, <2>2
<1>2. Place(stack) = IF n = 1 THEN pc ELSE 20 + pc
  BY <1>c DEF Place
<1>3. ASSUME pc <= Len(Last(stack).body)
      PROVE  /\ Place(Advanced(stack)) = Place(stack) + 1 /\ Place(stack) \in 1..24
             /\ Last(Advanced(stack)).left = Last(stack).left
  <2>n. PICK new : new = Advanced(stack)
    OBVIOUS
  <2>1. Len(new) = n /\ Last(new).pc = pc + 1 /\ Last(new).left = Last(stack).left
    BY <1>3, <1>c, <2>n, AdvancedTop
  <2>2. Place(new) = IF n = 1 THEN pc + 1 ELSE 20 + (pc + 1)
    BY <2>1 DEF Place
  <2>l. PICK l, here, there : l = Len(Last(stack).body) /\ here = Place(stack) /\ there = Place(new)
    OBVIOUS
  <2>3. /\ n = 1 \/ n = 2
        /\ n = 1 => pc \in 1..14 /\ l = 13 /\ here = pc /\ there = pc + 1
        /\ n = 2 => pc \in 1..5 /\ l = 4 /\ here = 20 + pc /\ there = 20 + (pc + 1)
        /\ pc <= l
    BY <1>1, <1>2, <1>3, <2>2, <2>l
  <2>4. there = here + 1 /\ here \in 1..24
    BY <2>3
  <2> QED
    BY <2>1, <2>4, <2>l, <2>n
<1>4. ASSUME pc > Len(Last(stack).body)
      PROVE  IF Last(stack).kind = "main" THEN Place(stack) = 14
             ELSE Place(stack) = 25 /\ Last(stack).kind = "loop_each"
  <2>l. PICK l, here, kind : /\ l = Len(Last(stack).body) /\ here = Place(stack)
                             /\ kind = Last(stack).kind
    OBVIOUS
  <2>1. /\ n = 1 \/ n = 2
        /\ n = 1 => pc \in 1..14 /\ l = 13 /\ here = pc /\ kind = "main"
        /\ n = 2 => pc \in 1..5 /\ l = 4 /\ here = 20 + pc /\ kind = "loop_each"
        /\ pc > l
    BY <1>1, <1>2, <1>4, <2>l
  <2>2. IF kind = "main" THEN here = 14 ELSE here = 25 /\ kind = "loop_each"
    BY <2>1
  <2> QED
    BY <2>2, <2>l
<1>5. ASSUME Last(stack).kind # "main"
      PROVE  n = 2 /\ Place(Popped(stack)) = 12
  <2>n. PICK new : new = Popped(stack)
    OBVIOUS
  <2>1. n = 2
    BY <1>1, <1>5
  <2>2. n - 1 = 1
    BY <2>1
  <2>3. Len(new) = n - 1 /\ Last(new).pc = stack[n - 1].pc + 1
    <3>1. Last(stack).kind # "main" /\ new = Popped(stack)
      BY <1>5, <2>n
    <3>2. Len(new) = Len(stack) - 1 /\ Last(new).pc = stack[Len(stack) - 1].pc + 1
      BY <3>1, PoppedTop
    <3> QED
      BY <1>c, <3>2
  <2>4. Len(new) = 1 /\ Last(new).pc = 11 + 1
    BY <1>1, <2>1, <2>2, <2>3
  <2> QED
    BY <2>1, <2>4, <2>n DEF Place
<1>6. ASSUME Last(stack).kind # "main", NEW left, NEW before
      PROVE  /\ Place(Again(stack, left, before)) = 21
             /\ Last(Again(stack, left, before)).left = left
  <2>n. PICK new : new = Again(stack, left, before)
    OBVIOUS
  <2>1. Len(new) = n /\ Last(new).pc = 1 /\ Last(new).left = left
    BY <1>c, <2>n, AgainStack DEF Frame
  <2>2. n = 2
    BY <1>5, <1>6
  <2> QED
    BY <2>1, <2>2, <2>n DEF Place
<1>7. ASSUME NEW step, NEW left, NEW before, pc <= Len(Last(stack).body),
             step = Last(stack).body[pc], step.op \in LoopOps
      PROVE  /\ Place(Append(stack, Frame(step.op, step.body, left, before))) = 21
             /\ Last(Append(stack, Frame(step.op, step.body, left, before))).left = left
  <2>n. PICK new : new = Append(stack, Frame(step.op, step.body, left, before))
    OBVIOUS
  <2>1. Len(new) = n + 1 /\ Last(new).pc = 1 /\ Last(new).left = left
    <3>1. stack \in Seq(ToSet(stack))
      BY DEF Nested
    <3>2. Len(new) = n + 1 /\ new[n + 1] = Frame(step.op, step.body, left, before)
      BY <1>c, <2>n, <3>1, SequenceFacts
    <3> QED
      BY <3>2 DEF Last, Frame
  <2>2. n = 1
    <3> SUFFICES ASSUME n = 2 PROVE FALSE
      BY <1>1
    <3>p. PICK p : p = Place(stack)
      OBVIOUS
    <3>1. step.op \in {"until_eof", "loop_count", "loop_each"}
      BY <1>7 DEF LoopOps
    <3>2. step.op = "loop_each" /\ p = 11
      <4>1. OpAt(p, step)
        BY <1>7, <1>c, <3>p, PlaceOps
      <4> QED
        BY <3>1, <4>1 DEF OpAt
    <3> QED
      BY <1>1, <1>2, <3>2, <3>p
  <2> QED
    BY <2>1, <2>2, <2>n DEF Place
<1>8. \A step, left, before :
        (/\ Last(stack).pc <= Len(Last(stack).body)
         /\ step = Last(stack).body[Last(stack).pc] /\ step.op \in LoopOps)
          => /\ Place(Append(stack, Frame(step.op, step.body, left, before))) = 21
             /\ Last(Append(stack, Frame(step.op, step.body, left, before))).left = left
  BY <1>7, <1>c
<1>9. Last(stack).pc <= Len(Last(stack).body) =>
        /\ Place(Advanced(stack)) = Place(stack) + 1 /\ Place(stack) \in 1..24
        /\ Last(Advanced(stack)).left = Last(stack).left
  BY <1>3, <1>c
<1>10. Last(stack).pc > Len(Last(stack).body) =>
         IF Last(stack).kind = "main" THEN Place(stack) = 14
         ELSE Place(stack) = 25 /\ Last(stack).kind = "loop_each"
  BY <1>4, <1>c
<1> QED
  BY <1>5, <1>6, <1>8, <1>9, <1>10

------------------------------------------------------------------------------
(* The latents of a diffusion run.                                           *)

\* The n deltas that end with the one at the step counter s.
Deltas(n, s) == [i \in 1..n |-> s - n + i]

Holds(values, name, data) == name \in DOMAIN values /\ values[name].data = data

\* After n iterations of the loop, at a place in the next.
Denoised(p, n, s, latents) ==
  /\ p \in 21..23 => latents = Deltas(n, s) /\ n <= s
  /\ p = 23 => s < InferenceSteps
  /\ p = 24 => latents = Deltas(n + 1, s + 1) /\ n <= s /\ s < InferenceSteps
  /\ p = 25 => latents = Deltas(n + 1, s) /\ n + 1 <= s

DiffusionPhase(p, left, e) ==
  /\ p \in 5..11 => e.slots["latents"].data = <<>>
  /\ p \in 6..7 => Holds(e.values, "raw_sigmas", InferenceSteps)
  /\ p \in (8..11) \cup (21..25) => e.slots["sigmas"].data = InferenceSteps
  /\ p \in 9..11 => Holds(e.values, "timesteps_list", InferenceSteps)
  /\ p \in 12..14 => e.slots["latents"].data = Deltas(InferenceSteps, InferenceSteps)
  /\ p = 23 => Holds(e.values, "sigma_delta", e.slots["step_index"].data + 1)
  /\ p \in 21..25 => /\ left \in 1..InferenceSteps
                     /\ Denoised(p, InferenceSteps - left, e.slots["step_index"].data,
                                 e.slots["latents"].data)

DiffusionInv ==
  session.program = DiffusionProgram =>
    /\ env.slots["step_index"].data \in 0..InferenceSteps
    /\ status = "running" => DiffusionPhase(Place(frames), Last(frames).left, env)
    /\ status = "done" =>
         env.slots["latents"].data = Deltas(InferenceSteps, InferenceSteps)

\* What the phases are about is as it was.
Undisturbed(e, new) ==
  /\ \A n \in {"latents", "sigmas", "step_index"} : new.slots[n] = e.slots[n]
  /\ \A n \in {"raw_sigmas", "timesteps_list", "sigma_delta"} :
       n \in DOMAIN e.values => n \in DOMAIN new.values /\ new.values[n] = e.values[n]

LEMMA PhaseCarries ==
  ASSUME NEW p \in {1, 2, 3, 6, 9, 10, 12, 13, 21}, NEW left, NEW e, NEW new,
         DiffusionPhase(p, left, e), Undisturbed(e, new)
  PROVE  DiffusionPhase(p + 1, left, new)
<1>1. /\ new.slots["latents"] = e.slots["latents"] /\ new.slots["sigmas"] = e.slots["sigmas"]
      /\ new.slots["step_index"] = e.slots["step_index"]
  BY DEF Undisturbed
<1>2. \A data : \A n \in {"raw_sigmas", "timesteps_list"} :
        Holds(e.values, n, data) => Holds(new.values, n, data)
  BY DEF Undisturbed, Holds
<1>3. CASE p \in {1, 2, 3}
  BY <1>3 DEF DiffusionPhase
<1>4. CASE p = 6
  BY <1>1, <1>2, <1>4 DEF DiffusionPhase
<1>5. CASE p \in {9, 10}
  BY <1>1, <1>2, <1>5 DEF DiffusionPhase
<1>6. CASE p \in {12, 13}
  BY <1>1, <1>6 DEF DiffusionPhase
<1>7. CASE p = 21
  BY <1>1, <1>7 DEF DiffusionPhase, Denoised
<1> QED
  BY <1>3, <1>4, <1>5, <1>6, <1>7

\* What is stored under another name disturbs nothing.
LEMMA StoredAt ==
  ASSUME NEW e, Owns(DiffusionProgram, e), NEW name, NEW v, NEW new,
         Stored(DiffusionProgram, e, name, v, new)
  PROVE  /\ \A n \in Declared(DiffusionProgram) \ {name} : new.slots[n] = e.slots[n]
         /\ \A n \in DOMAIN e.values \ {name} : n \in DOMAIN new.values /\ new.values[n] = e.values[n]
         /\ name \in Declared(DiffusionProgram) => new.slots[name] = v
         /\ name \notin Declared(DiffusionProgram) => Holds(new.values, name, v.data)
         /\ name \notin {"latents", "sigmas", "step_index", "raw_sigmas", "timesteps_list",
                         "sigma_delta"} => Undisturbed(e, new)
<1>d. PICK D : D = Declared(DiffusionProgram)
  OBVIOUS
<1>1. DOMAIN e.slots = D /\ {"latents", "sigmas", "step_index"} \subseteq D
  BY <1>d, DiffusionDeclared DEF Owns
<1>2. CASE name \in D
  <2>1. new.values = e.values /\ new.slots = Update(e.slots, name, v)
    BY <1>2, <1>d DEF Stored
  <2>2. new.slots[name] = v /\ \A n \in D \ {name} : new.slots[n] = e.slots[n]
    BY <1>1, <1>2, <2>1 DEF Update
  <2> QED
    BY <1>1, <1>2, <1>d, <2>1, <2>2 DEF Undisturbed
<1>3. CASE name \notin D
  <2>1. new.slots = e.slots /\ new.values = Update(e.values, name, v)
    BY <1>3, <1>d DEF Stored
  <2>2. /\ Holds(new.values, name, v.data)
        /\ \A n \in DOMAIN e.values \ {name} : n \in DOMAIN new.values /\ new.values[n] = e.values[n]
    BY <2>1 DEF Update, Holds
  <2> QED
    BY <1>1, <1>3, <1>d, <2>1, <2>2 DEF Undisturbed
<1> QED
  BY <1>2, <1>3

LEMMA DiffusionDue ==
  ASSUME RunInv, DiffusionInv, InBody, session.program = DiffusionProgram
  PROVE  /\ Nested(DiffusionProgram, frames) /\ Owns(DiffusionProgram, env)
         /\ DiffusionProgram \in Programs
         /\ Last(frames).pc <= Len(Last(frames).body)
         /\ Current = Last(frames).body[Last(frames).pc]
         /\ env.slots["step_index"].data \in 0..InferenceSteps
         /\ DiffusionPhase(Place(frames), Last(frames).left, env)
<1>1. status = "running"
  BY DEF InBody
<1> QED
  BY <1>1, Due DEF DiffusionInv, RunInv, Current, Top

\* What the step at hand does.
LEMMA DueOp ==
  ASSUME RunInv, DiffusionInv, InBody, session.program = DiffusionProgram,
         NEW p, p = Place(frames)
  PROVE  OpAt(p, Current)
<1> PICK stack, step : stack = frames /\ step = Current
  OBVIOUS
<1>1. /\ Nested(DiffusionProgram, stack) /\ Last(stack).pc <= Len(Last(stack).body)
      /\ step = Last(stack).body[Last(stack).pc]
  BY DiffusionDue
<1> QED
  BY <1>1, PlaceOps

\* A step that succeeds.
LEMMA DiffusionGoesOn ==
  ASSUME RunInv, InBody, session' = session, NEW e, Continue(e),
         session.program = DiffusionProgram =>
           /\ e.slots["step_index"].data \in 0..InferenceSteps
           /\ DiffusionPhase(Place(frames) + 1, Last(frames).left, e)
  PROVE  DiffusionInv'
<1> SUFFICES ASSUME session.program = DiffusionProgram
    PROVE  /\ env'.slots["step_index"].data \in 0..InferenceSteps
           /\ status' = "running"
           /\ DiffusionPhase(Place(frames'), Last(frames').left, env')
  BY DEF DiffusionInv
<1>1. status' = "running" /\ env' = e /\ frames' = Advanced(frames)
  BY DEF Continue, InBody
<1>2. /\ Nested(DiffusionProgram, frames) /\ Last(frames).pc <= Len(Last(frames).body)
  BY Due
<1>3. Place(frames') = Place(frames) + 1 /\ Last(frames').left = Last(frames).left
  BY <1>1, <1>2, PlaceMoves
<1> QED
  BY <1>1, <1>3

\* A run that does not succeed.
LEMMA DiffusionFails ==
  ASSUME RunInv, DiffusionInv, session' = session, EndRun("failed", env)
  PROVE  DiffusionInv'
<1>1. env' = CloseRun(env) /\ status' = "failed"
  BY DEF EndRun
<1>2. env'.slots = env.slots
  BY <1>1, RunEnds DEF RunInv
<1> QED
  BY <1>1, <1>2 DEF DiffusionInv

\* A new session has applied nothing.
LEMMA DiffusionBegins ==
  ASSUME Init
  PROVE  DiffusionInv
<1> SUFFICES ASSUME session.program = DiffusionProgram
    PROVE  env.slots["step_index"].data \in 0..InferenceSteps
  BY DEF DiffusionInv, Init
<1>p. PICK program : program = session.program
  OBVIOUS
<1>1. program \in Programs /\ IsProgram(program) /\ program = DiffusionProgram
  BY <1>p, ProgramsAssumption DEF Init
<1>2. env.slots = NewState(program.state)
  BY <1>1, <1>p, NewStateOwns DEF Init
<1>s. PICK state : state = DiffusionProgram.state
  OBVIOUS
<1>3. state = << <<"step_index", "counter">>, <<"latents", "tensor">>, <<"sigmas", "tensor">>,
                 <<"timesteps", "tensor">>, <<"text_embedding", "tensor">> >>
  BY <1>s DEF DiffusionProgram
<1>4. /\ DOMAIN state = 1..5
      /\ state[1][1] = "step_index" /\ state[2][1] = "latents" /\ state[3][1] = "sigmas"
      /\ state[4][1] = "timesteps" /\ state[5][1] = "text_embedding"
      /\ state[1][2] = "counter"
  BY <1>3
<1>5. (CHOOSE i \in DOMAIN state : state[i][1] = "step_index") = 1
  <2>1. \A i \in DOMAIN state : i = 1 \/ i = 2 \/ i = 3 \/ i = 4 \/ i = 5
    BY <1>4
  <2>2. \A i \in DOMAIN state : state[i][1] = "step_index" <=> i = 1
    BY <1>4, <2>1
  <2>3. 1 \in DOMAIN state
    BY <1>4
  <2> QED
    BY <2>2, <2>3
<1>6. "step_index" \in {d[1] : d \in ToSet(state)}
  <2>1. state[1] \in ToSet(state)
    BY <1>4 DEF ToSet
  <2> QED
    BY <1>4, <2>1
<1>7. NewState(state)["step_index"] = Materialized("counter", 1)
  BY <1>4, <1>5, <1>6 DEF NewState
<1>8. Materialized("counter", 1) = HostValue("counter", 0)
  BY Zenon DEF Materialized
<1>9. env.slots["step_index"].data = 0
  BY <1>1, <1>2, <1>7, <1>8, <1>s DEF HostValue
<1> QED
  BY <1>9, IterationAssumption

\* The counter is not reset between runs.
LEMMA DiffusionStarts ==
  ASSUME RunInv, DiffusionInv, StartRun
  PROVE  DiffusionInv'
<1> SUFFICES ASSUME session.program = DiffusionProgram
    PROVE  /\ env'.slots["step_index"].data \in 0..InferenceSteps
           /\ status' = "running"
           /\ DiffusionPhase(Place(frames'), Last(frames').left, env')
  BY DEF DiffusionInv, StartRun
<1>1. env'.slots = env.slots /\ status' = "running"
  BY RunBegins DEF RunInv, StartRun
<1>2. Place(frames') = 1
  <2> PICK f : f = Frame("main", session.program.steps, 0, 0)
    OBVIOUS
  <2>1. frames' = <<f>> /\ f.pc = 1
    BY DEF StartRun, Frame
  <2>2. Len(<<f>>) = 1 /\ <<f>>[1] = f
    OBVIOUS
  <2> QED
    BY <2>1, <2>2 DEF Place, Last
<1>3. DiffusionPhase(1, Last(frames').left, env')
  BY DEF DiffusionPhase
<1> QED
  BY <1>1, <1>2, <1>3 DEF DiffusionInv

\* A run that succeeds has left the loop.
LEMMA DiffusionFinishes ==
  ASSUME RunInv, DiffusionInv, FinishRun
  PROVE  DiffusionInv'
<1>1. BodyDone /\ Top.kind = "main" /\ EndRun("done", env) /\ session' = session
  BY DEF FinishRun, Silent
<1> SUFFICES ASSUME session.program = DiffusionProgram
    PROVE  /\ env'.slots["step_index"].data \in 0..InferenceSteps
           /\ status' = "done"
           /\ env'.slots["latents"].data = Deltas(InferenceSteps, InferenceSteps)
  BY <1>1 DEF DiffusionInv
<1>2. status = "running" /\ Last(frames).pc > Len(Last(frames).body)
      /\ Last(frames).kind = "main"
  BY <1>1 DEF BodyDone, Top
<1>3. Nested(DiffusionProgram, frames)
  BY <1>2 DEF RunInv
<1>4. Place(frames) = 14
  BY <1>2, <1>3, PlaceMoves
<1>5. env.slots["latents"].data = Deltas(InferenceSteps, InferenceSteps)
  BY <1>2, <1>4 DEF DiffusionInv, DiffusionPhase
<1>6. env'.slots = env.slots /\ status' = "done"
  BY <1>1, RunEnds DEF RunInv, EndRun
<1> QED
  BY <1>5, <1>6 DEF DiffusionInv

\* The loop begins with no delta applied.
LEMMA DiffusionEntersLoop ==
  ASSUME RunInv, DiffusionInv, EnterLoop
  PROVE  DiffusionInv'
<1>1. InBody /\ session' = session /\ status' = status
  BY DEF EnterLoop, EnterUntilEOF, EnterLoopCount, EnterLoopEach, At, Silent
<1> SUFFICES ASSUME session.program = DiffusionProgram
    PROVE  /\ env'.slots["step_index"].data \in 0..InferenceSteps
           /\ status' = "running"
           /\ DiffusionPhase(Place(frames'), Last(frames').left, env')
  BY <1>1 DEF DiffusionInv
<1>2. /\ Nested(DiffusionProgram, frames) /\ Owns(DiffusionProgram, env)
      /\ DiffusionProgram \in Programs
      /\ Last(frames).pc <= Len(Last(frames).body) /\ Current = Last(frames).body[Last(frames).pc]
      /\ env.slots["step_index"].data \in 0..InferenceSteps
      /\ DiffusionPhase(Place(frames), Last(frames).left, env)
  BY <1>1, DiffusionDue
<1>3. Current.op \in LoopOps
  BY DEF LoopOps, EnterLoop, EnterUntilEOF, EnterLoopCount, EnterLoopEach, At
<1>4. /\ Current.op = "loop_each" /\ Place(frames) = 11
      /\ Current.in = <<"timesteps_list">> /\ Current.out = <<"timestep">>
  <2>p. PICK p : p = Place(frames)
    OBVIOUS
  <2>o. OpAt(p, Current)
    BY <1>1, <2>p, DueOp
  <2>1. Current.op = "loop_each"
    BY <1>3, <2>o, <2>p DEF LoopOps, OpAt
  <2> QED
    BY <2>1, <2>o, <2>p DEF OpAt
<1>5. EnterLoopEach
  BY <1>4 DEF EnterLoop, EnterUntilEOF, EnterLoopCount, At
<1>6. /\ env.slots["latents"].data = <<>> /\ env.slots["sigmas"].data = InferenceSteps
      /\ Holds(env.values, "timesteps_list", InferenceSteps)
  BY <1>2, <1>4 DEF DiffusionPhase
<1>7. Data("timesteps_list") = InferenceSteps
  <2>1. "timesteps_list" \notin DOMAIN env.slots
    BY <1>2, DiffusionDeclared DEF Owns
  <2> QED
    BY <1>6, <2>1 DEF Data, Lookup, Holds
<1>8. frames' = Append(frames, Frame(Current.op, Current.body, InferenceSteps, 0))
  <2>1. Current.in[1] = "timesteps_list"
    BY <1>4
  <2> QED
    BY <1>4, <1>5, <1>7, <2>1 DEF EnterLoopEach
<1>9. Place(frames') = 21 /\ Last(frames').left = InferenceSteps
  <2>1. \A step, left, before :
          (/\ Last(frames).pc <= Len(Last(frames).body)
           /\ step = Last(frames).body[Last(frames).pc] /\ step.op \in LoopOps)
            => /\ Place(Append(frames, Frame(step.op, step.body, left, before))) = 21
               /\ Last(Append(frames, Frame(step.op, step.body, left, before))).left = left
    <3>1. Nested(DiffusionProgram, frames)
      BY <1>2
    <3> QED
      BY <3>1, PlaceMoves
  <2>c. PICK step : step = Current
    OBVIOUS
  <2>2. /\ Place(Append(frames, Frame(step.op, step.body, InferenceSteps, 0))) = 21
        /\ Last(Append(frames, Frame(step.op, step.body, InferenceSteps, 0))).left = InferenceSteps
    BY <1>2, <1>3, <2>1, <2>c
  <2> QED
    BY <1>8, <2>2, <2>c
<1>10. env'.slots = env.slots
  <2>v. PICK v : v = HostValue("item", 1)
    OBVIOUS
  <2>1. Output = "timestep" /\ v.id = 0
    BY <1>4, <2>v, HostValues DEF Output
  <2>2. Output \in Assigned(DiffusionProgram)
    <3>1. Len(Current.out) = 1
      BY <1>4
    <3> QED
      BY <1>1, <3>1, OneOutput
  <2>3. SetValue(env, Output, v).slots = env.slots
    BY <1>2, <2>1, <2>2, StoreNew
  <2> QED
    BY <1>5, <2>3, <2>v DEF EnterLoopEach
<1>s. PICK s : s = env.slots["step_index"].data
  OBVIOUS
<1>11. Denoised(21, InferenceSteps - InferenceSteps, s, env.slots["latents"].data)
  <2>1. s \in Nat /\ InferenceSteps - InferenceSteps = 0
    BY <1>2, <1>s, IterationAssumption
  <2>2. Deltas(0, s) = <<>>
    BY DEF Deltas
  <2>3. 0 <= s
    BY <2>1
  <2> QED
    BY <1>6, <2>1, <2>2, <2>3 DEF Denoised
<1>12. InferenceSteps \in 1..InferenceSteps
  BY IterationAssumption
<1>13. DiffusionPhase(21, InferenceSteps, env')
  BY <1>6, <1>10, <1>11, <1>12, <1>s DEF DiffusionPhase
<1> QED
  BY <1>1, <1>2, <1>9, <1>10, <1>13 DEF InBody

\* The loop ends after as many deltas as the schedule has.
LEMMA DiffusionEndsBody ==
  ASSUME RunInv, DiffusionInv, EndCountedIteration \/ EndEachIteration \/ EndUntilEOFIteration
  PROVE  DiffusionInv'
<1>1. BodyDone /\ Top.kind # "main" /\ session' = session /\ status' = status
  BY DEF EndCountedIteration, EndEachIteration, EndUntilEOFIteration, Silent
<1> SUFFICES ASSUME session.program = DiffusionProgram
    PROVE  /\ env'.slots["step_index"].data \in 0..InferenceSteps
           /\ status' = "running"
           /\ DiffusionPhase(Place(frames'), Last(frames').left, env')
  BY <1>1 DEF DiffusionInv
<1>2. status = "running" /\ Last(frames).pc > Len(Last(frames).body) /\ Last(frames).kind # "main"
  BY <1>1 DEF BodyDone, Top
<1>3. Nested(DiffusionProgram, frames) /\ Owns(DiffusionProgram, env)
  BY <1>2 DEF RunInv
<1>4. Place(frames) = 25 /\ Last(frames).kind = "loop_each"
  BY <1>2, <1>3, PlaceMoves
<1>5. EndEachIteration
  BY <1>4 DEF EndCountedIteration, EndUntilEOFIteration, Top
<1>s. PICK s, left, latents : /\ s = env.slots["step_index"].data /\ left = Last(frames).left
                              /\ latents = env.slots["latents"].data
  OBVIOUS
<1>6. /\ s \in 0..InferenceSteps /\ left \in 1..InferenceSteps
      /\ latents = Deltas(InferenceSteps - left + 1, s) /\ InferenceSteps - left + 1 <= s
      /\ env.slots["sigmas"].data = InferenceSteps
  <2>1. s \in 0..InferenceSteps /\ DiffusionPhase(25, left, env)
    BY <1>2, <1>4, <1>s DEF DiffusionInv
  <2>2. /\ left \in 1..InferenceSteps /\ Denoised(25, InferenceSteps - left, s, latents)
        /\ env.slots["sigmas"].data = InferenceSteps
    BY <1>s, <2>1 DEF DiffusionPhase
  <2> QED
    BY <2>1, <2>2 DEF Denoised
<1>7. CASE left = 1
  <2>1. frames' = Popped(frames) /\ env' = env
    BY <1>5, <1>7, <1>s DEF EndEachIteration, Top
  <2>2. Place(frames') = 12
    BY <1>2, <1>3, <2>1, PlaceMoves
  <2>3. InferenceSteps - left + 1 = InferenceSteps /\ s = InferenceSteps
    BY <1>6, <1>7, IterationAssumption
  <2>4. latents = Deltas(InferenceSteps, InferenceSteps)
    BY <1>6, <2>3
  <2>5. DiffusionPhase(12, Last(frames').left, env)
    BY <1>s, <2>4 DEF DiffusionPhase
  <2> QED
    BY <1>1, <1>2, <1>6, <1>s, <2>1, <2>2, <2>5
<1>8. CASE left # 1
  <2>1. /\ frames' = Again(frames, left - 1, 0)
        /\ \E data : env' = SetValue(env, LoopStep.out[1], HostValue("item", data))
    BY <1>5, <1>8, <1>s DEF EndEachIteration, Top
  <2>2. Place(frames') = 21 /\ Last(frames').left = left - 1
    BY <1>2, <1>3, <2>1, PlaceMoves
  <2>3. env'.slots = env.slots
    <3>1. PICK data : env' = SetValue(env, LoopStep.out[1], HostValue("item", data))
      BY <2>1
    <3>v. PICK v : v = HostValue("item", data)
      OBVIOUS
    <3>2. v.id = 0 /\ LoopStep.out[1] \in Assigned(DiffusionProgram)
      BY <1>1, <1>5, <3>v, HostValues, LoopStepWrites DEF EndEachIteration
    <3>3. SetValue(env, LoopStep.out[1], v).slots = env.slots
      BY <1>3, <3>2, StoreNew
    <3> QED
      BY <3>1, <3>3, <3>v
  <2>4. /\ left - 1 \in 1..InferenceSteps
        /\ InferenceSteps - (left - 1) = InferenceSteps - left + 1
    BY <1>6, <1>8, IterationAssumption
  <2>5. Denoised(21, InferenceSteps - (left - 1), s, latents)
    BY <1>6, <2>4 DEF Denoised
  <2>6. DiffusionPhase(21, left - 1, env')
    BY <1>6, <1>s, <2>3, <2>4, <2>5 DEF DiffusionPhase
  <2> QED
    BY <1>1, <1>2, <1>6, <1>s, <2>2, <2>3, <2>6
<1> QED
  BY <1>7, <1>8

LEMMA DiffusionReadsLine ==
  ASSUME RunInv, DiffusionInv, ReadLine
  PROVE  DiffusionInv'
<1>1. InBody /\ session' = session /\ status' = status /\ Current.op = "read_line"
  BY DEF ReadLine, At
<1>2. PICK line : /\ env' = SetValue(env, Output, HostValue("line", line))
                  /\ \/ Top.kind = "until_eof" /\ frames' = Popped(frames)
                     \/ frames' = Advanced(frames)
  BY DEF ReadLine
<1> SUFFICES ASSUME session.program = DiffusionProgram
    PROVE  DiffusionInv'
  BY <1>1 DEF DiffusionInv
<1>3. /\ Nested(DiffusionProgram, frames) /\ Owns(DiffusionProgram, env)
      /\ Last(frames).pc <= Len(Last(frames).body) /\ Current = Last(frames).body[Last(frames).pc]
      /\ env.slots["step_index"].data \in 0..InferenceSteps
      /\ DiffusionPhase(Place(frames), Last(frames).left, env)
  BY <1>1, DiffusionDue
<1>4. Place(frames) = 1 /\ Current.out = <<"user_prompt">>
  <2>p. PICK p : p = Place(frames)
    OBVIOUS
  <2> QED
    BY <1>1, <2>p, DueOp DEF OpAt
<1>5. Top.kind # "until_eof"
  <2>1. /\ Len(frames) \in 1..2
        /\ Len(frames) = 1 => Last(frames).kind = "main"
        /\ Len(frames) = 2 => Last(frames).kind = "loop_each"
    BY <1>3, DiffusionStack
  <2>2. Len(frames) = 1 \/ Len(frames) = 2
    BY <2>1
  <2> QED
    BY <2>1, <2>2 DEF Top
<1>v. PICK v, e : v = HostValue("line", line) /\ e = SetValue(env, Output, v)
  OBVIOUS
<1>6. v.id = 0 /\ Output \in Assigned(DiffusionProgram)
  <2>1. Len(Current.out) = 1
    BY <1>4
  <2> QED
    BY <1>1, <1>v, <2>1, OneOutput, HostValues
<1>7. e.slots = env.slots
  BY <1>3, <1>6, <1>v, StoreNew
<1>8. Continue(e)
  BY <1>1, <1>2, <1>5, <1>v DEF Continue
<1>9. DiffusionPhase(1 + 1, Last(frames).left, e)
  BY DEF DiffusionPhase
<1> QED
  BY <1>1, <1>3, <1>4, <1>7, <1>8, <1>9, DiffusionGoesOn

LEMMA DiffusionReadsEOF ==
  ASSUME RunInv, DiffusionInv, ReadEOF
  PROVE  DiffusionInv'
<1>1. InBody /\ session' = session
  BY DEF ReadEOF, At
<1> SUFFICES ASSUME session.program = DiffusionProgram
    PROVE  DiffusionInv'
  BY <1>1 DEF DiffusionInv
<1>2. Nested(DiffusionProgram, frames)
  BY <1>1, DiffusionDue
<1>l. PICK loops : loops = {i \in DOMAIN frames : frames[i].kind = "until_eof"}
  OBVIOUS
<1>3. loops = {}
  <2>1. /\ Len(frames) \in 1..2 /\ frames[1].kind = "main"
        /\ Len(frames) = 2 => Last(frames).kind = "loop_each"
    BY <1>2, DiffusionStack
  <2>2. DOMAIN frames = 1..Len(frames)
    BY <1>2, SequenceFacts DEF Nested
  <2>3. Len(frames) = 2 => frames[2].kind = "loop_each"
    BY <2>1 DEF Last
  <2>4. \A i \in DOMAIN frames : i = 1 \/ (i = 2 /\ Len(frames) = 2)
    BY <2>1, <2>2
  <2> QED
    BY <1>l, <2>1, <2>3, <2>4
<1>4. EndRun("failed", env)
  BY <1>3, <1>l DEF ReadEOF
<1> QED
  BY <1>1, <1>4, DiffusionFails

\* A step that is not about the latents.
LEMMA DiffusionCarries ==
  ASSUME RunInv, DiffusionInv, InBody, session' = session, NEW e, Continue(e),
         session.program = DiffusionProgram =>
           /\ Place(frames) \in {1, 2, 3, 6, 9, 10, 12, 13, 21}
           /\ Undisturbed(env, e)
  PROVE  DiffusionInv'
<1> SUFFICES ASSUME session.program = DiffusionProgram
    PROVE  /\ e.slots["step_index"].data \in 0..InferenceSteps
           /\ DiffusionPhase(Place(frames) + 1, Last(frames).left, e)
  BY DiffusionGoesOn
<1>1. /\ env.slots["step_index"].data \in 0..InferenceSteps
      /\ DiffusionPhase(Place(frames), Last(frames).left, env)
  BY DiffusionDue
<1>2. DiffusionPhase(Place(frames) + 1, Last(frames).left, e)
  BY <1>1, PhaseCarries
<1>3. e.slots["step_index"] = env.slots["step_index"]
  BY DEF Undisturbed
<1> QED
  BY <1>1, <1>2, <1>3

\* A host value set under a name that is no slot.
LEMMA SetStored ==
  ASSUME NEW e, Owns(DiffusionProgram, e), NEW name \in Assigned(DiffusionProgram),
         name \notin Declared(DiffusionProgram), NEW kind, NEW data,
         NEW new, new = SetValue(e, name, HostValue(kind, data))
  PROVE  \E v : v.data = data /\ Stored(DiffusionProgram, e, name, v, new)
<1>v. PICK v : v = HostValue(kind, data)
  OBVIOUS
<1>1. v.id = 0 /\ v.data = data
  BY <1>v, HostValues
<1>2. Stored(DiffusionProgram, e, name, v, SetValue(e, name, v))
  BY <1>1, StoreNew DEF Stored
<1> QED
  BY <1>1, <1>2, <1>v

LEMMA DiffusionEncodes ==
  ASSUME RunInv, DiffusionInv, Encode
  PROVE  DiffusionInv'
<1>1. InBody /\ session' = session /\ Current.op = "encode"
  BY DEF Encode, At, Silent
<1>2. PICK tokens : Continue(SetValue(env, Output, HostValue("tokens", tokens)))
  BY DEF Encode
<1>e. PICK e : e = SetValue(env, Output, HostValue("tokens", tokens))
  OBVIOUS
<1>3. ASSUME session.program = DiffusionProgram
      PROVE  Place(frames) \in {1, 2, 3, 6, 9, 10, 12, 13, 21} /\ Undisturbed(env, e)
  <2>1. /\ Nested(DiffusionProgram, frames) /\ Owns(DiffusionProgram, env)
        /\ Last(frames).pc <= Len(Last(frames).body) /\ Current = Last(frames).body[Last(frames).pc]
    BY <1>1, <1>3, DiffusionDue
  <2>2. Place(frames) = 2 /\ Current.out = <<"text_ids">>
    <3>p. PICK p : p = Place(frames)
      OBVIOUS
    <3> QED
      BY <1>1, <1>3, <3>p, DueOp DEF OpAt
  <2>3. Output = "text_ids" /\ Output \in Assigned(DiffusionProgram)
    <3>1. Len(Current.out) = 1 /\ Output = "text_ids"
      BY <2>2 DEF Output
    <3> QED
      BY <1>1, <1>3, <3>1, OneOutput
  <2>4. Output \notin Declared(DiffusionProgram)
    BY <2>3, DiffusionDeclared
  <2>5. PICK v : Stored(DiffusionProgram, env, Output, v, e)
    BY <1>e, <2>1, <2>3, <2>4, SetStored
  <2>6. Undisturbed(env, e)
    BY <2>1, <2>3, <2>5, StoredAt
  <2> QED
    BY <2>2, <2>6
<1> QED
  BY <1>1, <1>2, <1>3, <1>e, DiffusionCarries

LEMMA DiffusionEmits ==
  ASSUME RunInv, DiffusionInv, Emit
  PROVE  DiffusionInv'
<1>1. InBody /\ session' = session /\ Current.op \in {"emit_token", "write_image"} /\ Continue(env)
  BY DEF Emit, At, Silent
<1>2. ASSUME session.program = DiffusionProgram
      PROVE  Place(frames) \in {1, 2, 3, 6, 9, 10, 12, 13, 21} /\ Undisturbed(env, env)
  <2>1. /\ Nested(DiffusionProgram, frames)
        /\ Last(frames).pc <= Len(Last(frames).body) /\ Current = Last(frames).body[Last(frames).pc]
    BY <1>1, <1>2, DiffusionDue
  <2>2. Place(frames) = 13
    <3>p. PICK p : p = Place(frames)
      OBVIOUS
    <3> QED
      BY <1>1, <1>2, <3>p, DueOp DEF OpAt
  <2> QED
    BY <2>2 DEF Undisturbed
<1> QED
  BY <1>1, <1>2, DiffusionCarries

LEMMA DiffusionCallsGraph ==
  ASSUME RunInv, DiffusionInv, CallGraph
  PROVE  DiffusionInv'
<1>1. InBody /\ session' = session /\ Current.op = "call_graph"
  BY DEF CallGraph, At, Silent
<1>e. PICK v, e : v = Upload(env, 0) /\ e = Write(env, Output, v)
  OBVIOUS
<1>2. Continue(e)
  BY <1>e DEF CallGraph
<1>3. ASSUME session.program = DiffusionProgram
      PROVE  Place(frames) \in {1, 2, 3, 6, 9, 10, 12, 13, 21} /\ Undisturbed(env, e)
  <2>1. /\ Nested(DiffusionProgram, frames) /\ Owns(DiffusionProgram, env)
        /\ DiffusionProgram \in Programs
        /\ Last(frames).pc <= Len(Last(frames).body) /\ Current = Last(frames).body[Last(frames).pc]
    BY <1>1, <1>3, DiffusionDue
  <2>p. PICK p : p = Place(frames)
    OBVIOUS
  <2>2. GraphAt(p, Current)
    BY <1>1, <1>3, <2>p, DueOp DEF OpAt
  <2>3. p \in {3, 12, 21} /\ Output \in {"text_embedding", "decoded_image", "noise_pred"}
        /\ Len(Current.out) = 1
    BY <2>2 DEF GraphAt, Output
  <2>4. Output \in Assigned(DiffusionProgram)
    BY <1>1, <1>3, <2>3, OneOutput
  <2>5. Stored(DiffusionProgram, env, Output, v, e)
    BY <1>e, <2>1, <2>4, UploadStored, StoreNew
  <2>6. Output \notin {"latents", "sigmas", "step_index", "raw_sigmas", "timesteps_list",
                       "sigma_delta"}
    BY <2>3
  <2>7. Undisturbed(env, e)
    BY <2>1, <2>5, <2>6, StoredAt
  <2> QED
    BY <2>3, <2>7, <2>p
<1> QED
  BY <1>1, <1>2, <1>3, DiffusionCarries

\* The host compares the counter with the schedule.
LEMMA DiffusionReadsDelta ==
  ASSUME RunInv, DiffusionInv, SchedulerDelta
  PROVE  DiffusionInv'
<1>1. InBody /\ session' = session /\ Current.op = "scheduler_delta"
  BY DEF SchedulerDelta, At, Silent
<1>e. PICK delta, e : /\ delta = Data(Current.in[2]) + 1
                      /\ e = SetValue(env, Output, HostValue("delta", delta))
  OBVIOUS
<1>2. Continue(e)
  BY <1>e DEF SchedulerDelta
<1> SUFFICES ASSUME session.program = DiffusionProgram
    PROVE  /\ e.slots["step_index"].data \in 0..InferenceSteps
           /\ DiffusionPhase(Place(frames) + 1, Last(frames).left, e)
  BY <1>1, <1>2, DiffusionGoesOn
<1>3. /\ Nested(DiffusionProgram, frames) /\ Owns(DiffusionProgram, env)
      /\ Last(frames).pc <= Len(Last(frames).body) /\ Current = Last(frames).body[Last(frames).pc]
      /\ env.slots["step_index"].data \in 0..InferenceSteps
      /\ DiffusionPhase(Place(frames), Last(frames).left, env)
  BY <1>1, DiffusionDue
<1>4. /\ Place(frames) = 22 /\ Current.in = <<"sigmas", "step_index">>
      /\ Current.out = <<"sigma_delta">>
  <2>p. PICK p : p = Place(frames)
    OBVIOUS
  <2> QED
    BY <1>1, <2>p, DueOp DEF OpAt
<1>s. PICK s, left : s = env.slots["step_index"].data /\ left = Last(frames).left
  OBVIOUS
<1>5. /\ env.slots["sigmas"].data = InferenceSteps /\ left \in 1..InferenceSteps
      /\ env.slots["latents"].data = Deltas(InferenceSteps - left, s)
      /\ InferenceSteps - left <= s
  <2>1. /\ env.slots["sigmas"].data = InferenceSteps /\ left \in 1..InferenceSteps
        /\ Denoised(22, InferenceSteps - left, s, env.slots["latents"].data)
    BY <1>3, <1>4, <1>s DEF DiffusionPhase
  <2> QED
    BY <2>1 DEF Denoised
<1>6. Data("sigmas") = InferenceSteps /\ Data("step_index") = s
  <2>1. "sigmas" \in DOMAIN env.slots /\ "step_index" \in DOMAIN env.slots
    BY <1>3, DiffusionDeclared DEF Owns
  <2> QED
    BY <1>5, <1>s, <2>1 DEF Data, Lookup
<1>7. s < InferenceSteps /\ delta = s + 1
  <2>1. Current.in[1] = "sigmas" /\ Current.in[2] = "step_index"
    BY <1>4
  <2>2. StepIndexInSchedule(Data(Current.in[1]), Data(Current.in[2]))
    BY DEF SchedulerDelta
  <2> QED
    BY <1>6, <1>e, <2>1, <2>2 DEF StepIndexInSchedule
<1>8. Output = "sigma_delta" /\ Output \in Assigned(DiffusionProgram)
      /\ Output \notin Declared(DiffusionProgram)
  <2>1. Len(Current.out) = 1 /\ Output = "sigma_delta"
    BY <1>4 DEF Output
  <2> QED
    BY <1>1, <2>1, OneOutput, DiffusionDeclared
<1>9. PICK v : v.data = delta /\ Stored(DiffusionProgram, env, "sigma_delta", v, e)
  BY <1>3, <1>8, <1>e, SetStored
<1>10. /\ Holds(e.values, "sigma_delta", s + 1)
       /\ e.slots["step_index"] = env.slots["step_index"]
       /\ e.slots["latents"] = env.slots["latents"] /\ e.slots["sigmas"] = env.slots["sigmas"]
  <2>1. \A n \in Declared(DiffusionProgram) \ {"sigma_delta"} : e.slots[n] = env.slots[n]
    BY <1>3, <1>9, StoredAt
  <2>2. Holds(e.values, "sigma_delta", v.data)
    BY <1>3, <1>8, <1>9, StoredAt
  <2> QED
    BY <1>7, <1>9, <2>1, <2>2, DiffusionDeclared
<1>11. Denoised(23, InferenceSteps - left, s, env.slots["latents"].data)
  BY <1>5, <1>7 DEF Denoised
<1>12. DiffusionPhase(23, left, e)
  BY <1>5, <1>10, <1>11, <1>s DEF DiffusionPhase
<1> QED
  BY <1>3, <1>4, <1>10, <1>12, <1>s

\* One more delta.
LEMMA DeltasGrow ==
  ASSUME NEW n \in Nat, NEW s \in Nat
  PROVE  Append(Deltas(n, s), s + 1) = Deltas(n + 1, s + 1)
<1>d. PICK old, new, m : /\ old = Deltas(n, s) /\ new = Append(old, s + 1) /\ m = n + 1
  OBVIOUS
<1>1. old = [i \in 1..n |-> s - n + i]
  BY <1>d DEF Deltas
<1>2. old \in Seq(Int) /\ Len(old) = n
  BY <1>1
<1>3. new \in Seq(Int) /\ Len(new) = n + 1
      /\ \A i \in 1..(n + 1) : new[i] = IF i <= n THEN old[i] ELSE s + 1
  <2>1. s + 1 \in Int
    OBVIOUS
  <2> QED
    BY <1>2, <1>d, <2>1, AppendProperties
<1>4. \A i \in 1..m : new[i] = (s + 1) - m + i
  <2> SUFFICES ASSUME NEW i \in 1..m PROVE new[i] = (s + 1) - m + i
    OBVIOUS
  <2>m. m = n + 1
    BY <1>d
  <2>i. i \in Nat /\ i \in 1..(n + 1)
    BY <2>m
  <2>x. PICK x : x = new[i]
    OBVIOUS
  <2>1. CASE i <= n
    <3>1. i \in 1..n
      BY <2>i, <2>1
    <3>2. x = s - n + i
      BY <1>1, <1>3, <2>i, <2>x, <2>1, <3>1
    <3>3. s - n + i = (s + 1) - m + i
      BY <2>m, <2>i
    <3> QED
      BY <2>x, <3>2, <3>3
  <2>2. CASE ~(i <= n)
    <3>1. i = n + 1
      BY <2>i, <2>2
    <3>2. x = s + 1
      BY <1>3, <2>i, <2>x, <2>2
    <3>3. s + 1 = (s + 1) - m + i
      BY <2>m, <3>1
    <3> QED
      BY <2>x, <3>2, <3>3
  <2> QED
    BY <2>1, <2>2
<1>5. new = [i \in 1..m |-> new[i]]
  BY <1>3, <1>d
<1>6. new = [i \in 1..m |-> (s + 1) - m + i]
  BY <1>4, <1>5
<1> QED
  BY <1>6, <1>d DEF Deltas

LEMMA DiffusionAdds ==
  ASSUME RunInv, DiffusionInv, Axpy
  PROVE  DiffusionInv'
<1>1. InBody /\ session' = session /\ Current.op = "axpy"
  BY DEF Axpy, At, Silent
<1>e. PICK e : e = env'
  OBVIOUS
<1>2. PICK v : /\ v.data = Append(Lookup(env, Output).data, Data(Current.in[3]))
               /\ Stored(session.program, env, Output, v, e)
               /\ Continue(e)
  BY <1>e, AxpyStores
<1> SUFFICES ASSUME session.program = DiffusionProgram
    PROVE  /\ e.slots["step_index"].data \in 0..InferenceSteps
           /\ DiffusionPhase(Place(frames) + 1, Last(frames).left, e)
  BY <1>1, <1>2, DiffusionGoesOn
<1>3. /\ Nested(DiffusionProgram, frames) /\ Owns(DiffusionProgram, env)
      /\ Last(frames).pc <= Len(Last(frames).body) /\ Current = Last(frames).body[Last(frames).pc]
      /\ env.slots["step_index"].data \in 0..InferenceSteps
      /\ DiffusionPhase(Place(frames), Last(frames).left, env)
  BY <1>1, DiffusionDue
<1>4. /\ Place(frames) = 23 /\ Current.in = <<"latents", "noise_pred", "sigma_delta">>
      /\ Current.out = <<"latents">>
  <2>p. PICK p : p = Place(frames)
    OBVIOUS
  <2> QED
    BY <1>1, <2>p, DueOp DEF OpAt
<1>s. PICK s, left, n : /\ s = env.slots["step_index"].data /\ left = Last(frames).left
                        /\ n = InferenceSteps - left
  OBVIOUS
<1>5. /\ env.slots["sigmas"].data = InferenceSteps /\ left \in 1..InferenceSteps
      /\ env.slots["latents"].data = Deltas(n, s) /\ n <= s /\ s < InferenceSteps
      /\ Holds(env.values, "sigma_delta", s + 1)
  <2>1. /\ env.slots["sigmas"].data = InferenceSteps /\ left \in 1..InferenceSteps
        /\ Denoised(23, n, s, env.slots["latents"].data)
        /\ Holds(env.values, "sigma_delta", s + 1)
    BY <1>3, <1>4, <1>s DEF DiffusionPhase
  <2> QED
    BY <2>1 DEF Denoised
<1>6. Output = "latents" /\ Lookup(env, "latents").data = Deltas(n, s)
      /\ Data(Current.in[3]) = s + 1
  <2>1. "latents" \in DOMAIN env.slots /\ "sigma_delta" \notin DOMAIN env.slots
    BY <1>3, DiffusionDeclared DEF Owns
  <2>2. Current.in[3] = "sigma_delta" /\ Output = "latents"
    BY <1>4 DEF Output
  <2> QED
    BY <1>5, <2>1, <2>2 DEF Data, Lookup, Holds
<1>7. n \in Nat /\ s \in Nat
  BY <1>3, <1>5, <1>s, IterationAssumption
<1>8. v.data = Deltas(n + 1, s + 1)
  BY <1>2, <1>6, <1>7, DeltasGrow
<1>9. Stored(DiffusionProgram, env, "latents", v, e)
  BY <1>2, <1>6
<1>10. /\ e.slots["latents"].data = Deltas(n + 1, s + 1)
       /\ e.slots["step_index"] = env.slots["step_index"]
       /\ e.slots["sigmas"] = env.slots["sigmas"]
  <2>1. \A m \in Declared(DiffusionProgram) \ {"latents"} : e.slots[m] = env.slots[m]
    BY <1>3, <1>9, StoredAt
  <2>2. e.slots["latents"] = v
    BY <1>3, <1>9, StoredAt, DiffusionDeclared
  <2> QED
    BY <1>8, <2>1, <2>2, DiffusionDeclared
<1>11. Denoised(24, InferenceSteps - left, s, e.slots["latents"].data)
  BY <1>5, <1>10, <1>s DEF Denoised
<1>12. DiffusionPhase(24, left, e)
  BY <1>5, <1>10, <1>11, <1>s DEF DiffusionPhase
<1> QED
  BY <1>3, <1>4, <1>10, <1>12, <1>s

LEMMA DiffusionCounts ==
  ASSUME RunInv, DiffusionInv, UpdateState
  PROVE  DiffusionInv'
<1>1. InBody /\ session' = session /\ Current.op = "update"
  BY DEF UpdateState, At, Silent
<1>e. PICK v, e : /\ v = HostValue("counter", env.slots[Output].data + 1)
                  /\ e = SetReference(env, Output, v)
  OBVIOUS
<1>2. Continue(e)
  BY <1>e DEF UpdateState
<1> SUFFICES ASSUME session.program = DiffusionProgram
    PROVE  /\ e.slots["step_index"].data \in 0..InferenceSteps
           /\ DiffusionPhase(Place(frames) + 1, Last(frames).left, e)
  BY <1>1, <1>2, DiffusionGoesOn
<1>3. /\ Nested(DiffusionProgram, frames) /\ Owns(DiffusionProgram, env)
      /\ Last(frames).pc <= Len(Last(frames).body) /\ Current = Last(frames).body[Last(frames).pc]
      /\ env.slots["step_index"].data \in 0..InferenceSteps
      /\ DiffusionPhase(Place(frames), Last(frames).left, env)
  BY <1>1, DiffusionDue
<1>4. Place(frames) = 24 /\ Current.out = <<"step_index">>
  <2>p. PICK p : p = Place(frames)
    OBVIOUS
  <2> QED
    BY <1>1, <2>p, DueOp DEF OpAt
<1>s. PICK s, left, n : /\ s = env.slots["step_index"].data /\ left = Last(frames).left
                        /\ n = InferenceSteps - left
  OBVIOUS
<1>5. /\ env.slots["sigmas"].data = InferenceSteps /\ left \in 1..InferenceSteps
      /\ env.slots["latents"].data = Deltas(n + 1, s + 1) /\ n <= s /\ s < InferenceSteps
  <2>1. /\ env.slots["sigmas"].data = InferenceSteps /\ left \in 1..InferenceSteps
        /\ Denoised(24, n, s, env.slots["latents"].data)
    BY <1>3, <1>4, <1>s DEF DiffusionPhase
  <2> QED
    BY <2>1 DEF Denoised
<1>6. v.id = 0 /\ v.data = s + 1 /\ e = SetReference(env, "step_index", v)
  <2>1. Output = "step_index"
    BY <1>4 DEF Output
  <2> QED
    BY <1>e, <1>s, <2>1, HostValues
<1>7. e.slots = Update(env.slots, "step_index", v) /\ e.values = env.values
  <2>1. "step_index" \in Declared(DiffusionProgram)
    BY DiffusionDeclared
  <2> QED
    BY <1>3, <1>6, <2>1, RefNew
<1>8. /\ e.slots["step_index"].data = s + 1
      /\ e.slots["latents"] = env.slots["latents"] /\ e.slots["sigmas"] = env.slots["sigmas"]
  <2>1. DOMAIN env.slots = Declared(DiffusionProgram)
    BY <1>3 DEF Owns
  <2> QED
    BY <1>6, <1>7, <2>1, DiffusionDeclared DEF Update
<1>9. s + 1 \in 0..InferenceSteps /\ n + 1 <= s + 1
  BY <1>3, <1>5, <1>s, IterationAssumption
<1>10. Denoised(25, InferenceSteps - left, s + 1, env.slots["latents"].data)
  BY <1>5, <1>9, <1>s DEF Denoised
<1>11. DiffusionPhase(25, left, e)
  BY <1>5, <1>8, <1>10 DEF DiffusionPhase
<1> QED
  BY <1>4, <1>8, <1>9, <1>11, <1>s

\* A vector under one name, and under two.
LEMMA VectorIn ==
  ASSUME NEW e, Owns(DiffusionProgram, e), DiffusionProgram \in Programs, NEW data,
         NEW out, NEW name, out = <<name>>, name \in Assigned(DiffusionProgram),
         NEW new, new = WriteVectors(e, out, data)
  PROVE  \E v : v.data = data /\ Stored(DiffusionProgram, e, name, v, new)
<1>1. Len(out) = 1 /\ out[1] = name
  OBVIOUS
<1>2. new = WriteVector(e, name, data)
  BY <1>1 DEF WriteVectors
<1> QED
  BY <1>2, WriteVectorStored

LEMMA VectorInTwo ==
  ASSUME NEW e, Owns(DiffusionProgram, e), DiffusionProgram \in Programs, NEW data,
         NEW out, NEW name, NEW other, out = <<name, other>>,
         name \in Assigned(DiffusionProgram), other \in Assigned(DiffusionProgram),
         NEW new, new = WriteVectors(e, out, data)
  PROVE  \E v, w, first : /\ v.data = data /\ Stored(DiffusionProgram, e, name, v, first)
                          /\ w.data = data /\ Stored(DiffusionProgram, first, other, w, new)
<1>1. Len(out) = 2 /\ out[1] = name /\ out[2] = other
  OBVIOUS
<1>f. PICK first : first = WriteVector(e, name, data)
  OBVIOUS
<1>2. new = WriteVector(first, other, data)
  BY <1>1, <1>f DEF WriteVectors
<1>3. PICK v : v.data = data /\ Stored(DiffusionProgram, e, name, v, first)
  BY <1>f, WriteVectorStored
<1>4. Owns(DiffusionProgram, first)
  BY <1>3 DEF Stored
<1>5. PICK w : w.data = data /\ Stored(DiffusionProgram, first, other, w, new)
  BY <1>2, <1>4, WriteVectorStored
<1> QED
  BY <1>3, <1>5

LEMMA DiffusionFillsVector ==
  ASSUME RunInv, DiffusionInv, Vector
  PROVE  DiffusionInv'
<1>1. InBody /\ session' = session /\ Current.op = "vector"
  BY DEF Vector, At, Silent
<1>e. PICK data, e : /\ data = (IF Current.in = <<>> THEN Current.arg ELSE Data(Current.in[1]))
                     /\ e = WriteVectors(env, Current.out, data)
  OBVIOUS
<1>2. Continue(e)
  BY <1>e DEF Vector
<1> SUFFICES ASSUME session.program = DiffusionProgram
    PROVE  DiffusionInv'
  BY <1>1 DEF DiffusionInv
<1>3. /\ Nested(DiffusionProgram, frames) /\ Owns(DiffusionProgram, env)
      /\ DiffusionProgram \in Programs
      /\ Last(frames).pc <= Len(Last(frames).body) /\ Current = Last(frames).body[Last(frames).pc]
      /\ env.slots["step_index"].data \in 0..InferenceSteps
      /\ DiffusionPhase(Place(frames), Last(frames).left, env)
  BY <1>1, DiffusionDue
<1>p. PICK p : p = Place(frames)
  OBVIOUS
<1>4. VectorAt(p, Current)
  BY <1>1, <1>p, DueOp DEF OpAt
<1>5. \A n \in ToSet(Current.out) : n \in Assigned(DiffusionProgram)
  BY <1>1, Due
<1>d. Declared(DiffusionProgram) = {"step_index", "latents", "sigmas", "timesteps", "text_embedding"}
  BY DiffusionDeclared
<1>6. ASSUME NEW name, Current.out = <<name>>
      PROVE  \E v : v.data = data /\ Stored(DiffusionProgram, env, name, v, e)
  <2>1. name \in Assigned(DiffusionProgram)
    BY <1>5, <1>6 DEF ToSet
  <2> QED
    BY <1>3, <1>6, <1>e, <2>1, VectorIn
<1>7. CASE p = 4
  <2>1. Current.in = <<>> /\ Current.out = <<"latents">> /\ Current.arg = <<>>
    BY <1>4, <1>7 DEF VectorAt
  <2>2. PICK v : v.data = data /\ Stored(DiffusionProgram, env, "latents", v, e)
    BY <1>6, <2>1
  <2>3. data = <<>>
    BY <1>e, <2>1
  <2>4. e.slots["latents"].data = <<>> /\ e.slots["step_index"] = env.slots["step_index"]
    BY <1>3, <1>d, <2>2, <2>3, StoredAt
  <2>5. DiffusionPhase(5, Last(frames).left, e)
    BY <2>4 DEF DiffusionPhase
  <2> QED
    BY <1>1, <1>2, <1>3, <1>7, <1>p, <2>4, <2>5, DiffusionGoesOn
<1>8. CASE p = 5
  <2>1. Current.in = <<>> /\ Current.out = <<"raw_sigmas">> /\ Current.arg = InferenceSteps
    BY <1>4, <1>8 DEF VectorAt
  <2>2. PICK v : v.data = data /\ Stored(DiffusionProgram, env, "raw_sigmas", v, e)
    BY <1>6, <2>1
  <2>3. data = InferenceSteps
    BY <1>e, <2>1
  <2>4. /\ Holds(e.values, "raw_sigmas", InferenceSteps)
        /\ e.slots["step_index"] = env.slots["step_index"]
        /\ e.slots["latents"] = env.slots["latents"]
    BY <1>3, <1>d, <2>2, <2>3, StoredAt
  <2>5. env.slots["latents"].data = <<>>
    BY <1>3, <1>8, <1>p DEF DiffusionPhase
  <2>6. DiffusionPhase(6, Last(frames).left, e)
    BY <2>4, <2>5 DEF DiffusionPhase
  <2> QED
    BY <1>1, <1>2, <1>3, <1>8, <1>p, <2>4, <2>6, DiffusionGoesOn
<1>9. CASE p \in {6, 9, 10}
  <2>n. PICK name \in {"shift_mu", "guidance_scale", "guidance_timestep"} : Current.out = <<name>>
    BY <1>4, <1>9 DEF VectorAt
  <2>2. PICK v : Stored(DiffusionProgram, env, name, v, e)
    BY <1>6, <2>n
  <2>3. Undisturbed(env, e)
    BY <1>3, <2>2, <2>n, StoredAt
  <2> QED
    BY <1>1, <1>2, <1>9, <1>p, <2>3, DiffusionCarries
<1>10. CASE p = 7
  <2>1. Current.in = <<"raw_sigmas", "shift_mu">> /\ Current.out = <<"sigmas">>
    BY <1>4, <1>10 DEF VectorAt
  <2>2. PICK v : v.data = data /\ Stored(DiffusionProgram, env, "sigmas", v, e)
    BY <1>6, <2>1
  <2>3. Holds(env.values, "raw_sigmas", InferenceSteps) /\ env.slots["latents"].data = <<>>
    BY <1>3, <1>10, <1>p DEF DiffusionPhase
  <2>4. data = InferenceSteps
    <3>1. "raw_sigmas" \notin DOMAIN env.slots
      BY <1>3, <1>d DEF Owns
    <3>2. Current.in # <<>> /\ Current.in[1] = "raw_sigmas"
      BY <2>1
    <3>3. data = Data("raw_sigmas")
      BY <1>e, <3>2
    <3> QED
      BY <2>3, <3>1, <3>3 DEF Data, Lookup, Holds
  <2>5. /\ e.slots["sigmas"].data = InferenceSteps
        /\ e.slots["step_index"] = env.slots["step_index"]
        /\ e.slots["latents"] = env.slots["latents"]
    BY <1>3, <1>d, <2>2, <2>4, StoredAt
  <2>6. DiffusionPhase(8, Last(frames).left, e)
    BY <2>3, <2>5 DEF DiffusionPhase
  <2> QED
    BY <1>1, <1>2, <1>3, <1>10, <1>p, <2>5, <2>6, DiffusionGoesOn
<1>11. CASE p = 8
  <2>1. Current.in = <<"sigmas">> /\ Current.out = <<"timesteps", "timesteps_list">>
    BY <1>4, <1>11 DEF VectorAt
  <2>2. "timesteps" \in Assigned(DiffusionProgram) /\ "timesteps_list" \in Assigned(DiffusionProgram)
    BY <1>5, <2>1 DEF ToSet
  <2>3. PICK v, w, first : /\ v.data = data /\ Stored(DiffusionProgram, env, "timesteps", v, first)
                           /\ w.data = data /\ Stored(DiffusionProgram, first, "timesteps_list", w, e)
    BY <1>3, <1>e, <2>1, <2>2, VectorInTwo
  <2>4. env.slots["sigmas"].data = InferenceSteps /\ env.slots["latents"].data = <<>>
    BY <1>3, <1>11, <1>p DEF DiffusionPhase
  <2>5. data = InferenceSteps
    <3>1. "sigmas" \in DOMAIN env.slots
      BY <1>3, <1>d DEF Owns
    <3>2. Current.in # <<>> /\ Current.in[1] = "sigmas"
      BY <2>1
    <3>3. data = Data("sigmas")
      BY <1>e, <3>2
    <3> QED
      BY <2>4, <3>1, <3>3 DEF Data, Lookup
  <2>6. Owns(DiffusionProgram, first) /\ \A n \in {"step_index", "latents", "sigmas"} :
                                           first.slots[n] = env.slots[n]
    <3>1. Owns(DiffusionProgram, first)
      BY <2>3 DEF Stored
    <3> QED
      BY <1>3, <1>d, <2>3, <3>1, StoredAt
  <2>7. /\ \A n \in {"step_index", "latents", "sigmas"} : e.slots[n] = first.slots[n]
        /\ Holds(e.values, "timesteps_list", InferenceSteps)
    BY <1>d, <2>3, <2>5, <2>6, StoredAt
  <2>8. DiffusionPhase(9, Last(frames).left, e)
    BY <2>4, <2>6, <2>7 DEF DiffusionPhase
  <2> QED
    BY <1>1, <1>2, <1>3, <1>11, <1>p, <2>6, <2>7, <2>8, DiffusionGoesOn
<1> QED
  BY <1>4, <1>7, <1>8, <1>9, <1>10, <1>11 DEF VectorAt

\* The other operations are not in the program.
LEMMA DiffusionHasNoOther ==
  ASSUME RunInv, DiffusionInv,
         Sample \/ PagedPlan \/ CallModel \/ CallModelFails \/ AdvancePosition
  PROVE  DiffusionInv'
<1>1. /\ InBody /\ session' = session
      /\ Current.op \in {"sample", "paged_plan", "call_model", "advance_position"}
  BY DEF Sample, PagedPlan, CallModel, CallModelFails, AdvancePosition, At, Silent
<1> SUFFICES ASSUME session.program = DiffusionProgram
    PROVE  FALSE
  BY <1>1 DEF DiffusionInv
<1>2. /\ Nested(DiffusionProgram, frames) /\ Last(frames).pc <= Len(Last(frames).body)
      /\ Current = Last(frames).body[Last(frames).pc]
  BY <1>1, DiffusionDue
<1>p. PICK p : p = Place(frames)
  OBVIOUS
<1>3. Current.op \in {"read_line", "encode", "call_graph", "vector", "loop_each", "write_image",
                      "scheduler_delta", "axpy", "update"}
  BY <1>1, <1>p, DueOp DEF OpAt
<1> QED
  BY <1>1, <1>3

LEMMA DiffusionStepHolds ==
  ASSUME RunInv, DiffusionInv, [Next]_vars
  PROVE  DiffusionInv'
<1>1. CASE StartRun
  BY <1>1, DiffusionStarts
<1>2. CASE FinishRun
  BY <1>2, DiffusionFinishes
<1>3. CASE StepFails
  <2>1. EndRun("failed", env) /\ session' = session
    BY <1>3 DEF StepFails, Silent
  <2> QED
    BY <2>1, DiffusionFails
<1>4. CASE EnterLoop
  BY <1>4, DiffusionEntersLoop
<1>5. CASE EndCountedIteration \/ EndEachIteration \/ EndUntilEOFIteration
  BY <1>5, DiffusionEndsBody
<1>6. CASE ReadLine
  BY <1>6, DiffusionReadsLine
<1>7. CASE ReadEOF
  BY <1>7, DiffusionReadsEOF
<1>8. CASE Encode
  BY <1>8, DiffusionEncodes
<1>9. CASE Emit
  BY <1>9, DiffusionEmits
<1>10. CASE Vector
  BY <1>10, DiffusionFillsVector
<1>11. CASE Sample \/ PagedPlan \/ CallModel \/ CallModelFails \/ AdvancePosition
  BY <1>11, DiffusionHasNoOther
<1>12. CASE SchedulerDelta
  BY <1>12, DiffusionReadsDelta
<1>13. CASE Axpy
  BY <1>13, DiffusionAdds
<1>14. CASE UpdateState
  BY <1>14, DiffusionCounts
<1>15. CASE CallGraph
  BY <1>15, DiffusionCallsGraph
<1>16. CASE UNCHANGED vars
  BY <1>16 DEF DiffusionInv, vars
<1> QED
  BY <1>1, <1>2, <1>3, <1>4, <1>5, <1>6, <1>7, <1>8, <1>9, <1>10, <1>11, <1>12, <1>13, <1>14,
     <1>15, <1>16 DEF Next

\* Of the shipped programs (executeLoopEach, flowDelta and the axpy and update operations):
\* whenever a run of the diffusion program succeeds, whatever runs of the same session
\* succeeded or failed before it, its latents got every delta of the schedule, each once and
\* in the schedule's order.
THEOREM ImagesAreComplete ==
  ASSUME Programs \subseteq {ChatProgram, DiffusionProgram}
  PROVE  Spec => []ImagesUseTheWholeSchedule
<1>1. Init => RunInv /\ DiffusionInv
  BY SessionBegins, DiffusionBegins
<1>2. RunInv /\ DiffusionInv /\ [Next]_vars => (RunInv /\ DiffusionInv)'
  BY StepHolds, DiffusionStepHolds
<1>3. RunInv /\ DiffusionInv => ImagesUseTheWholeSchedule
  <2> SUFFICES ASSUME RunInv, DiffusionInv, status = "done", "latents" \in DOMAIN env.slots
      PROVE  env.slots["latents"].data = [i \in 1..InferenceSteps |-> i]
    BY DEF ImagesUseTheWholeSchedule
  <2>1. session.program # ChatProgram
    <3> SUFFICES ASSUME session.program = ChatProgram PROVE FALSE
      OBVIOUS
    <3>1. DOMAIN env.slots = Declared(ChatProgram)
      BY DEF RunInv, Owns
    <3> QED
      BY <3>1, ChatDeclared
  <2>2. session.program = DiffusionProgram
    BY <2>1 DEF RunInv
  <2>3. env.slots["latents"].data = Deltas(InferenceSteps, InferenceSteps)
    BY <2>2 DEF DiffusionInv
  <2>4. Deltas(InferenceSteps, InferenceSteps) = [i \in 1..InferenceSteps |-> i]
    <3>1. \A i \in 1..InferenceSteps : InferenceSteps - InferenceSteps + i = i
      BY IterationAssumption
    <3> QED
      BY <3>1 DEF Deltas
  <2> QED
    BY <2>3, <2>4
<1> QED
  BY <1>1, <1>2, <1>3, PTL DEF Spec
==============================================================================
