------------------------------ MODULE MFHotfix ------------------------------
(***************************************************************************)
(* hotfix of MFFunctions.lua: how one virtual machine swaps a changed      *)
(* module under the code that uses it.                                     *)
(*                                                                         *)
(* A module returns a class made by class(): its functions `work`, `ctor`  *)
(* and `new`, in some versions a nested table with functions of its own, a *)
(* local variable that `work` counts in, and the class itself, a local     *)
(* that `new` refers to.  Tables and the cells of the locals are numbered  *)
(* by the load that made them.                                             *)
(***************************************************************************)
EXTENDS Integers, Sequences, FiniteSets

Fn == {"work", "ctor", "new"}

\* What can be in a version of the file: a chunk that does not compile, one that
\* compiles but raises when it runs, one that returns nothing (an empty file), a
\* class, a class with a nested table, a class whose constructor needs arguments.
Failing == {"broken", "raising"}
Kind == Failing \cup {"empty", "plain", "nested", "strict"}

NotLoaded == 0
LoadedTrue == -1   \* what require notes for a chunk that returns nothing

NewVM ==
  [loaded |-> NotLoaded,  \* package.loaded[filename]
   tables |-> <<>>,       \* fns and sub: versions; class: upvalue of `new`;
                          \* cell: of the variable that `work` counts in
   cells |-> <<>>,
   instances |-> {},      \* their class, and the version of their fields
   raised |-> FALSE,      \* history: a hotfix raised
   uses |-> 0]            \* history: calls of `work`

Table(id, v, kind) ==
  [fns |-> [f \in Fn |-> v], sub |-> IF kind = "nested" THEN v ELSE 0,
   class |-> id, cell |-> id]

\* require of a module that is not in package.loaded.
Required(vm, v, kind) ==
  CASE kind \in Failing -> vm
    [] kind = "empty" -> [vm EXCEPT !.loaded = LoadedTrue]
    [] OTHER ->
         LET id == Len(vm.tables) + 1 IN
         [vm EXCEPT !.loaded = id,
                    !.tables = Append(@, Table(id, v, kind)),
                    !.cells = Append(@, 0)]

\* Mutant: updateFunc does not carry the upvalues over.
UpdatedWithoutUpvalues(vm, old, S, whole) ==
  LET id == vm.loaded
      new == vm.tables[id]
  IN [vm EXCEPT
        !.tables[old].fns = [f \in Fn |-> IF f \in S THEN new.fns[f] ELSE @[f]],
        !.tables[old].sub = IF whole /\ new.sub # 0 THEN new.sub ELSE @,
        !.tables[old].cell = IF "work" \in S THEN new.cell ELSE @,
        !.tables[old].class = IF "new" \in S THEN new.class ELSE @]

\* updateTable, from the module just loaded to the table `old`, for the
\* functions in S and, if whole, for the nested table.  updateFunc gives the
\* new functions the old values of their upvalues; both tables then hold the
\* same functions.
Updated(vm, old, S, whole) ==
  LET id == vm.loaded
      new == vm.tables[id]
      o == vm.tables[old]
  IN [vm EXCEPT
        !.tables[old].fns = [f \in Fn |-> IF f \in S THEN new.fns[f] ELSE @[f]],
        !.tables[old].sub = IF whole /\ new.sub # 0 THEN new.sub ELSE @,
        !.tables[old].cell = IF "work" \in S THEN new.cell ELSE @,
        !.cells[new.cell] = IF "work" \in S THEN vm.cells[o.cell] ELSE @,
        !.tables[id].class = IF "new" \in S THEN o.class ELSE @]

\* reinvokeCtorAfterHotfix: the instances registered under the old table get
\* the fields that a run of the new constructor without arguments sets.
Reinvoked(vm, old, kind) ==
  IF kind = "strict" THEN vm
  ELSE [vm EXCEPT !.instances =
          {IF i.class = old
             THEN [i EXCEPT !.fields = IF @ < vm.tables[old].fns["ctor"]
                                         THEN vm.tables[old].fns["ctor"] ELSE @]
             ELSE i : i \in @}]

\* The possible results of loading the file again, where `failed` is what a
\* failing chunk leaves.  updateTable raises on anything that is not
\* a table, and on a nested table that the old module lacks, which the order of
\* pairs puts before or after any of the functions; package.loaded then keeps
\* what was loaded last.
Results(vm, v, kind, failed) ==
  LET old == vm.loaded
      new == Required([vm EXCEPT !.loaded = NotLoaded], v, kind)
      raise == [new EXCEPT !.raised = TRUE]
  IN IF kind \in Failing THEN {failed}
     ELSE IF old = LoadedTrue \/ new.loaded = LoadedTrue THEN {raise}
     ELSE IF kind = "nested" /\ vm.tables[old].sub = 0
       THEN {Updated(raise, old, S, FALSE) : S \in SUBSET Fn}
     ELSE {[Reinvoked(Updated(new, old, Fn, TRUE), old, kind) EXCEPT !.loaded = old]}

\* Mutant: a chunk that fails leaves package.loaded empty.
HotfixForgets(vm, v, kind) == Results(vm, v, kind, [vm EXCEPT !.loaded = NotLoaded])

\* hotfix, of a module that is in package.loaded: a chunk that fails leaves the
\* old module.
Hotfix(vm, v, kind) == Results(vm, v, kind, vm)

\* A call of `work` through table t.
Worked(vm, t) ==
  [vm EXCEPT !.cells[vm.tables[t].cell] = @ + 1, !.uses = @ + 1]

\* A call of `new` through table t: an instance of the class it refers to.
Constructed(vm, t) ==
  LET class == vm.tables[t].class IN
  [vm EXCEPT !.instances =
     @ \cup {[class |-> class, fields |-> vm.tables[class].fns["ctor"]]}]

\* The table that the code which required the module first still holds.
Held == 1

\* One version as a whole: every function is of the version of `work`.
Whole(vm) ==
  /\ \A f \in Fn : vm.tables[Held].fns[f] = vm.tables[Held].fns["work"]
  /\ vm.tables[Held].sub <= vm.tables[Held].fns["work"]

\* The counter and the instances outlived the change.
Survived(vm) ==
  /\ vm.cells[vm.tables[Held].cell] = vm.uses
  /\ \A i \in vm.instances : i.class = Held
=============================================================================
