----------------------------- MODULE SchemaPlan -----------------------------
(***************************************************************************)
(* Migration plans: planSchemas of infrastructure/migration/lifecycle.go   *)
(* and orderEntities of internal/generator/schema.go.                      *)
(*                                                                         *)
(* A plan turns the schema of the last promoted snapshot into the declared *)
(* one. It is a list of statements each way, and the destructive changes,  *)
(* for which NewDraft refuses to write anything. A behaviour takes a       *)
(* snapshot and a declaration, plans, and lets a database at the snapshot  *)
(* run the statements, up and down again.                                  *)
(*                                                                         *)
(* A column's type is reduced to a width: wider is a MODIFY, narrower, or  *)
(* another type, is destructive. An index has one column, a foreign key    *)
(* refers to a table's id. Its column has the id's type, which is one      *)
(* width, so the columns that may be wide are others. What MySQL accepts   *)
(* is external.                                                            *)
(***************************************************************************)
EXTENDS Naturals, Sequences, FiniteSets, SequencesExt

CONSTANTS
    Columns,      \* column names
    KeyColumns,   \* bound: the columns that may have an index or a foreign key
    WideColumns,  \* bound: the columns that may be wide
    Tables,       \* table names: a parent and a table that may refer to it
    Parent,       \* the parent
    IndexNames,   \* index names
    NoColumn      \* rename_from is not given

ASSUME SchemaAssumption ==
    /\ Parent \in Tables /\ NoColumn \notin Columns /\ IsFiniteSet(Tables)
    /\ KeyColumns \subseteq Columns /\ WideColumns \subseteq Columns \ KeyColumns

Widths == 1 .. 2

\* Fields by name. A rename_from of a field's own name changes nothing and is left out.
Fields(froms) ==
    {f \in UNION {[names -> [from : froms, width : Widths]] : names \in SUBSET Columns \ {{}}} :
        \A c \in DOMAIN f : f[c].from # c /\ (f[c].width > 1 => c \in WideColumns)}

\* normalizeEntity: indexes, by name, and foreign keys, by field, name declared fields.
Entities(froms) ==
    UNION {{[fields |-> f, indexes |-> i, keys |-> k] :
                i \in UNION {[names -> KeyColumns \cap DOMAIN f] : names \in SUBSET IndexNames},
                k \in UNION {[names -> {Parent}] : names \in SUBSET (KeyColumns \cap DOMAIN f)}} :
           f \in Fields(froms)}

\* The parent's entity never changes here.
ParentEntity == [fields |-> [c \in Columns |-> [from |-> NoColumn, width |-> 1]],
                 indexes |-> [n \in {} |-> NoColumn], keys |-> [c \in {} |-> Parent]]

\* Schemas with this entity for every table but the parent.
SchemaOf(tables, e) == [t \in tables |-> IF t = Parent THEN ParentEntity ELSE e]

VARIABLES
    previous,   \* the snapshot: a function from tables to entities
    declared,   \* the tables in the order the schema lists them
    current,    \* the declared schema
    database,   \* what the statements have made of the database
    todo,       \* the statements left
    phase       \* "plan", "up", "down" or "done"

planVars == <<previous, declared, current, database, todo, phase>>

\* A schema without its renames: what a database looks like.
Plain(schema) == [t \in DOMAIN schema |->
    [schema[t] EXCEPT !.fields = [c \in DOMAIN schema[t].fields |-> schema[t].fields[c].width]]]

PlanInit ==
    /\ \E olds \in SUBSET Tables, e \in Entities({NoColumn}) :
          /\ olds # {} /\ (Parent \in olds \/ DOMAIN e.keys = {})
          /\ previous = SchemaOf(olds, e)
    /\ \E e \in Entities(Columns \cup {NoColumn}) : current = SchemaOf(Tables, e)
    /\ declared \in {s \in [1 .. Cardinality(Tables) -> Tables] : IsInjective(s)}
    /\ database = Plain(previous)
    /\ todo = <<>>
    /\ phase = "plan"

-----------------------------------------------------------------------------
\* The tables an entity must come after.
Dependencies(t) == {current[t].keys[c] : c \in DOMAIN current[t].keys} \ {t}

\* Mutant: the entities are taken in the order they are declared.
AsDeclared == declared

\* orderEntities: again and again the first declared table whose dependencies are done.
orderEntities ==
    LET pick[done \in SUBSET Tables] ==
            IF done = Tables THEN <<>>
            ELSE LET ready == {i \in DOMAIN declared : /\ declared[i] \notin done
                                                       /\ Dependencies(declared[i]) \subseteq done}
                     t == declared[CHOOSE i \in ready : \A j \in ready : i <= j]
                 IN  <<t>> \o pick[done \cup {t}]
    IN  pick[{}]

\* Statements over a set of names, in some fixed order.
Each(S, Op(_)) == LET names == SetToSeq(S) IN [i \in DOMAIN names |-> Op(names[i])]

\* The column the declaration of c is compared with: its own, or the one renamed.
OldName(old, new, c) ==
    IF c \in DOMAIN old.fields THEN c
    ELSE IF new.fields[c].from \in DOMAIN old.fields THEN new.fields[c].from ELSE NoColumn

Renamed(old, new) == {c \in DOMAIN new.fields : OldName(old, new, c) \notin {c, NoColumn}}
Added(old, new) == {c \in DOMAIN new.fields : OldName(old, new, c) = NoColumn}
Compared(old, new) == DOMAIN new.fields \ Added(old, new)
Wider(old, new) == {c \in Compared(old, new) : new.fields[c].width > old.fields[OldName(old, new, c)].width}

\* What a plan refuses to do on its own. A column that is no longer declared is
\* dropped, unless some field names it in rename_from.
Destructive ==
    \/ \E t \in DOMAIN previous : t \notin DOMAIN current
    \/ \E t \in DOMAIN previous \cap DOMAIN current :
          LET old == previous[t]
              new == current[t]
          IN  \/ \E c \in Compared(old, new) : new.fields[c].width < old.fields[OldName(old, new, c)].width
              \/ \E c \in DOMAIN old.fields \ DOMAIN new.fields :
                    \A d \in DOMAIN new.fields : new.fields[d].from # c
              \/ \E c \in DOMAIN old.keys : c \notin DOMAIN new.keys \/ new.keys[c] # old.keys[c]
              \/ \E n \in DOMAIN old.indexes : n \notin DOMAIN new.indexes \/ new.indexes[n] # old.indexes[n]

\* The statements for one entity, up: columns, then indexes, then foreign keys.
\* The code goes through the columns in the order they are declared; renames, additions
\* and changes of different columns commute.
EntityUp(t) ==
    LET new == current[t] IN
    IF t \notin DOMAIN previous THEN <<[do |-> "create", table |-> t]>>
    ELSE LET old == previous[t]
             rename(c) == [do |-> "rename", table |-> t, from |-> OldName(old, new, c), column |-> c]
             add(c) == [do |-> "add", table |-> t, column |-> c]
             modify(c) == [do |-> "modify", table |-> t, column |-> c]
             index(n) == [do |-> "index", table |-> t, name |-> n]
             key(c) == [do |-> "key", table |-> t, column |-> c]
         IN  Each(Renamed(old, new), rename) \o Each(Added(old, new), add) \o Each(Wider(old, new), modify)
             \o Each(DOMAIN new.indexes \ DOMAIN old.indexes, index)
             \o Each(DOMAIN new.keys \ DOMAIN old.keys, key)

\* ... and down: foreign keys, then indexes, then columns. A MODIFY has no way down.
EntityDown(t) ==
    LET new == current[t] IN
    IF t \notin DOMAIN previous THEN <<[do |-> "drop", table |-> t]>>
    ELSE LET old == previous[t]
             unrename(c) == [do |-> "rename", table |-> t, from |-> c, column |-> OldName(old, new, c)]
             remove(c) == [do |-> "remove", table |-> t, column |-> c]
             unindex(n) == [do |-> "unindex", table |-> t, name |-> n]
             unkey(c) == [do |-> "unkey", table |-> t, column |-> c]
         IN  Each(DOMAIN new.keys \ DOMAIN old.keys, unkey)
             \o Each(DOMAIN new.indexes \ DOMAIN old.indexes, unindex)
             \o Each(Added(old, new), remove) \o Each(Renamed(old, new), unrename)

UpSQL == FlattenSeq([i \in DOMAIN orderEntities |-> EntityUp(orderEntities[i])])
DownSQL == FlattenSeq([i \in DOMAIN orderEntities |-> EntityDown(Reverse(orderEntities)[i])])

-----------------------------------------------------------------------------
\* External: an index may go unless it is the only one of a foreign key's column. (One
\* that MySQL made for the key itself it drops when the declared one is added.)
MayLose(e, n) ==
    /\ n \in DOMAIN e.indexes
    /\ e.indexes[n] \in DOMAIN e.keys =>
          \E m \in DOMAIN e.indexes \ {n} : e.indexes[m] = e.indexes[n]

\* External: the statements MySQL accepts.
Accepts(s) ==
    LET d == database
        e == d[s.table]
    IN  CASE s.do = "create" -> /\ s.table \notin DOMAIN d
                                /\ \A c \in DOMAIN current[s.table].keys : current[s.table].keys[c] \in DOMAIN d
          [] s.do = "drop" -> \A t \in DOMAIN d \ {s.table} : \A c \in DOMAIN d[t].keys : d[t].keys[c] # s.table
          [] s.do = "rename" -> s.from \in DOMAIN e.fields /\ s.column \notin DOMAIN e.fields
          [] s.do = "add" -> s.column \notin DOMAIN e.fields
          [] s.do = "modify" -> s.column \in DOMAIN e.fields
          [] s.do = "remove" -> /\ s.column \in DOMAIN e.fields \ DOMAIN e.keys
                                /\ \A n \in DOMAIN e.indexes : e.indexes[n] # s.column
          [] s.do = "index" -> s.name \notin DOMAIN e.indexes /\ current[s.table].indexes[s.name] \in DOMAIN e.fields
          [] s.do = "unindex" -> MayLose(e, s.name)
          [] s.do = "key" -> s.column \in DOMAIN e.fields \ DOMAIN e.keys /\ current[s.table].keys[s.column] \in DOMAIN d
          [] s.do = "unkey" -> s.column \in DOMAIN e.keys

Without(f, x) == [y \in DOMAIN f \ {x} |-> f[y]]
Put(f, x, v) == [y \in DOMAIN f \cup {x} |-> IF y = x THEN v ELSE f[y]]
Moved(from, to, c) == IF c = from THEN to ELSE c

\* External: what they do. A rename takes indexes and foreign keys along.
Effect(s) ==
    LET d == database
        e == d[s.table]
        new == Plain(current)[s.table]
        entity(v) == [d EXCEPT ![s.table] = v]
    IN  CASE s.do = "create" -> Put(d, s.table, new)
          [] s.do = "drop" -> Without(d, s.table)
          [] s.do = "rename" -> entity(
                [fields |-> Put(Without(e.fields, s.from), s.column, e.fields[s.from]),
                 indexes |-> [n \in DOMAIN e.indexes |-> Moved(s.from, s.column, e.indexes[n])],
                 keys |-> [c \in {Moved(s.from, s.column, k) : k \in DOMAIN e.keys} |->
                              e.keys[Moved(s.column, s.from, c)]]])
          [] s.do \in {"add", "modify"} -> entity([e EXCEPT !.fields = Put(@, s.column, new.fields[s.column])])
          [] s.do = "remove" -> entity([e EXCEPT !.fields = Without(@, s.column)])
          [] s.do = "index" -> entity([e EXCEPT !.indexes = Put(@, s.name, new.indexes[s.name])])
          [] s.do = "unindex" -> entity([e EXCEPT !.indexes = Without(@, s.name)])
          [] s.do = "key" -> entity([e EXCEPT !.keys = Put(@, s.column, new.keys[s.column])])
          [] s.do = "unkey" -> entity([e EXCEPT !.keys = Without(@, s.column)])

\* Plan and NewDraft: a destructive plan is refused.
NewDraft ==
    /\ phase = "plan"
    /\ phase' = IF Destructive THEN "done" ELSE "up"
    /\ todo' = IF Destructive THEN <<>> ELSE UpSQL
    /\ UNCHANGED <<previous, declared, current, database>>

Execute ==
    /\ todo # <<>>
    /\ Accepts(Head(todo))
    /\ database' = Effect(Head(todo))
    /\ todo' = Tail(todo)
    /\ UNCHANGED <<previous, declared, current, phase>>

\* The migration is taken back.
Revert ==
    /\ phase = "up" /\ todo = <<>>
    /\ phase' = "down"
    /\ todo' = DownSQL
    /\ UNCHANGED <<previous, declared, current, database>>

PlanNext == NewDraft \/ Execute \/ Revert

PlanSpec == PlanInit /\ [][PlanNext]_planVars

-----------------------------------------------------------------------------
PlanTypeOK ==
    /\ DOMAIN previous \subseteq Tables /\ DOMAIN current = Tables
    /\ DOMAIN database \subseteq Tables
    /\ phase \in {"plan", "up", "down", "done"}

\* Where rename_from names a column of the snapshot, exactly one declared field is
\* made of it: it is not declared beside its new name, not renamed twice, and not
\* left behind by a rename that was made long ago.
RenamesAreClean ==
    \A t \in DOMAIN previous :
        LET old == previous[t]
            new == current[t]
        IN  \A a \in DOMAIN old.fields :
                (\E c \in DOMAIN new.fields : new.fields[c].from = a) =>
                    Cardinality({c \in DOMAIN new.fields : OldName(old, new, c) = a}) = 1

\* No column gets its first index when it has its foreign key already.
KeysHaveTheirIndex ==
    \A t \in DOMAIN previous : \A n \in DOMAIN current[t].indexes \ DOMAIN previous[t].indexes :
        current[t].indexes[n] \in DOMAIN previous[t].keys =>
            \E m \in DOMAIN previous[t].indexes : previous[t].indexes[m] = current[t].indexes[n]

Columnwise(schema) == [t \in DOMAIN schema |-> [schema[t] EXCEPT !.fields = DOMAIN schema[t].fields]]

\* A plan works: where the renames are clean, MySQL takes every statement in the
\* order the plan gives it, both ways (down where keys have their index); up ends at
\* the declared schema, and down at the snapshot but for the widths, which it does
\* not take back.
PlanWorks ==
    RenamesAreClean =>
        /\ todo # <<>> /\ (phase = "down" => KeysHaveTheirIndex) => Accepts(Head(todo))
        /\ phase = "up" /\ todo = <<>> => database = Plain(current)
        /\ phase = "down" /\ todo = <<>> => Columnwise(database) = Columnwise(previous)

\* Destructive changes must be confirmed: a plan that reports none leaves no
\* column in the database that the schema does not declare.
DropsAreConfirmed ==
    phase = "up" /\ todo = <<>> =>
        \A t \in DOMAIN current : DOMAIN database[t].fields \subseteq DOMAIN current[t].fields
=============================================================================
