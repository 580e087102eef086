------------------------------- MODULE Schema -------------------------------
(***************************************************************************)
(* The vocabulary of the alembic migrations: what a PostgreSQL schema is   *)
(* made of, and what the DDL statements of alembic's op.* calls do to it.  *)
(* A schema is a set of objects; a revision is a sequence of statements;   *)
(* a statement that does not apply aborts the migration's transaction.     *)
(***************************************************************************)
LOCAL Lists == INSTANCE SequencesExt

Object(kind, table, name, on) ==
  [kind |-> kind, table |-> table, name |-> name, on |-> on]

(***************************************************************************)
(* The objects.  "on" is what an object refers to: the columns of an index *)
(* or unique constraint, the enum type of a column, the table of a foreign *)
(* key.  A "required" mark on a column says NOT NULL without a server      *)
(* default: an INSERT that leaves the column out is refused.               *)
(***************************************************************************)
Required(t, cs) == {Object("column", t, c, {}) : c \in cs}
                       \union {Object("required", t, c, {}) : c \in cs}
Defaulted(t, cs) == {Object("column", t, c, {}) : c \in cs}
Typed(t, c, type) == {Object("column", t, c, {type})}
Mandatory(t, c) == {Object("required", t, c, {})}
Index(t, name, cs) == {Object("index", t, name, cs)}
Unique(t, name, cs) == {Object("unique", t, name, cs)}
Check(t, names) == {Object("check", t, n, {}) : n \in names}
ForeignKey(t, name, referent) == {Object("fk", t, name, {referent})}
Enum(type, labels) == {Object("type", "", type, {})}
                         \union {Object("label", type, l, {}) : l \in labels}

\* A table with its surrogate key and the two timestamps every model inherits,
\* all three filled in by the server.
Timestamps == {"created_at", "updated_at"}
Table(t) == {Object("table", t, t, {})} \union Defaulted(t, {"id"} \union Timestamps)
BareTable(t) == {Object("table", t, t, {})} \union Defaulted(t, {"id"})
\* The same with a slug for a key, which the INSERT has to give.
SlugTable(t) == {Object("table", t, t, {})} \union Required(t, {"id"})
                     \union Defaulted(t, Timestamps)

Tables(schema) == {o.name : o \in {p \in schema : p.kind = "table"}}
Types(schema) == {o.name : o \in {p \in schema : p.kind = "type"}}
OfKind(schema, kinds) == {o \in schema : o.kind \in kinds}

-----------------------------------------------------------------------------
\* What a statement calls an object; and what must be unique: tables and indexes
\* share one name space, the other objects are named within their table or type.
Handle(o) == <<o.kind, o.table, o.name>>
Handles(objects) == {Handle(o) : o \in objects}
NameOf(o) == IF o.kind \in {"table", "index", "unique"} THEN <<"relation", "", o.name>>
             ELSE Handle(o)

\* What an object refers to: columns, a type, a table.
Referred(o) ==
  CASE o.kind \in {"index", "unique"} -> {<<"column", o.table, c>> : c \in o.on}
    [] o.kind = "fk"     -> {<<"table", r, r>> : r \in o.on \union {o.table}}
    [] o.kind = "column" -> {<<"type", "", t>> : t \in o.on} \union {<<"table", o.table, o.table>>}
    [] o.kind \in {"check", "required"} -> {<<"table", o.table, o.table>>}
    [] OTHER -> {}

\* What else disappears with an object: all of a table, the labels of a type,
\* the indexes over a column.
With(o, schema) ==
  CASE o.kind = "table"  -> {p \in schema : p.table = o.name}
    [] o.kind = "type"   -> {o} \union {p \in schema : p.kind = "label" /\ p.table = o.name}
    [] o.kind = "column" ->
         {o} \union {p \in schema : /\ p.table = o.table
                                    /\ \/ p.kind = "required" /\ p.name = o.name
                                       \/ p.kind \in {"index", "unique"} /\ o.name \in p.on}
    [] OTHER -> {o}

\* A table another table's foreign key points to, or a type a column has, is
\* not dropped without CASCADE.
Held(o, schema) ==
  \/ o.kind = "table" /\ \E p \in schema : p.kind = "fk" /\ p.table # o.name /\ o.name \in p.on
  \/ o.kind = "type"  /\ \E p \in schema : p.kind = "column" /\ o.name \in p.on

-----------------------------------------------------------------------------
\* The statements.  Neighbouring create_index or add_column calls are one
\* statement here.  Dropping names the objects: their columns need not be said.
Create(objects) == [does |-> "create", objects |-> objects]
DropNamed(t, kind, names) ==
  [does |-> "drop", objects |-> {<<kind, t, n>> : n \in names}]
DropTable(t) == DropNamed(t, "table", {t})
DropColumns(t, cs) == DropNamed(t, "column", cs)
DropForeignKey(t, n) == DropNamed(t, "fk", {n})
\* Enum(...).drop(checkfirst=True), and DROP TYPE IF EXISTS ... CASCADE.
DropType(type) == [DropNamed("", "type", {type}) EXCEPT !.does = "drop if there"]
DropTypeCascade(type) == [DropNamed("", "type", {type}) EXCEPT !.does = "cascade"]

Meant(s, schema) == {o \in schema : Handle(o) \in s.objects}

\* A column that must be given cannot be added to a table with rows in it.
FilledWithout(s, schema, filled) ==
  \E o \in s.objects : o.kind = "required" /\ o.table \in filled \intersect Tables(schema)

Called(names, objects) == {o \in objects : o.name \in names}

Applies(s, schema, filled) ==
  CASE s.does = "create" ->
         LET same     == Called({o.name : o \in s.objects}, schema)
             referred == UNION {Referred(o) : o \in s.objects}
             there    == Called({r[3] : r \in referred}, schema \union s.objects)
         IN /\ {NameOf(o) : o \in s.objects} \intersect {NameOf(o) : o \in same} = {}
            /\ referred \subseteq Handles(there)
            /\ ~FilledWithout(s, schema, filled)
    [] s.does = "drop" ->
         /\ s.objects \subseteq Handles(schema)
         /\ \A o \in Meant(s, schema) : ~Held(o, schema)
    [] s.does = "drop if there" -> \A o \in Meant(s, schema) : ~Held(o, schema)
    [] OTHER -> TRUE

After(s, schema) ==
  CASE s.does = "create" -> schema \union s.objects
    [] s.does = "cascade" ->
         schema \ UNION {With(o, schema) \union {p \in schema : o.name \in p.on}
                            : o \in Meant(s, schema)}
    [] OTHER -> schema \ UNION {With(o, schema) : o \in Meant(s, schema)}

\* The statements in order, until one does not apply.
Execute(statements, start, filled) ==
  Lists!FoldLeft(LAMBDA done, s : IF done.ok /\ Applies(s, done.schema, filled)
                                  THEN [done EXCEPT !.schema = After(s, @)]
                                  ELSE [done EXCEPT !.ok = FALSE],
                 start, statements)
=============================================================================
