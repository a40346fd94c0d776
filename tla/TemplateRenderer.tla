-------------------------- MODULE TemplateRenderer --------------------------
(***************************************************************************)
(* template/template_validator.cpp and template_renderer.cpp: the check of *)
(* the parameters against the schema of a template, and the substitution   *)
(* of the parameters in its JSON.                                          *)
(*                                                                         *)
(* The text of a string or of a scalar is a sequence of pieces: plain text *)
(* as the sequence of its words between dots, or a placeholder {{p.q}} as  *)
(* the sequence that starts with Open.  A placeholder that is not closed   *)
(* is plain text.  Numbers are integers, and the text of an object or      *)
(* array is not looked into.                                               *)
(***************************************************************************)
EXTENDS TemplateTypes, SequencesExt

Open == "{{"
Str(pieces) == Json("string", pieces, NoKids)
Object(kids) == Json("object", <<>>, kids)
Ref(path) == <<Open>> \o path

\* The outcome of a lookup or of a rendering that sets `err`.
Missing == Json("missing", <<>>, NoKids)

IsRef(piece) == Head(piece) = Open
Member(n, k) == n.t = "object" /\ k \in DOMAIN n.kids

-----------------------------------------------------------------------------
typeMatches_(type, v) == type = "json" \/ v.t = type

Required(schema, input) ==
    {i \in DOMAIN schema : schema[i].required /\ schema[i].name \notin DOMAIN input}
Mismatched(schema, input) ==
    {i \in DOMAIN schema : /\ schema[i].name \in DOMAIN input
                           /\ ~typeMatches_(schema[i].type, input[schema[i].name])}
\* The parameters that take their default, with the first definition of a name.
Defaulted(schema, input) ==
    {schema[i].name : i \in {j \in DOMAIN schema : /\ ~schema[j].required
                                                   /\ schema[j].name \notin DOMAIN input
                                                   /\ schema[j].defaultValue # Null}}
DefaultOf(schema, name) ==
    LET i == CHOOSE i \in DOMAIN schema :
                 /\ schema[i].name = name /\ ~schema[i].required /\ schema[i].defaultValue # Null
                 /\ \A j \in 1..(i - 1) : schema[j].name = name =>
                        (schema[j].required \/ schema[j].defaultValue = Null)
    IN  schema[i].defaultValue

\* A default is not checked against its type.
validateAndResolve_NoDefault(schema, input) ==
    [ok |-> Required(schema, input) \cup Mismatched(schema, input) = {}, resolved |-> input]
validateAndResolve(schema, input) ==
    [ok       |-> Required(schema, input) \cup Mismatched(schema, input) = {},
     resolved |-> input @@ [n \in Defaulted(schema, input) |-> DefaultOf(schema, n)]]

-----------------------------------------------------------------------------
resolveParamPath_(resolved, path) ==
    IF Head(path) \notin DOMAIN resolved THEN Missing
    ELSE FoldLeft(LAMBDA cur, k : IF Member(cur, k) THEN cur.kids[k] ELSE Missing,
                  resolved[Head(path)], Tail(path))

isParamInject_(n) == /\ n.t = "object" /\ DOMAIN n.kids = {"$param"}
                     /\ n.kids["$param"].t = "string"

paramToString_(v) == IF v.t \in {"object", "array"} THEN << <<"dump">> >> ELSE v.v

\* What is put in for a placeholder is not scanned again.
renderString_(n, resolved) ==
    LET refs == {i \in DOMAIN n.v : IsRef(n.v[i])}
        value(i) == resolveParamPath_(resolved, Tail(n.v[i]))
    IN  IF \E i \in refs : value(i) = Missing THEN Missing
        ELSE Str(FlattenSeq([i \in DOMAIN n.v |->
                     IF i \in refs THEN paramToString_(value(i)) ELSE <<n.v[i]>>]))

RECURSIVE renderNode_(_, _)
renderNode_(n, resolved) ==
    IF isParamInject_(n) THEN resolveParamPath_(resolved, n.kids["$param"].v[1])
    ELSE IF n.t \in {"object", "array"}
         THEN LET kids == [k \in DOMAIN n.kids |-> renderNode_(n.kids[k], resolved)]
              IN  IF \E k \in DOMAIN kids : kids[k] = Missing THEN Missing
                  ELSE [n EXCEPT !.kids = kids]
    ELSE IF n.t = "string" THEN renderString_(n, resolved)
    ELSE n

-----------------------------------------------------------------------------
(* A rendered template is a DAG, which is not looked into, or one task.    *)

TaskOf(n) == IF Member(n, "task") /\ n.kids["task"].t = "object" THEN n.kids["task"] ELSE n

FieldTypes == [id |-> {"string"}, name |-> {"string"}, exec_command |-> {"string"},
               retry_count |-> {"int", "bool"}, capture_output |-> {"bool"}]
\* parseTaskConfigFromReq throws for a field of another type, and for what is no object.
Parses(n) == /\ n.t = "object"
             /\ \A f \in DOMAIN FieldTypes : Member(n, f) => n.kids[f].t \in FieldTypes[f]

ExecTypes == {"local", "remote", "script", "http", "shell", "Shell", "LOCAL"}
Runnable(n) == LET jt == TaskOf(n) IN
    /\ Member(jt, "exec_type") => /\ jt.kids["exec_type"].t = "string"
                                  /\ jt.kids["exec_type"].v \in {<< <<e>> >> : e \in ExecTypes}
    /\ Parses(jt)
    /\ Member(jt, "id") /\ jt.kids["id"].v \notin {<<>>, << <<"">> >>}

render(t, input) ==
    LET vr == validateAndResolve(t.schema, input)
        n  == renderNode_(t.body, vr.resolved)
        fail(why, r) == [ok |-> FALSE, error |-> why, rendered |-> r]
    IN  IF ~vr.ok THEN fail("params", Null)
        ELSE IF n = Missing THEN fail("missing", Null)
        ELSE IF (Member(n, "tasks") /\ n.kids["tasks"].t = "array") \/ Runnable(n)
             THEN [ok |-> TRUE, error |-> "", rendered |-> n]
        ELSE fail("task", n)

-----------------------------------------------------------------------------
(* For the properties: the placeholders of a value, as a set of paths.     *)
RECURSIVE Refs(_)
Refs(n) ==
    IF isParamInject_(n) THEN {n.kids["$param"].v[1]}
    ELSE {Tail(n.v[i]) : i \in {j \in DOMAIN n.v : IsRef(n.v[j])}}
         \cup UNION {Refs(n.kids[k]) : k \in DOMAIN n.kids}
=============================================================================
