----------------------------- MODULE MCTemplates -----------------------------
(***************************************************************************)
(* Two requests at a time on one id, templates with placeholders in text,  *)
(* typed injection, nested fields and defaults, and parameters that hold   *)
(* placeholders themselves.                                                *)
(***************************************************************************)
EXTENDS Templates

Word(w) == Str(<< <<w>> >>)
Def(n, type, req, d) == [name |-> n, type |-> type, required |-> req, defaultValue |-> d]

\* A shell task: its command holds {{cmd}}, its retries are injected from {{opt.n}}.
Shell == Object("id" :> Word("t") @@ "exec_type" :> Word("Shell")
                @@ "exec_command" :> Str(<< <<"run ">>, Ref(<<"cmd">>) >>))
Inject(path) == Object("$param" :> Str(<<path>>))
Nested == Object("task" :> Object("id" :> Str(<<Ref(<<"cmd">>)>>)
                                  @@ "retry_count" :> Inject(<<"opt", "n">>)))
Dag == Object("tasks" :> Json("array", <<>>, "0" :> Shell @@ "1" :> Inject(<<"opt">>)))

McPosted == <<
    [name |-> "a", body |-> Shell, schema |-> <<Def("cmd", "string", FALSE, Word("ls"))>>],
    [name |-> "b", body |-> Nested,
     schema |-> <<Def("cmd", "String", TRUE, Null), Def("opt", "json", FALSE, Null)>>],
    [name |-> "c", body |-> Dag,
     schema |-> <<Def("cmd", "string", TRUE, Null),
                  Def("opt", "json", FALSE, Str(<<Ref(<<"cmd">>)>>))>>],
    [name |-> "", body |-> Shell, schema |-> <<>>]>>

Opt(v) == "opt" :> Object("n" :> v)
McInputs == <<
    NoKids,
    "cmd" :> Str(<<Ref(<<"opt", "n">>)>>),
    "cmd" :> Scalar("int", "3"),
    ("cmd" :> Word("x")) @@ Opt(Scalar("int", "2")),
    ("cmd" :> Word("x")) @@ Opt(Word("two"))>>

McRecords == {[execType |-> None, schema |-> <<>>],
              [execType |-> "Shell", schema |-> <<Def("cmd", "Int", TRUE, Null)>>]}
=============================================================================
