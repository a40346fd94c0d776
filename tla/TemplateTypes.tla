---------------------------- MODULE TemplateTypes ----------------------------
(***************************************************************************)
(* template/template_types.h: JSON values and the schema of a template.    *)
(*                                                                         *)
(* A JSON value is [t, v, kids].  `kids` are the members of an object or   *)
(* the items of an array by key; `v` is the text of a string or of a       *)
(* scalar, as TemplateRenderer says.  A schema is a sequence of [name,     *)
(* type, required, defaultValue], `type` being the word of the request.    *)
(***************************************************************************)
EXTENDS Naturals, Sequences

Json(t, v, kids) == [t |-> t, v |-> v, kids |-> kids]
NoKids == [k \in {} |-> {}]
Scalar(t, word) == Json(t, << <<word>> >>, NoKids)
Null == Scalar("null", "null")

\* The lower-cased copy is made and not used.
StringToParamType(s) == IF s \in {"string", "int", "bool", "json"} THEN s ELSE "string"

make_param_schema(params) == [i \in DOMAIN params |->
    [params[i] EXCEPT !.type = StringToParamType(@)]]

\* What param_schema_to_json writes is what make_param_schema reads.
param_schema_to_json(schema) == schema
=============================================================================
