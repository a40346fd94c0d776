------------------------------ MODULE Templates ------------------------------
(***************************************************************************)
(* The template store with the renderer: what POST /template/render        *)
(* answers.  A configuration gives the renderer of TemplateStore as the    *)
(* value of its constant Render.                                           *)
(***************************************************************************)
EXTENDS TemplateStore, TemplateRenderer

ASSUME RenderAssumption ==
    \A n \in DOMAIN Posted, i \in DOMAIN Inputs :
        Render(Template(n), Inputs[i]) = render(Template(n), Inputs[i])

-----------------------------------------------------------------------------
\* The template never needs a parameter that may be left out.
Covered(t) == \A path \in Refs(t.body) : \E i \in DOMAIN t.schema :
    /\ t.schema[i].name = Head(path) /\ Len(path) = 1
    /\ t.schema[i].required \/ t.schema[i].defaultValue # Null

(* TemplateRenderer::render: what is substituted is not looked into, so a  *)
(* placeholder that is left comes from a parameter; and a template whose   *)
(* every placeholder has a required parameter or a default is never        *)
(* refused for a missing one, whatever the request leaves out.             *)
RenderSound == \A c \in Clients :
    LET a == answer[c]  t == Template(a.val)  given == Inputs[a.input] IN
    a.k = "render" /\ a.val # None =>
        /\ a.out.ok => Refs(a.out.rendered) \subseteq
               UNION ({Refs(given[n]) : n \in DOMAIN given}
                      \cup {Refs(t.schema[i].defaultValue) : i \in DOMAIN t.schema})
        /\ Covered(t) => a.out.error # "missing"
=============================================================================
