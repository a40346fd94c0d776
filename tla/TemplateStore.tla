---------------------------- MODULE TemplateStore ----------------------------
(***************************************************************************)
(* template/template_store.cpp with handlers/template_handler.cpp, and     *)
(* template/task_template_store.cpp with task_template_handler.cpp.        *)
(*                                                                         *)
(* The first store keeps its templates in a table and, under a mutex, in a *)
(* map.  A request works on the two one after the other, without a lock    *)
(* around both; requests run on the threads of the HTTP server.  The       *)
(* second store has a table only, so that each of its requests is one      *)
(* statement.  Running a template is in DagService.                        *)
(*                                                                         *)
(* A statement that fails changes nothing and ends its request; a SELECT   *)
(* that fails is answered like one that finds no row.                      *)
(***************************************************************************)
EXTENDS TemplateTypes, FiniteSets

CONSTANTS
    Clients,      \* the requests that may be under way at a time
    Ids,          \* template ids
    Posted,       \* the templates clients post, as a function, [name, schema, body]
    Inputs,       \* the parameters of a rendering, as a function
    RecordsSent,  \* what clients post to the second store, [execType, schema]
    MaxRequests,  \* bound: requests
    MaxRestarts,  \* bound: restarts of the server
    None,
    Render(_, _)  \* TemplateRenderer::render of a template with parameters

ASSUME NoneAssumption == None \notin DOMAIN Posted

VARIABLES
    table,    \* task_templates, by template_id: which of Posted
    cache,    \* TemplateStore::_map
    records,  \* task_template, by template_id
    op,       \* the request of a client, between its accesses to the two
    answer,   \* what the client was told last
    requests, restarts,
    seen,     \* history: the templates that were current since a request began
    torn      \* history: ids whose cached template was read before a removal

storeVars == <<table, cache, records, op, answer, requests, restarts, seen, torn>>

Idle == [k |-> "idle", pc |-> "-", id |-> None, val |-> None, input |-> None, late |-> FALSE]
NoAnswer == [k |-> "none", val |-> None, input |-> None, out |-> None, current |-> TRUE]

StoreInit ==
    /\ table = [i \in Ids |-> None] /\ cache = table /\ records = table
    /\ op = [c \in Clients |-> Idle] /\ answer = [c \in Clients |-> NoAnswer]
    /\ requests = 0 /\ restarts = 0
    /\ seen = [c \in Clients |-> [i \in Ids |-> {}]] /\ torn = {}

-----------------------------------------------------------------------------
(* A template is current while it is in the table and until the request    *)
(* that removes it is answered; and, which is what the code lets happen,   *)
(* while the map has it from a request that met the row before a DELETE    *)
(* and the map after the erase.                                            *)
Current(id) == {table[id]} \cup (IF id \in torn THEN {cache[id]} ELSE {})
    \cup {op[c].val : c \in {d \in Clients : op[d].pc = "erase" /\ op[d].id = id}}

Begin(c) == op[c] = Idle /\ requests < MaxRequests /\ requests' = requests + 1
Rest == UNCHANGED <<records, restarts>>

Go(c, k, pc, id, val, input) ==
    /\ op' = [op EXCEPT ![c] = [k |-> k, pc |-> pc, id |-> id, val |-> val,
                                input |-> input, late |-> FALSE]]
    /\ answer' = [answer EXCEPT ![c] = NoAnswer]
Reply(c, a) == op' = [op EXCEPT ![c] = Idle] /\ answer' = [answer EXCEPT ![c] = a]

\* The body of a request: a template needs a name and a body.
Template(n) == [schema |-> make_param_schema(Posted[n].schema), body |-> Posted[n].body]
Complete(n) == Posted[n].name # "" /\ Posted[n].body # Null

\* POST /template/render with a template that was found or not found.
Rendered(val, input) ==
    [NoAnswer EXCEPT !.k = "render", !.val = val, !.input = input,
                     !.out = IF val = None THEN None ELSE Render(Template(val), Inputs[input])]

\* GET /template/{id}, or a rendering.
Shown(k, val, input) ==
    IF k = "render" THEN Rendered(val, input) ELSE [NoAnswer EXCEPT !.k = "get"]
Answer(c, k, id, val, input) ==
    [Shown(k, val, input) EXCEPT !.current = val \in Current(id) \cup seen[c][id]]

\* The INSERT fails for an id that is in the table.
create(c, id, p) ==
    /\ IF table[id] = None
       THEN /\ table' = [table EXCEPT ![id] = p]
            /\ Go(c, "create", "cache", id, p, None)
       ELSE Reply(c, NoAnswer) /\ UNCHANGED table
    /\ UNCHANGED <<cache, torn>> /\ Rest

post(c, id, p) ==
    /\ Begin(c)
    /\ IF Complete(p) THEN create(c, id, p)
       ELSE Reply(c, NoAnswer) /\ UNCHANGED <<table, cache, torn>> /\ Rest

\* get of the store, for GET /template/{id} and POST /template/render.
get(c, k, id, input) ==
    /\ Begin(c)
    /\ IF cache[id] # None THEN Reply(c, Answer(c, k, id, cache[id], input))
                           ELSE Go(c, k, "select", id, None, input)
    /\ UNCHANGED <<table, cache, torn>> /\ Rest

Select(c) ==
    /\ op[c].pc = "select"
    /\ LET id == op[c].id IN
       IF table[id] = None
       THEN Reply(c, Answer(c, op[c].k, id, None, op[c].input))
       ELSE /\ op' = [op EXCEPT ![c].pc = "cache", ![c].val = table[id]]
            /\ UNCHANGED answer
    /\ UNCHANGED <<table, cache, requests, torn>> /\ Rest

SelectFails(c) ==
    /\ op[c].pc = "select"
    /\ Reply(c, Shown(op[c].k, None, op[c].input))
    /\ UNCHANGED <<table, cache, requests, torn>> /\ Rest

\* _map.insert does not replace what is there.
Cache(c) ==
    /\ op[c].pc = "cache"
    /\ LET id == op[c].id IN
       /\ cache' = [cache EXCEPT ![id] = IF @ = None THEN op[c].val ELSE @]
       /\ torn' = IF cache[id] = None /\ op[c].late THEN torn \cup {id} ELSE torn
       /\ Reply(c, IF op[c].k = "create" THEN NoAnswer
                   ELSE Answer(c, op[c].k, id, op[c].val, op[c].input))
    /\ UNCHANGED <<table, requests>> /\ Rest

list(c) ==
    /\ Begin(c)
    /\ Go(c, "list", "merge", None, table, None)
    /\ UNCHANGED <<table, cache, torn>> /\ Rest

\* GET /templates
Listed(c, rows) == [NoAnswer EXCEPT
    !.k = "list", !.current = \A i \in Ids : rows[i] \in Current(i) \cup seen[c][i]]

\* Templates that only the map has are listed too.
Merge(c) ==
    /\ op[c].pc = "merge"
    /\ Reply(c, Listed(c, [i \in Ids |-> IF op[c].val[i] = None THEN cache[i]
                                        ELSE op[c].val[i]]))
    /\ UNCHANGED <<table, cache, requests, torn>> /\ Rest

\* The list is then what the map has.
ListFails(c) ==
    /\ Begin(c)
    /\ Reply(c, [NoAnswer EXCEPT
          !.k = "list", !.current = \A i \in Ids : cache[i] # None => cache[i] \in Current(i)])
    /\ UNCHANGED <<table, cache, torn>> /\ Rest

\* A DELETE that matches no row is done all the same.
remove(c, id) ==
    /\ table' = [table EXCEPT ![id] = None]
    /\ op' = [d \in Clients |->
           IF d = c THEN [Idle EXCEPT !.k = "remove", !.pc = "erase", !.id = id, !.val = table[id]]
           ELSE IF op[d].id = id /\ op[d].pc = "cache" THEN [op[d] EXCEPT !.late = TRUE]
           ELSE op[d]]
    /\ answer' = [answer EXCEPT ![c] = NoAnswer]
    /\ UNCHANGED <<cache, torn>> /\ Rest

delete_(c, id) == Begin(c) /\ remove(c, id)

Erase_Forgotten(c) ==
    /\ op[c].pc = "erase"
    /\ Reply(c, NoAnswer)
    /\ UNCHANGED <<table, cache, torn, requests>> /\ Rest
Erase(c) ==
    /\ op[c].pc = "erase"
    /\ cache' = [cache EXCEPT ![op[c].id] = None] /\ torn' = torn \ {op[c].id}
    /\ Reply(c, NoAnswer)
    /\ UNCHANGED <<table, requests>> /\ Rest

Restart ==
    /\ restarts < MaxRestarts /\ restarts' = restarts + 1
    /\ cache' = [i \in Ids |-> None] /\ torn' = {}
    /\ op' = [c \in Clients |-> Idle] /\ answer' = [c \in Clients |-> NoAnswer]
    /\ UNCHANGED <<table, records, requests>>

-----------------------------------------------------------------------------
(* The second store.  What a request leaves out has a default.             *)
TaskTemplateRecord(r) ==
    [execType |-> IF r.execType = None THEN "Local" ELSE r.execType,
     schema   |-> make_param_schema(r.schema)]

record_to_json(r) == [execType |-> r.execType, schema |-> param_schema_to_json(r.schema)]

insertRecord(id, r) == records' = [records EXCEPT ![id] = IF @ = None THEN r ELSE @]
getRecord(id) == IF records[id] = None THEN None ELSE record_to_json(records[id])
listRecords == [i \in Ids |-> getRecord(i)]
listByType(type) == [i \in Ids |->
    IF records[i] # None /\ records[i].execType = type THEN getRecord(i) ELSE None]
removeRecord(id) == records' = [records EXCEPT ![id] = None]

Other(c) == Begin(c) /\ UNCHANGED <<table, cache, op, restarts, torn>>
Told(c, k, val) == answer' = [answer EXCEPT ![c] = [NoAnswer EXCEPT !.k = k, !.out = val]]

record_create(c, id, r) ==
    Other(c) /\ insertRecord(id, TaskTemplateRecord(r)) /\ Told(c, "none", None)
record_get(c, id) == Other(c) /\ UNCHANGED records /\ Told(c, "record", getRecord(id))
\* Without a type all of them.
record_list(c, type) ==
    /\ Other(c) /\ UNCHANGED records
    /\ Told(c, "records", IF type = None THEN listRecords ELSE listByType(type))
record_delete(c, id) == Other(c) /\ removeRecord(id) /\ Told(c, "none", None)

-----------------------------------------------------------------------------
Step ==
    \/ \E c \in Clients, id \in Ids :
          \/ \E p \in DOMAIN Posted : post(c, id, p)
          \/ get(c, "get", id, None)
          \/ \E i \in DOMAIN Inputs : get(c, "render", id, i)
          \/ delete_(c, id)
          \/ \E r \in RecordsSent : record_create(c, id, r)
          \/ record_get(c, id)
          \/ record_delete(c, id)
    \/ \E c \in Clients : \/ Select(c) \/ Cache(c) \/ Erase(c) \/ list(c) \/ Merge(c)
                          \/ SelectFails(c) \/ ListFails(c)
                          \/ \E t \in {None, "Local"} : record_list(c, t)
    \/ Restart

\* The history of a request goes from the state it begins in to its answer.
Watch == seen' = [c \in Clients |-> [i \in Ids |->
    IF op'[c] = Idle THEN {} ELSE seen[c][i] \cup Current(i) \cup Current(i)']]

StoreNext == Step /\ Watch
StoreSpec == StoreInit /\ [][StoreNext]_storeVars

-----------------------------------------------------------------------------
(* A client is never shown a template of an id that was not current at     *)
(* some moment of its request, by itself or in the list, nor told that     *)
(* there is none while there was one all the time, unless the SELECT of    *)
(* its request failed.  What else the code excepts is in Current:          *)
(* TemplateStore::create, get and remove lock only the map, so a template  *)
(* that was read before a removal may stay in it until the next removal or *)
(* restart.                                                                *)
AnswersCurrent == \A c \in Clients : answer[c].current
=============================================================================
