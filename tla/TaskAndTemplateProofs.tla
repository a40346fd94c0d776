----------------------- MODULE TaskAndTemplateProofs -----------------------
(***************************************************************************)
(* Proofs about the two ends of a task, which share no state.  First the   *)
(* template it may be made from: TemplateStore, for any number of requests *)
(* and every renderer.  Then its run: TaskRunner, for every set of retry   *)
(* counts, with the bound on the attempts, and that retries, signals,      *)
(* children and the watchdog are accounted for.                            *)
(***************************************************************************)
EXTENDS TemplateStore, TaskRunner, TLAPS

(* Where a request stands: what it holds is a template, or the whole table *)
(* for the list.                                                           *)
Kept    == DOMAIN Posted \cup {None}
Request == [k : {"idle", "create", "get", "render", "list", "remove"},
            pc : {"-", "cache", "select", "merge", "erase"},
            id : Ids \cup {None}, val : Kept \cup [Ids -> Kept],
            input : DOMAIN Inputs \cup {None}, late : BOOLEAN]

StoreTypeOK ==
    /\ table \in [Ids -> Kept] /\ cache \in [Ids -> Kept]
    /\ op \in [Clients -> Request]
    /\ \A c \in Clients :
          /\ op[c].pc \in {"cache", "select", "erase"} => op[c].id \in Ids
          /\ op[c].pc = "select" => op[c].k \in {"get", "render"}
          /\ op[c].pc = "cache" => op[c].k \in {"create", "get", "render"} /\ op[c].val \in Kept
    /\ DOMAIN answer = Clients

(* A request that is under way has seen what is current, and what it will  *)
(* answer from was current since it began.                                 *)
SeenInv == \A c \in Clients : op[c] # Idle => \A i \in Ids : Current(i) \subseteq seen[c][i]
HeldInv == \A c \in Clients :
    /\ op[c].pc = "cache" => op[c].val \in seen[c][op[c].id]
    /\ op[c].pc = "merge" => \A i \in Ids : op[c].val[i] \in seen[c][i]

(* A template on its way into the map is the one in the table, unless its  *)
(* row was removed meanwhile; and what is in the map is current.           *)
FreshInv == \A c \in Clients : op[c].pc = "cache" =>
    op[c].val # None /\ (op[c].late \/ table[op[c].id] = op[c].val)
CacheInv == \A i \in Ids : cache[i] # None => cache[i] \in Current(i)

StoreInv == StoreTypeOK /\ SeenInv /\ HeldInv /\ FreshInv /\ CacheInv /\ AnswersCurrent

LEMMA IdleFacts ==
  /\ Idle \in Request /\ Idle.pc = "-"
  /\ \A r \in Request : r.pc # "-" => r # Idle
BY DEF Idle, Request, Kept

LEMMA CurrentFacts ==
  /\ \A x : \A i \in Ids : x \in Current(i) <=>
        \/ x = table[i] \/ (i \in torn /\ x = cache[i])
        \/ \E c \in Clients : op[c].pc = "erase" /\ op[c].id = i /\ x = op[c].val
  /\ \A x : \A i \in Ids : x \in Current(i)' <=>
        \/ x = table'[i] \/ (i \in torn' /\ x = cache'[i])
        \/ \E c \in Clients : op'[c].pc = "erase" /\ op'[c].id = i /\ x = op'[c].val
BY DEF Current

(* What Watch keeps for the requests that go on. *)
LEMMA Watched ==
  ASSUME Watch
  PROVE  \A c \in Clients, i \in Ids : op'[c] # Idle =>
            /\ seen[c][i] \subseteq seen'[c][i]
            /\ Current(i) \subseteq seen'[c][i] /\ Current(i)' \subseteq seen'[c][i]
BY DEF Watch

(* A request ends with an answer, or goes on to its next access. *)
LEMMA Ends ==
  ASSUME StoreTypeOK, AnswersCurrent, NEW c \in Clients, NEW a, a.current, Reply(c, a)
  PROVE  /\ op' \in [Clients -> Request] /\ DOMAIN answer' = Clients /\ AnswersCurrent'
         /\ op'[c] = Idle /\ \A d \in Clients : d # c => op'[d] = op[d]
<1>1. op \in [Clients -> Request] /\ DOMAIN answer = Clients
  BY DEF StoreTypeOK
<1>2. op' = [op EXCEPT ![c] = Idle] /\ answer' = [answer EXCEPT ![c] = a]
  BY DEF Reply
<1>3. \A d \in Clients : answer'[d] = IF d = c THEN a ELSE answer[d]
  BY <1>1, <1>2
<1>4. AnswersCurrent'
  BY <1>3 DEF AnswersCurrent
<1> QED
  BY <1>1, <1>2, <1>4, IdleFacts

LEMMA GoesOn ==
  ASSUME StoreTypeOK, AnswersCurrent, NEW c \in Clients, NEW r \in Request,
         op' = [op EXCEPT ![c] = r], answer' \in {answer, [answer EXCEPT ![c] = NoAnswer]}
  PROVE  /\ op' \in [Clients -> Request] /\ DOMAIN answer' = Clients /\ AnswersCurrent'
         /\ op'[c] = r /\ \A d \in Clients : d # c => op'[d] = op[d]
<1>1. op \in [Clients -> Request] /\ DOMAIN answer = Clients
  BY DEF StoreTypeOK
<1>2. NoAnswer.current
  BY DEF NoAnswer
<1>3. \A d \in Clients : answer'[d] \in {answer[d], NoAnswer}
  BY <1>1
<1>4. AnswersCurrent'
  BY <1>2, <1>3 DEF AnswersCurrent
<1> QED
  BY <1>1, <1>4

(* Requests that hold nothing, and those of others, keep what is promised. *)
LEMMA OtherHolds ==
  ASSUME StoreInv, Watch, NEW d \in Clients, op'[d] = op[d]
  PROVE  /\ op'[d].pc = "cache" => op'[d].val \in seen'[d][op'[d].id]
         /\ op'[d].pc = "merge" => \A i \in Ids : op'[d].val[i] \in seen'[d][i]
<1>1. op[d] \in Request /\ (op[d].pc = "cache" => op[d].id \in Ids)
  BY DEF StoreInv, StoreTypeOK
<1>2. op[d].pc \in {"cache", "merge"} => \A i \in Ids : seen[d][i] \subseteq seen'[d][i]
  BY <1>1, Watched, IdleFacts
<1> QED
  BY <1>1, <1>2 DEF StoreInv, HeldInv

LEMMA OthersHold ==
  ASSUME StoreInv, Watch, NEW c \in Clients, op'[c].pc \notin {"cache", "merge"},
         \A d \in Clients : d # c => op'[d] = op[d]
  PROVE  HeldInv'
<1> SUFFICES ASSUME NEW d \in Clients
             PROVE  /\ op'[d].pc = "cache" => op'[d].val \in seen'[d][op'[d].id]
                    /\ op'[d].pc = "merge" => \A i \in Ids : op'[d].val[i] \in seen'[d][i]
  BY DEF HeldInv
<1>2. CASE d = c
  BY <1>2
<1>3. CASE d # c
  BY <1>3, OtherHolds
<1> QED
  BY <1>2, <1>3

(* While neither table nor map changes, what is in the map stays current,  *)
(* unless the request that removed it is answered.                         *)
LEMMA MapStays ==
  ASSUME StoreInv, NEW c \in Clients, table' = table, cache' = cache, torn' = torn,
         op[c].pc # "erase", \A d \in Clients : d # c => op'[d] = op[d]
  PROVE  CacheInv'
<1> SUFFICES ASSUME NEW i \in Ids, cache[i] # None
             PROVE  cache[i] \in Current(i)'
  BY DEF CacheInv
<1>1. cache[i] \in Current(i)
  BY DEF StoreInv, CacheInv
<1>2. ASSUME NEW d \in Clients, op[d].pc = "erase"
      PROVE  op'[d] = op[d]
  BY <1>2
<1> QED
  BY <1>1, <1>2, CurrentFacts

RestInv == StoreTypeOK /\ HeldInv /\ FreshInv /\ CacheInv /\ AnswersCurrent

(* An answer from what is current, while table and map stay as they are. *)
LEMMA EndsKeep ==
  ASSUME StoreInv, Watch, NEW c \in Clients, NEW a, a.current, Reply(c, a),
         op[c].pc # "erase", UNCHANGED <<table, cache, torn>>
  PROVE  RestInv'
<1>1. StoreTypeOK /\ AnswersCurrent /\ FreshInv
  BY DEF StoreInv
<1>2. /\ op' \in [Clients -> Request] /\ DOMAIN answer' = Clients /\ AnswersCurrent'
      /\ op'[c] = Idle /\ \A d \in Clients : d # c => op'[d] = op[d]
  BY <1>1, Ends
<1>3. HeldInv' /\ CacheInv'
  BY <1>2, IdleFacts, OthersHold, MapStays
<1>4. \A d \in Clients : op'[d].pc = "-" \/ op'[d] = op[d]
  BY <1>2, IdleFacts
<1>5. StoreTypeOK'
  BY <1>1, <1>2, <1>4 DEF StoreTypeOK
<1>6. FreshInv'
  BY <1>1, <1>4 DEF FreshInv
<1> QED
  BY <1>2, <1>3, <1>5, <1>6 DEF RestInv

(* A request goes on with what it read from the table. *)
LEMMA WaitKeeps ==
  ASSUME StoreInv, Watch, NEW c \in Clients, NEW r \in Request, UNCHANGED <<table, cache, torn>>,
         op[c].pc # "erase", r.pc # "-", r.pc \in {"select", "cache", "erase"} => r.id \in Ids,
         r.pc = "select" => r.k \in {"get", "render"},
         r.pc = "cache" => r.k \in {"create", "get", "render"},
         r.pc = "cache" => r.val = table[r.id] /\ r.val # None,
         r.pc = "merge" => r.val = table, r.pc # "erase",
         op' = [op EXCEPT ![c] = r], answer' \in {answer, [answer EXCEPT ![c] = NoAnswer]}
  PROVE  RestInv'
<1>1. StoreTypeOK /\ AnswersCurrent /\ FreshInv
  BY DEF StoreInv
<1>2. /\ op' \in [Clients -> Request] /\ DOMAIN answer' = Clients /\ AnswersCurrent'
      /\ op'[c] = r /\ \A d \in Clients : d # c => op'[d] = op[d]
  BY <1>1, GoesOn
<1>3. CacheInv'
  BY <1>2, MapStays
<1>4. StoreTypeOK'
  <2>1. \A d \in Clients : op'[d] = r \/ op'[d] = op[d]
    BY <1>2
  <2>2. \A i \in Ids : table[i] \in Kept
    BY <1>1 DEF StoreTypeOK
  <2> QED
    BY <1>1, <1>2, <2>1, <2>2 DEF StoreTypeOK
<1>5. FreshInv'
  <2>1. \A d \in Clients : op'[d] = r \/ op'[d] = op[d]
    BY <1>2
  <2> QED
    BY <1>1, <2>1 DEF FreshInv
<1>6. HeldInv'
  <2> SUFFICES ASSUME NEW d \in Clients
               PROVE  /\ op'[d].pc = "cache" => op'[d].val \in seen'[d][op'[d].id]
                      /\ op'[d].pc = "merge" => \A i \in Ids : op'[d].val[i] \in seen'[d][i]
    BY DEF HeldInv
  <2>1. CASE d = c
    <3>1. op'[c] # Idle
      BY <1>2, IdleFacts
    <3>2. \A i \in Ids : table[i] \in seen'[c][i]
      BY <3>1, CurrentFacts, Watched
    <3> QED
      BY <1>2, <2>1, <3>2
  <2>2. CASE d # c
    BY <1>2, <2>2, OtherHolds
  <2> QED
    BY <2>1, <2>2
<1> QED
  BY <1>2, <1>3, <1>4, <1>5, <1>6 DEF RestInv

LEMMA AnswerFacts ==
  ASSUME NEW c, NEW id, NEW val, NEW input, NEW k \in {"get", "render"},
         val \in Current(id) \cup seen[c][id]
  PROVE  Answer(c, k, id, val, input).current
BY DEF Answer, Shown, Rendered, NoAnswer

LEMMA PostKeeps ==
  ASSUME StoreInv, Watch, NEW c \in Clients, NEW id \in Ids, NEW p \in DOMAIN Posted,
         post(c, id, p)
  PROVE  RestInv'
<1>1. StoreTypeOK /\ AnswersCurrent /\ FreshInv /\ CacheInv /\ op[c] = Idle /\ op[c].pc = "-"
  BY IdleFacts DEF StoreInv, post, Begin
<1>2. CASE Reply(c, NoAnswer) /\ UNCHANGED <<table, cache, torn>>
  <2>1. NoAnswer.current
    BY DEF NoAnswer
  <2> QED
    BY <1>1, <1>2, <2>1, EndsKeep
<1>3. CASE /\ table[id] = None /\ table' = [table EXCEPT ![id] = p]
           /\ Go(c, "create", "cache", id, p, None) /\ UNCHANGED <<cache, torn>>
  <2> DEFINE r == [k |-> "create", pc |-> "cache", id |-> id, val |-> p, input |-> None,
                   late |-> FALSE]
  <2>1. r \in Request /\ r.pc = "cache" /\ r.id = id /\ r.val = p /\ r.k = "create"
    BY DEF Request, Kept
  <2>2. op' = [op EXCEPT ![c] = r] /\ answer' = [answer EXCEPT ![c] = NoAnswer]
    BY <1>3 DEF Go
  <2> HIDE DEF r
  <2>3. /\ op' \in [Clients -> Request] /\ DOMAIN answer' = Clients /\ AnswersCurrent'
        /\ op'[c] = r /\ \A d \in Clients : d # c => op'[d] = op[d]
    BY <1>1, <2>1, <2>2, GoesOn
  <2>4. table' \in [Ids -> Kept] /\ \A i \in Ids : table'[i] = IF i = id THEN p ELSE table[i]
    BY <1>1, <1>3 DEF StoreTypeOK, Kept
  <2>5. StoreTypeOK'
    BY <1>1, <1>3, <2>1, <2>3, <2>4 DEF StoreTypeOK
  <2>6. FreshInv'
    <3> SUFFICES ASSUME NEW d \in Clients, op'[d].pc = "cache"
                 PROVE  /\ op'[d].val # None
                        /\ op'[d].late \/ table'[op'[d].id] = op'[d].val
      BY DEF FreshInv
    <3>1. CASE d = c
      BY <2>1, <2>3, <2>4, <3>1, NoneAssumption
    <3>2. CASE d # c
      <4>1. /\ op'[d] = op[d] /\ op[d].id \in Ids /\ op[d].val # None
            /\ op[d].late \/ table[op[d].id] = op[d].val
        BY <1>1, <2>3, <3>2 DEF FreshInv, StoreTypeOK
      <4> QED
        BY <1>3, <2>4, <4>1
    <3> QED
      BY <3>1, <3>2
  <2>7. HeldInv'
    <3> SUFFICES ASSUME NEW d \in Clients
                 PROVE  /\ op'[d].pc = "cache" => op'[d].val \in seen'[d][op'[d].id]
                        /\ op'[d].pc = "merge" => \A i \in Ids : op'[d].val[i] \in seen'[d][i]
      BY DEF HeldInv
    <3>1. CASE d = c
      <4>1. op'[c] # Idle
        BY <2>1, <2>3, IdleFacts
      <4>2. p \in Current(id)'
        BY <2>4, CurrentFacts
      <4> QED
        BY <2>1, <2>3, <3>1, <4>1, <4>2, Watched
    <3>2. CASE d # c
      BY <1>1, <2>3, <3>2, OtherHolds
    <3> QED
      BY <3>1, <3>2
  <2>8. CacheInv'
    <3> SUFFICES ASSUME NEW i \in Ids, cache[i] # None
                 PROVE  cache[i] \in Current(i)'
      BY <1>3 DEF CacheInv
    <3>1. cache[i] \in Current(i)
      BY <1>1 DEF CacheInv
    <3>2. \A d \in Clients : op[d].pc = "erase" => op'[d] = op[d]
      BY <1>1, <2>3
    <3> QED
      BY <1>3, <2>4, <3>1, <3>2, CurrentFacts
  <2> QED
    BY <2>3, <2>5, <2>6, <2>7, <2>8 DEF RestInv
<1> QED
  BY <1>2, <1>3 DEF post, create, Rest

LEMMA GetKeeps ==
  ASSUME StoreInv, Watch, NEW c \in Clients, NEW k \in {"get", "render"}, NEW id \in Ids,
         NEW input \in DOMAIN Inputs \cup {None}, get(c, k, id, input)
  PROVE  RestInv'
<1>1. StoreTypeOK /\ AnswersCurrent /\ FreshInv /\ CacheInv /\ op[c] = Idle /\ op[c].pc = "-"
  BY IdleFacts DEF StoreInv, get, Begin
<1>2. UNCHANGED <<table, cache, torn>>
  BY DEF get
<1>3. CASE cache[id] # None /\ Reply(c, Answer(c, k, id, cache[id], input))
  <2>1. Answer(c, k, id, cache[id], input).current
    BY <1>1, <1>3, AnswerFacts DEF CacheInv
  <2> QED
    BY <1>1, <1>2, <1>3, <2>1, EndsKeep
<1>4. CASE Go(c, k, "select", id, None, input)
  <2> DEFINE r == [k |-> k, pc |-> "select", id |-> id, val |-> None, input |-> input,
                   late |-> FALSE]
  <2>1. r \in Request /\ r.pc = "select" /\ r.id = id /\ r.k = k
    BY DEF Request, Kept
  <2>2. op' = [op EXCEPT ![c] = r] /\ answer' = [answer EXCEPT ![c] = NoAnswer]
    BY <1>4 DEF Go
  <2> HIDE DEF r
  <2> QED
    BY <1>1, <1>2, <2>1, <2>2, WaitKeeps
<1> QED
  BY <1>3, <1>4 DEF get

LEMMA ListKeeps ==
  ASSUME StoreInv, Watch, NEW c \in Clients, list(c)
  PROVE  RestInv'
<1>1. StoreTypeOK /\ op[c] = Idle /\ op[c].pc = "-"
  BY IdleFacts DEF StoreInv, list, Begin
<1>2. UNCHANGED <<table, cache, torn>> /\ table \in [Ids -> Kept]
  BY <1>1 DEF list, StoreTypeOK
<1> DEFINE r == [k |-> "list", pc |-> "merge", id |-> None, val |-> table, input |-> None,
                 late |-> FALSE]
<1>3. r \in Request /\ r.pc = "merge" /\ r.val = table
  BY <1>2 DEF Request
<1>4. op' = [op EXCEPT ![c] = r] /\ answer' = [answer EXCEPT ![c] = NoAnswer]
  BY DEF list, Go
<1> HIDE DEF r
<1> QED
  BY <1>1, <1>2, <1>3, <1>4, WaitKeeps

LEMMA SelectKeeps ==
  ASSUME StoreInv, Watch, NEW c \in Clients, Select(c)
  PROVE  RestInv'
<1>1. /\ StoreTypeOK /\ SeenInv /\ op[c] \in Request
      /\ op[c].pc = "select" /\ op[c].id \in Ids /\ op[c].k \in {"get", "render"}
  BY DEF StoreInv, Select, StoreTypeOK
<1>2. UNCHANGED <<table, cache, torn>>
  BY DEF Select
<1> DEFINE id == op[c].id
<1>3. CASE table[id] = None /\ Reply(c, Answer(c, op[c].k, id, None, op[c].input))
  <2>1. op[c].k \in {"get", "render"}
    BY <1>1 DEF StoreTypeOK
  <2>2. None \in Current(id)
    BY <1>1, <1>3, CurrentFacts
  <2>3. Answer(c, op[c].k, id, None, op[c].input).current
    BY <2>1, <2>2, AnswerFacts
  <2> QED
    BY <1>1, <1>2, <1>3, <2>3, EndsKeep
<1>4. CASE table[id] # None /\ op' = [op EXCEPT ![c].pc = "cache", ![c].val = table[id]]
           /\ UNCHANGED answer
  <2> DEFINE r == [op[c] EXCEPT !.pc = "cache", !.val = table[id]]
  <2>1. r \in Request /\ r.pc = "cache" /\ r.id = id /\ r.val = table[id] /\ r.k = op[c].k
    BY <1>1 DEF Request, StoreTypeOK
  <2>2. op' = [op EXCEPT ![c] = r]
    BY <1>1, <1>4 DEF StoreTypeOK
  <2> HIDE DEF r
  <2> QED
    BY <1>1, <1>2, <1>4, <2>1, <2>2, WaitKeeps
<1> QED
  BY <1>3, <1>4 DEF Select

LEMMA FailuresKeep ==
  ASSUME StoreInv, Watch, NEW c \in Clients, SelectFails(c) \/ ListFails(c)
  PROVE  RestInv'
<1>1. UNCHANGED <<table, cache, torn>> /\ op[c].pc # "erase"
  BY IdleFacts DEF SelectFails, ListFails, Begin
<1>2. CASE SelectFails(c)
  <2> DEFINE a == Shown(op[c].k, None, op[c].input)
  <2>1. a.current
    BY DEF Shown, Rendered, NoAnswer
  <2>2. Reply(c, a)
    BY <1>2 DEF SelectFails
  <2> HIDE DEF a
  <2> QED
    BY <1>1, <2>1, <2>2, EndsKeep
<1>3. CASE ListFails(c)
  <2> DEFINE a == [NoAnswer EXCEPT !.k = "list",
                     !.current = \A i \in Ids : cache[i] # None => cache[i] \in Current(i)]
  <2>1. a.current
    BY DEF NoAnswer, StoreInv, CacheInv
  <2>2. Reply(c, a)
    BY <1>3 DEF ListFails
  <2> HIDE DEF a
  <2> QED
    BY <1>1, <2>1, <2>2, EndsKeep
<1> QED
  BY <1>2, <1>3

LEMMA CacheKeeps ==
  ASSUME StoreInv, Watch, NEW c \in Clients, Cache(c)
  PROVE  RestInv'
<1> DEFINE id == op[c].id
           v  == op[c].val
           a  == IF op[c].k = "create" THEN NoAnswer ELSE Answer(c, op[c].k, id, v, op[c].input)
<1>1. /\ StoreTypeOK /\ AnswersCurrent /\ FreshInv /\ CacheInv /\ op[c] \in Request
      /\ op[c].pc = "cache" /\ id \in Ids /\ op[c].k \in {"create", "get", "render"}
  BY DEF StoreInv, Cache, StoreTypeOK
<1>2. v \in seen[c][id] /\ v # None /\ (op[c].late \/ table[id] = v)
  BY <1>1 DEF StoreInv, HeldInv, FreshInv
<1>3. /\ cache' = [cache EXCEPT ![id] = IF @ = None THEN v ELSE @] /\ Reply(c, a)
      /\ torn' = IF cache[id] = None /\ op[c].late THEN torn \cup {id} ELSE torn
      /\ table' = table
  BY DEF Cache
<1>4. a.current
  <2>1. CASE op[c].k = "create"
    BY <2>1 DEF NoAnswer
  <2>2. CASE op[c].k \in {"get", "render"}
    <3>1. Answer(c, op[c].k, id, v, op[c].input).current
      BY <1>2, <2>2, AnswerFacts
    <3> QED
      BY <2>2, <3>1
  <2> QED
    BY <1>1, <2>1, <2>2
<1> HIDE DEF a
<1>5. /\ op' \in [Clients -> Request] /\ DOMAIN answer' = Clients /\ AnswersCurrent'
      /\ op'[c] = Idle /\ \A d \in Clients : d # c => op'[d] = op[d]
  BY <1>1, <1>3, <1>4, Ends
<1>6. \A d \in Clients : op'[d].pc = "-" \/ op'[d] = op[d]
  BY <1>5, IdleFacts
<1>7. /\ cache' \in [Ids -> Kept]
      /\ \A i \in Ids : cache'[i] = IF i = id /\ cache[i] = None THEN v ELSE cache[i]
  <2>1. cache \in [Ids -> Kept] /\ v \in Kept
    BY <1>1 DEF StoreTypeOK
  <2> QED
    BY <1>3, <2>1
<1>8. StoreTypeOK'
  BY <1>1, <1>3, <1>5, <1>6, <1>7 DEF StoreTypeOK
<1>9. HeldInv'
  BY <1>5, IdleFacts, OthersHold
<1>10. FreshInv'
  BY <1>1, <1>3, <1>6 DEF FreshInv
<1>11. CacheInv'
  <2> SUFFICES ASSUME NEW i \in Ids, cache'[i] # None
               PROVE  cache'[i] \in Current(i)'
    BY DEF CacheInv
  <2>1. CASE i = id /\ cache[i] = None
    BY <1>2, <1>3, <1>7, <2>1, CurrentFacts
  <2>2. CASE ~(i = id /\ cache[i] = None)
    <3>1. cache'[i] = cache[i] /\ cache[i] \in Current(i) /\ (i \in torn => i \in torn')
      BY <1>1, <1>3, <1>7, <2>2 DEF CacheInv
    <3>2. \A d \in Clients : op[d].pc = "erase" => op'[d] = op[d]
      BY <1>1, <1>5
    <3> QED
      BY <1>3, <3>1, <3>2, CurrentFacts
  <2> QED
    BY <2>1, <2>2
<1> QED
  BY <1>5, <1>8, <1>9, <1>10, <1>11 DEF RestInv

LEMMA MergeKeeps ==
  ASSUME StoreInv, Watch, NEW c \in Clients, Merge(c)
  PROVE  RestInv'
<1> DEFINE rows == [i \in Ids |-> IF op[c].val[i] = None THEN cache[i] ELSE op[c].val[i]]
<1>1. op[c].pc = "merge" /\ UNCHANGED <<table, cache, torn>> /\ Reply(c, Listed(c, rows))
  BY DEF Merge
<1>2. \A i \in Ids : rows[i] \in Current(i) \cup seen[c][i]
  BY <1>1 DEF StoreInv, HeldInv, CacheInv
<1> HIDE DEF rows
<1>3. Listed(c, rows).current
  BY <1>2 DEF Listed, NoAnswer
<1> QED
  BY <1>1, <1>3, EndsKeep

LEMMA DeleteKeeps ==
  ASSUME StoreInv, Watch, NEW c \in Clients, NEW id \in Ids, delete_(c, id)
  PROVE  RestInv'
<1> DEFINE r == [Idle EXCEPT !.k = "remove", !.pc = "erase", !.id = id, !.val = table[id]]
<1>1. /\ StoreTypeOK /\ AnswersCurrent /\ FreshInv /\ CacheInv /\ op[c].pc = "-"
      /\ op \in [Clients -> Request] /\ table[id] \in Kept
  BY IdleFacts DEF StoreInv, delete_, Begin, StoreTypeOK
<1>2. /\ table' = [table EXCEPT ![id] = None] /\ UNCHANGED <<cache, torn>>
      /\ op' = [d \in Clients |->
             IF d = c THEN r
             ELSE IF op[d].id = id /\ op[d].pc = "cache" THEN [op[d] EXCEPT !.late = TRUE]
             ELSE op[d]]
      /\ answer' = [answer EXCEPT ![c] = NoAnswer]
  BY DEF delete_, remove
<1>3. r \in Request /\ r.pc = "erase" /\ r.id = id /\ r.val = table[id]
  BY <1>1 DEF Idle, Request, Kept
<1> HIDE DEF r
<1>4. \A d \in Clients : d # c =>
        /\ op'[d] \in Request
        /\ op'[d].k = op[d].k /\ op'[d].pc = op[d].pc /\ op'[d].id = op[d].id /\ op'[d].val = op[d].val
        /\ op[d].pc = "erase" => op'[d] = op[d]
        /\ op[d].id = id /\ op[d].pc = "cache" => op'[d].late
        /\ ~(op[d].id = id /\ op[d].pc = "cache") => op'[d] = op[d]
  <2> SUFFICES ASSUME NEW d \in Clients, d # c
               PROVE  /\ op'[d] \in Request
                      /\ op'[d].k = op[d].k /\ op'[d].pc = op[d].pc
                      /\ op'[d].id = op[d].id /\ op'[d].val = op[d].val
                      /\ op[d].pc = "erase" => op'[d] = op[d]
                      /\ op[d].id = id /\ op[d].pc = "cache" => op'[d].late
                      /\ ~(op[d].id = id /\ op[d].pc = "cache") => op'[d] = op[d]
    OBVIOUS
  <2>1. op[d] \in Request
    BY <1>1
  <2>2. CASE op[d].id = id /\ op[d].pc = "cache"
    <3>1. op'[d] = [op[d] EXCEPT !.late = TRUE]
      BY <1>2, <2>2
    <3> QED
      BY <2>1, <2>2, <3>1 DEF Request
  <2>3. CASE ~(op[d].id = id /\ op[d].pc = "cache")
    <3>1. op'[d] = op[d]
      BY <1>2, <2>3
    <3> QED
      BY <2>1, <2>3, <3>1
  <2> QED
    BY <2>2, <2>3
<1>5. op'[c] = r
  BY <1>2
<1>6. table' \in [Ids -> Kept] /\ \A i \in Ids : table'[i] = IF i = id THEN None ELSE table[i]
  BY <1>1, <1>2 DEF StoreTypeOK, Kept
<1>7. StoreTypeOK' /\ AnswersCurrent'
  <2>1. op' \in [Clients -> Request]
    <3>1. \A d \in Clients : op'[d] \in Request
      BY <1>3, <1>4, <1>5
    <3> QED
      BY <1>2, <3>1
  <2>2. DOMAIN answer' = Clients /\ AnswersCurrent'
    <3>1. \A d \in Clients : answer'[d] \in {answer[d], NoAnswer}
      BY <1>1, <1>2 DEF StoreTypeOK
    <3>2. NoAnswer.current
      BY DEF NoAnswer
    <3>3. DOMAIN answer' = Clients
      BY <1>1, <1>2 DEF StoreTypeOK
    <3> QED
      BY <1>1, <3>1, <3>2, <3>3 DEF AnswersCurrent
  <2>3. \A d \in Clients :
          /\ op'[d].pc \in {"cache", "select", "erase"} => op'[d].id \in Ids
          /\ op'[d].pc = "select" => op'[d].k \in {"get", "render"}
          /\ op'[d].pc = "cache" => op'[d].k \in {"create", "get", "render"} /\ op'[d].val \in Kept
    BY <1>1, <1>3, <1>4, <1>5 DEF StoreTypeOK
  <2> QED
    BY <1>1, <1>2, <1>6, <2>1, <2>2, <2>3 DEF StoreTypeOK
<1>8. HeldInv'
  <2> SUFFICES ASSUME NEW d \in Clients
               PROVE  /\ op'[d].pc = "cache" => op'[d].val \in seen'[d][op'[d].id]
                      /\ op'[d].pc = "merge" => \A i \in Ids : op'[d].val[i] \in seen'[d][i]
    BY DEF HeldInv
  <2>1. CASE d = c
    BY <1>3, <1>5, <2>1
  <2>2. CASE d # c
    <3>1. op'[d].pc = op[d].pc /\ op'[d].id = op[d].id /\ op'[d].val = op[d].val /\ op'[d] \in Request
      BY <1>4, <2>2
    <3>2. op[d].pc \in {"cache", "merge"} => \A i \in Ids : seen[d][i] \subseteq seen'[d][i]
      BY <3>1, Watched, IdleFacts
    <3>3. op[d].pc = "cache" => op[d].id \in Ids
      BY <1>1 DEF StoreTypeOK
    <3> QED
      BY <3>1, <3>2, <3>3 DEF StoreInv, HeldInv
  <2> QED
    BY <2>1, <2>2
<1>9. FreshInv'
  <2> SUFFICES ASSUME NEW d \in Clients, op'[d].pc = "cache"
               PROVE  /\ op'[d].val # None
                      /\ op'[d].late \/ table'[op'[d].id] = op'[d].val
    BY DEF FreshInv
  <2>1. d # c
    BY <1>3, <1>5
  <2>2. op[d].pc = "cache" /\ op[d].id \in Ids /\ op[d].val # None /\ op'[d].val = op[d].val
    BY <1>1, <1>4, <2>1 DEF FreshInv, StoreTypeOK
  <2>3. CASE op[d].id = id
    BY <1>4, <2>1, <2>2, <2>3
  <2>4. CASE op[d].id # id
    <3>1. op'[d] = op[d] /\ (op[d].late \/ table[op[d].id] = op[d].val)
      BY <1>1, <1>4, <2>1, <2>2, <2>4 DEF FreshInv
    <3> QED
      BY <1>6, <2>2, <2>4, <3>1
  <2> QED
    BY <2>3, <2>4
<1>10. CacheInv'
  <2> SUFFICES ASSUME NEW i \in Ids, cache[i] # None
               PROVE  cache[i] \in Current(i)'
    BY <1>2 DEF CacheInv
  <2>1. cache[i] \in Current(i)
    BY <1>1 DEF CacheInv
  <2>2. \A d \in Clients : op[d].pc = "erase" => op'[d] = op[d]
    BY <1>1, <1>4
  <2>3. CASE i = id /\ cache[i] = table[i]
    BY <1>3, <1>5, <2>3, CurrentFacts
  <2>4. CASE ~(i = id /\ cache[i] = table[i])
    <3>1. \/ cache[i] = table[i] \/ i \in torn
          \/ \E d \in Clients : op[d].pc = "erase" /\ op[d].id = i /\ cache[i] = op[d].val
      BY <2>1, CurrentFacts
    <3>2. \/ cache[i] = table'[i] \/ i \in torn'
          \/ \E d \in Clients : op'[d].pc = "erase" /\ op'[d].id = i /\ cache[i] = op'[d].val
      BY <1>2, <1>6, <2>2, <2>4, <3>1
    <3> QED
      BY <1>2, <3>2, CurrentFacts
  <2> QED
    BY <2>3, <2>4
<1> QED
  BY <1>7, <1>8, <1>9, <1>10 DEF RestInv

LEMMA EraseKeeps ==
  ASSUME StoreInv, Watch, NEW c \in Clients, Erase(c)
  PROVE  RestInv'
<1> DEFINE id == op[c].id
<1>1. /\ StoreTypeOK /\ AnswersCurrent /\ FreshInv /\ CacheInv
      /\ op[c].pc = "erase" /\ id \in Ids /\ NoAnswer.current
  BY DEF StoreInv, Erase, StoreTypeOK, NoAnswer
<1>2. /\ cache' = [cache EXCEPT ![id] = None] /\ torn' = torn \ {id}
      /\ Reply(c, NoAnswer) /\ table' = table
  BY DEF Erase
<1>3. /\ op' \in [Clients -> Request] /\ DOMAIN answer' = Clients /\ AnswersCurrent'
      /\ op'[c] = Idle /\ \A d \in Clients : d # c => op'[d] = op[d]
  BY <1>1, <1>2, Ends
<1>4. \A d \in Clients : op'[d].pc = "-" \/ op'[d] = op[d]
  BY <1>3, IdleFacts
<1>5. cache' \in [Ids -> Kept] /\ \A i \in Ids : cache'[i] = IF i = id THEN None ELSE cache[i]
  BY <1>1, <1>2 DEF StoreTypeOK, Kept
<1>6. StoreTypeOK'
  BY <1>1, <1>2, <1>3, <1>4, <1>5 DEF StoreTypeOK
<1>7. HeldInv'
  BY <1>3, IdleFacts, OthersHold
<1>8. FreshInv'
  BY <1>1, <1>2, <1>4 DEF FreshInv
<1>9. CacheInv'
  <2> SUFFICES ASSUME NEW i \in Ids, cache'[i] # None
               PROVE  cache'[i] \in Current(i)'
    BY DEF CacheInv
  <2>1. i # id /\ cache'[i] = cache[i] /\ cache[i] \in Current(i) /\ (i \in torn => i \in torn')
    BY <1>1, <1>2, <1>5 DEF CacheInv
  <2>2. \A d \in Clients : op[d].id = i /\ op[d].pc = "erase" => op'[d] = op[d]
    BY <1>3, <2>1
  <2> QED
    BY <1>2, <2>1, <2>2, CurrentFacts
<1> QED
  BY <1>3, <1>6, <1>7, <1>8, <1>9 DEF RestInv

(* The requests of the second store do not touch the first. *)
LEMMA RecordsKeep ==
  ASSUME StoreInv, Watch, NEW c \in Clients, NEW k, NEW val, Other(c), Told(c, k, val)
  PROVE  RestInv'
<1>1. /\ StoreTypeOK /\ AnswersCurrent /\ FreshInv /\ CacheInv /\ op[c].pc = "-"
      /\ UNCHANGED <<table, cache, op, torn>>
  BY IdleFacts DEF StoreInv, Other, Begin
<1> DEFINE a == [NoAnswer EXCEPT !.k = k, !.out = val]
<1>2. answer' = [answer EXCEPT ![c] = a] /\ a.current
  BY DEF Told, NoAnswer
<1> HIDE DEF a
<1>3. DOMAIN answer' = Clients /\ \A d \in Clients : answer'[d] \in {answer[d], a}
  BY <1>1, <1>2 DEF StoreTypeOK
<1>4. AnswersCurrent'
  BY <1>1, <1>2, <1>3 DEF AnswersCurrent
<1>5. HeldInv' /\ CacheInv'
  BY <1>1, OthersHold, MapStays
<1>6. StoreTypeOK' /\ FreshInv'
  BY <1>1, <1>3 DEF StoreTypeOK, FreshInv
<1> QED
  BY <1>4, <1>5, <1>6 DEF RestInv

LEMMA RestartKeeps ==
  ASSUME StoreInv, Restart
  PROVE  RestInv'
<1>1. /\ cache' = [i \in Ids |-> None] /\ op' = [c \in Clients |-> Idle]
      /\ answer' = [c \in Clients |-> NoAnswer] /\ table' = table /\ NoAnswer.current
  BY DEF Restart, NoAnswer
<1>2. \A c \in Clients : op'[c].pc = "-"
  BY <1>1, IdleFacts
<1>3. cache' \in [Ids -> Kept] /\ op' \in [Clients -> Request]
  BY <1>1, IdleFacts DEF Kept
<1>4. AnswersCurrent' /\ CacheInv'
  BY <1>1 DEF AnswersCurrent, CacheInv
<1>5. StoreTypeOK' /\ HeldInv' /\ FreshInv'
  BY <1>1, <1>2, <1>3 DEF StoreInv, StoreTypeOK, HeldInv, FreshInv
<1> QED
  BY <1>4, <1>5 DEF RestInv

LEMMA StoreStep ==
  ASSUME StoreInv, [StoreNext]_storeVars
  PROVE  StoreInv'
<1>1. CASE UNCHANGED storeVars
  BY <1>1 DEF storeVars, StoreInv, StoreTypeOK, SeenInv, HeldInv, FreshInv, CacheInv, Current,
              AnswersCurrent
<1>2. CASE Step /\ Watch
  <2>1. SeenInv'
    BY <1>2, Watched DEF SeenInv
  <2>2. ASSUME NEW c \in Clients, NEW id \in Ids
        PROVE  /\ \A p \in DOMAIN Posted : post(c, id, p) => RestInv'
               /\ get(c, "get", id, None) => RestInv'
               /\ \A i \in DOMAIN Inputs : get(c, "render", id, i) => RestInv'
               /\ delete_(c, id) => RestInv'
               /\ \A r \in RecordsSent : record_create(c, id, r) => RestInv'
               /\ record_get(c, id) => RestInv'
               /\ record_delete(c, id) => RestInv'
    <3>1. \A p \in DOMAIN Posted : post(c, id, p) => RestInv'
      BY <1>2, PostKeeps
    <3>2. /\ get(c, "get", id, None) => RestInv'
          /\ \A i \in DOMAIN Inputs : get(c, "render", id, i) => RestInv'
      BY <1>2, GetKeeps
    <3>3. delete_(c, id) => RestInv'
      BY <1>2, DeleteKeeps
    <3>4. \A r \in RecordsSent : record_create(c, id, r) => RestInv'
      BY <1>2, RecordsKeep DEF record_create
    <3>5. record_get(c, id) => RestInv'
      BY <1>2, RecordsKeep DEF record_get
    <3>6. record_delete(c, id) => RestInv'
      BY <1>2, RecordsKeep DEF record_delete
    <3> QED
      BY <3>1, <3>2, <3>3, <3>4, <3>5, <3>6
  <2>3. ASSUME NEW c \in Clients
        PROVE  /\ Select(c) \/ Cache(c) \/ Erase(c) \/ list(c) \/ Merge(c) => RestInv'
               /\ SelectFails(c) \/ ListFails(c) => RestInv'
               /\ \A t \in {None, "Local"} : record_list(c, t) => RestInv'
    <3>1. Select(c) \/ Cache(c) \/ Erase(c) \/ list(c) \/ Merge(c) => RestInv'
      BY <1>2, SelectKeeps, CacheKeeps, EraseKeeps, ListKeeps, MergeKeeps
    <3>2. \A t \in {None, "Local"} : record_list(c, t) => RestInv'
      BY <1>2, RecordsKeep DEF record_list
    <3>3. SelectFails(c) \/ ListFails(c) => RestInv'
      BY <1>2, FailuresKeep
    <3> QED
      BY <3>1, <3>2, <3>3
  <2>4. RestInv'
    BY <1>2, <2>2, <2>3, RestartKeeps DEF Step
  <2> QED
    BY <2>1, <2>4 DEF RestInv, StoreInv
<1> QED
  BY <1>1, <1>2 DEF StoreNext

(* TemplateStore (template_store.cpp) and its handlers: whatever requests  *)
(* create, read, list, render and remove templates at the same time, no    *)
(* client is shown a template that was not current at some moment of its   *)
(* request, but for the one case Current names.                            *)
THEOREM AnswersAreCurrent == StoreSpec => []AnswersCurrent
<1>1. StoreInit => StoreInv
  <2> SUFFICES ASSUME StoreInit PROVE StoreInv
    OBVIOUS
  <2>1. NoAnswer.current /\ \A c \in Clients : op[c] = Idle /\ answer[c] = NoAnswer
    BY DEF StoreInit, NoAnswer
  <2>2. StoreTypeOK
    BY <2>1, IdleFacts DEF StoreInit, StoreTypeOK, Kept
  <2>3. SeenInv /\ HeldInv /\ FreshInv
    BY <2>1, IdleFacts DEF SeenInv, HeldInv, FreshInv
  <2>4. CacheInv /\ AnswersCurrent
    BY <2>1 DEF StoreInit, CacheInv, AnswersCurrent
  <2> QED
    BY <2>2, <2>3, <2>4 DEF StoreInv
<1>2. StoreInv /\ [StoreNext]_storeVars => StoreInv'
  BY StoreStep
<1>3. StoreInv => AnswersCurrent
  BY DEF StoreInv
<1> QED
  BY <1>1, <1>2, <1>3, PTL DEF StoreSpec

-----------------------------------------------------------------------------
(***************************************************************************)
(* TaskRunner.                                                             *)
(***************************************************************************)
(* execute() of the shell strategy has a child. *)
Reading == pc \in {"check", "grace", "poll", "reap", "verdict"}

(* The strategy that runs is the one that was chosen. *)
ChosenInv ==
    /\ (pc \in {"shell", "fork"} \/ Reading) => kind = "shell"
    /\ pc \in {"local", "func", "done", "join"} => kind = "local"

(* The pause is made only when another attempt is due. *)
RetryInv ==
    /\ pc = "backoff" => (result = "Failed" /\ attempt + 1 < MaxAttempts)
    /\ FailedMeansExhausted

(* There is a child exactly while its output is read, and childExited says *)
(* whether it was reaped.                                                  *)
ChildInv ==
    /\ Reading => ((exited <=> leader = "reaped") /\ leader # "none")
    /\ ~Reading => leader \in {"none", "reaped"}
    /\ pc = "verdict" => exited

(* A signal has a reason that does not go away before the verdict, and     *)
(* does not outlive the attempt it belongs to.                             *)
SignalInv ==
    /\ (signalled /\ Reading) => (overdue \/ cancel)
    /\ (kind = "shell" /\ pc \in {"attempt", "precheck", "shell", "fork"}) => ~signalled
    /\ KillExplained

(* The watchdog has seen the deadline pass only in the attempt under way.  *)
TimeoutInv ==
    /\ (kind = "local" /\ pc \in {"attempt", "precheck", "local"}) => ~timeoutFlag
    /\ TimeoutExplained

IInv == /\ TypeOK /\ ChosenInv /\ RetryInv /\ ChildInv /\ SignalInv /\ TimeoutInv
        /\ WatchdogJoined

-----------------------------------------------------------------------------
(* The bound on the attempts is a positive number. *)
LEMMA Bound == TypeOK => (retryCount \in Int /\ MaxAttempts \in Nat \ {0} /\ attempt \in Nat)
  BY RetryAssumption DEF TypeOK, MaxAttempts

(* A fresh task satisfies the invariant. *)
LEMMA InitInv == Init => IInv
<1> SUFFICES ASSUME Init PROVE IInv
  OBVIOUS
<1> USE DEF Init, ShellInit, LocalInit
<1>1. attempt \in 0..(MaxAttempts - 1)
  BY RetryAssumption DEF MaxAttempts
<1>2. TypeOK
  BY <1>1 DEF TypeOK, ExecType, TaskStatus
<1>3. ChosenInv /\ RetryInv /\ WatchdogJoined
  BY DEF ChosenInv, RetryInv, WatchdogJoined, FailedMeansExhausted, Reading
<1>4. ChildInv /\ SignalInv /\ TimeoutInv
  BY DEF ChildInv, SignalInv, KillExplained, TimeoutInv, TimeoutExplained, Reading
<1> QED
  BY <1>2, <1>3, <1>4 DEF IInv

(* The steps of TaskRunner. *)
LEMMA RunnerKeeps == IInv /\ RunnerStep /\ UNCHANGED <<shellVars, localVars>> => IInv'
<1> SUFFICES ASSUME IInv, RunnerStep, UNCHANGED <<shellVars, localVars>> PROVE IInv'
  OBVIOUS
<1> USE Bound DEF IInv, TypeOK, ChosenInv, RetryInv, ChildInv, SignalInv, WatchdogJoined,
            FailedMeansExhausted, KillExplained, TimeoutInv, TimeoutExplained, Reading, ExecType,
            TaskStatus, Member, Holder,
            MaxAttempts, shellVars, procVars, localVars, ctxVars, cfgVars, runVars, isCanceled,
            isTimeout, Return
<1>1. CASE Attempt
  <2>1. TypeOK'
    <3>1. overdue' \in BOOLEAN
      BY <1>1 DEF Attempt
    <3> QED
      BY <1>1, <3>1 DEF Attempt
  <2>2. ChosenInv'
    BY <1>1 DEF Attempt
  <2>3. RetryInv'
    BY <1>1 DEF Attempt
  <2>4. ChildInv'
    BY <1>1 DEF Attempt
  <2>5. SignalInv'
    BY <1>1 DEF Attempt
  <2>6. WatchdogJoined'
    BY <1>1 DEF Attempt
  <2>7. TimeoutInv'
    BY <1>1 DEF Attempt
  <2> QED
    BY <2>1, <2>2, <2>3, <2>4, <2>5, <2>6, <2>7
<1>2. CASE Precheck
  BY <1>2 DEF Precheck
<1>3. CASE Finish
  BY <1>3 DEF Finish
<1>4. CASE Decide
  <2>1. TypeOK'
    <3>1. rested' \in BOOLEAN
      BY <1>4 DEF Decide
    <3> QED
      BY <1>4, <3>1 DEF Decide
  <2>2. ChosenInv'
    BY <1>4 DEF Decide
  <2>3. RetryInv'
    BY <1>4 DEF Decide
  <2>4. ChildInv'
    BY <1>4 DEF Decide
  <2>5. SignalInv'
    BY <1>4 DEF Decide
  <2>6. WatchdogJoined'
    BY <1>4 DEF Decide
  <2>7. TimeoutInv'
    BY <1>4 DEF Decide
  <2> QED
    BY <2>1, <2>2, <2>3, <2>4, <2>5, <2>6, <2>7
<1>5. CASE BackoffOver
  BY <1>5 DEF BackoffOver
<1>6. CASE BackoffCanceled
  BY <1>6 DEF BackoffCanceled
<1> QED
  BY <1>1, <1>2, <1>3, <1>4, <1>5, <1>6 DEF RunnerStep

(* The steps of the shell strategy. *)
LEMMA ShellKeeps == IInv /\ ShellStep /\ UNCHANGED <<localVars, runVars>> => IInv'
<1> SUFFICES ASSUME IInv, ShellStep, UNCHANGED <<localVars, runVars>> PROVE IInv'
  OBVIOUS
<1> USE Bound DEF IInv, TypeOK, ChosenInv, RetryInv, ChildInv, SignalInv, WatchdogJoined,
            FailedMeansExhausted, KillExplained, TimeoutInv, TimeoutExplained, Reading, ExecType,
            TaskStatus, Member, Holder,
            MaxAttempts, shellVars, procVars, localVars, ctxVars, cfgVars, runVars, isCanceled,
            isTimeout, Return, Sigterm, Sigkill, Struck
<1>1. CASE ShellReject
  BY <1>1 DEF ShellReject
<1>2. CASE ShellStart
  BY <1>2 DEF ShellStart
<1>3. CASE Fork
  <2>1. TypeOK'
    <3>1. open' \in BOOLEAN /\ exited' \in BOOLEAN
      BY <1>3 DEF Fork
    <3>2. exitOk' \in BOOLEAN /\ signalled' \in BOOLEAN
      BY <1>3 DEF Fork
    <3>3. stubborn' \subseteq Member /\ holds' \subseteq Holder /\ unread' \in BOOLEAN
      BY <1>3 DEF Fork
    <3> QED
      BY <1>3, <3>1, <3>2, <3>3 DEF Fork
  <2>2. ChosenInv'
    BY <1>3 DEF Fork
  <2>3. RetryInv'
    BY <1>3 DEF Fork
  <2>4. ChildInv'
    BY <1>3 DEF Fork
  <2>5. SignalInv'
    BY <1>3 DEF Fork
  <2>6. WatchdogJoined'
    BY <1>3 DEF Fork
  <2>7. TimeoutInv'
    BY <1>3 DEF Fork
  <2> QED
    BY <2>1, <2>2, <2>3, <2>4, <2>5, <2>6, <2>7
<1>4. CASE ShellCheck
  <2>1. TypeOK'
    <3>1. signalled' \in BOOLEAN
      BY <1>4 DEF ShellCheck
    <3>2. leader' \in {"none", "running", "dying", "zombie", "reaped"}
      BY <1>4 DEF ShellCheck
    <3>3. helper' \in {"none", "running", "dying", "ended"}
      BY <1>4 DEF ShellCheck
    <3> QED
      BY <1>4, <3>1, <3>2, <3>3 DEF ShellCheck
  <2>2. ChosenInv'
    BY <1>4 DEF ShellCheck
  <2>3. RetryInv'
    BY <1>4 DEF ShellCheck
  <2>4. ChildInv'
    BY <1>4 DEF ShellCheck
  <2>5. SignalInv'
    BY <1>4 DEF ShellCheck
  <2>6. WatchdogJoined'
    BY <1>4 DEF ShellCheck
  <2>7. TimeoutInv'
    BY <1>4 DEF ShellCheck
  <2> QED
    BY <2>1, <2>2, <2>3, <2>4, <2>5, <2>6, <2>7
<1>5. CASE GraceReap
  BY <1>5 DEF GraceReap
<1>6. CASE GraceOver
  BY <1>6 DEF GraceOver
<1>7. CASE Drain
  <2>1. TypeOK'
    <3>1. open' \in BOOLEAN
      BY <1>7 DEF Drain
    <3>2. unread' \in BOOLEAN
      BY <1>7 DEF Drain
    <3>3. pc' \in {"poll", "reap"}
      BY <1>7 DEF Drain
    <3> QED
      BY <1>7, <3>1, <3>2, <3>3 DEF Drain
  <2>2. ChosenInv'
    BY <1>7 DEF Drain
  <2>3. RetryInv'
    BY <1>7 DEF Drain
  <2>4. ChildInv'
    BY <1>7 DEF Drain
  <2>5. SignalInv'
    BY <1>7 DEF Drain
  <2>6. WatchdogJoined'
    BY <1>7 DEF Drain
  <2>7. TimeoutInv'
    BY <1>7 DEF Drain
  <2> QED
    BY <2>1, <2>2, <2>3, <2>4, <2>5, <2>6, <2>7
<1>8. CASE Reap
  <2>1. TypeOK'
    BY <1>8 DEF Reap
  <2>2. ChosenInv'
    BY <1>8 DEF Reap
  <2>3. RetryInv'
    BY <1>8 DEF Reap
  <2>4. ChildInv'
    BY <1>8 DEF Reap
  <2>5. SignalInv'
    BY <1>8 DEF Reap
  <2>6. WatchdogJoined'
    BY <1>8 DEF Reap
  <2>7. TimeoutInv'
    BY <1>8 DEF Reap
  <2> QED
    BY <2>1, <2>2, <2>3, <2>4, <2>5, <2>6, <2>7
<1>9. CASE ShellVerdict
  BY <1>9 DEF ShellVerdict
<1> QED
  BY <1>1, <1>2, <1>3, <1>4, <1>5, <1>6, <1>7, <1>8, <1>9 DEF ShellStep

(* The steps of the local strategy. *)
LEMMA LocalKeeps == IInv /\ LocalStep /\ UNCHANGED <<shellVars, runVars>> => IInv'
<1> SUFFICES ASSUME IInv, LocalStep, UNCHANGED <<shellVars, runVars>> PROVE IInv'
  OBVIOUS
<1> USE Bound DEF IInv, TypeOK, ChosenInv, RetryInv, ChildInv, SignalInv, WatchdogJoined,
            FailedMeansExhausted, KillExplained, TimeoutInv, TimeoutExplained, Reading, ExecType,
            TaskStatus, Member, Holder,
            MaxAttempts, shellVars, procVars, localVars, ctxVars, cfgVars, runVars, isCanceled,
            isTimeout, Return
<1>1. CASE LocalReject
  BY <1>1 DEF LocalReject
<1>2. CASE LocalStart
  <2>1. TypeOK'
    <3>1. doneFlag' \in BOOLEAN /\ timeoutFlag' \in BOOLEAN
      BY <1>2 DEF LocalStart
    <3>2. watchdog' \in {"none", "watch", "look", "over"}
      BY <1>2 DEF LocalStart
    <3> QED
      BY <1>2, <3>1, <3>2 DEF LocalStart
  <2>2. ChosenInv'
    BY <1>2 DEF LocalStart
  <2>3. RetryInv'
    BY <1>2 DEF LocalStart
  <2>4. ChildInv'
    BY <1>2 DEF LocalStart
  <2>5. SignalInv'
    BY <1>2 DEF LocalStart
  <2>6. WatchdogJoined'
    BY <1>2 DEF LocalStart
  <2>7. TimeoutInv'
    BY <1>2 DEF LocalStart
  <2> QED
    BY <2>1, <2>2, <2>3, <2>4, <2>5, <2>6, <2>7
<1>3. CASE FuncReturns
  BY <1>3 DEF FuncReturns
<1>4. CASE SetDone
  BY <1>4 DEF SetDone
<1>5. CASE JoinWatchdog
  BY <1>5 DEF JoinWatchdog
<1> QED
  BY <1>1, <1>2, <1>3, <1>4, <1>5 DEF LocalStep

(* The watchdog thread. *)
LEMMA WatchdogKeeps == IInv /\ Watchdog => IInv'
<1> SUFFICES ASSUME IInv, Watchdog PROVE IInv'
  OBVIOUS
<1> USE Bound DEF IInv, TypeOK, ChosenInv, RetryInv, ChildInv, SignalInv, WatchdogJoined,
            FailedMeansExhausted, KillExplained, TimeoutInv, TimeoutExplained, Reading, ExecType,
            TaskStatus, Member, Holder,
            MaxAttempts, shellVars, procVars, localVars, ctxVars, cfgVars, runVars, isCanceled,
            isTimeout, Return, Watchdog, WatchdogStep
<1>1. CASE WatchDone
  BY <1>1 DEF WatchDone
<1>2. CASE WatchContext
  BY <1>2 DEF WatchContext
<1> QED
  BY <1>1, <1>2 DEF Watchdog, WatchdogStep

(* The processes of the command. *)
LEMMA ProcessesKeep == IInv /\ Processes => IInv'
<1> SUFFICES ASSUME IInv, Processes PROVE IInv'
  OBVIOUS
<1> USE Bound DEF IInv, TypeOK, ChosenInv, RetryInv, ChildInv, SignalInv, WatchdogJoined,
            FailedMeansExhausted, KillExplained, TimeoutInv, TimeoutExplained, Reading, ExecType,
            TaskStatus, Member, Holder,
            MaxAttempts, shellVars, procVars, localVars, ctxVars, cfgVars, runVars, isCanceled,
            isTimeout, Return, Processes, ProcessStep, Alive
<1>1. CASE LeaderEnds
  BY <1>1 DEF LeaderEnds
<1>2. CASE HelperStarts
  BY <1>2 DEF HelperStarts
<1>3. CASE HelperEnds
  BY <1>3 DEF HelperEnds
<1>4. CASE ClosesPipes
  <2>1. TypeOK'
    <3>1. holds' \subseteq Holder
      BY <1>4 DEF ClosesPipes
    <3> QED
      BY <1>4, <3>1 DEF ClosesPipes
  <2>2. ChosenInv'
    BY <1>4 DEF ClosesPipes
  <2>3. RetryInv'
    BY <1>4 DEF ClosesPipes
  <2>4. ChildInv'
    BY <1>4 DEF ClosesPipes
  <2>5. SignalInv'
    BY <1>4 DEF ClosesPipes
  <2>6. WatchdogJoined'
    BY <1>4 DEF ClosesPipes
  <2>7. TimeoutInv'
    BY <1>4 DEF ClosesPipes
  <2> QED
    BY <2>1, <2>2, <2>3, <2>4, <2>5, <2>6, <2>7
<1>5. CASE Writes
  <2>1. TypeOK'
    BY <1>5 DEF Writes
  <2>2. ChosenInv'
    BY <1>5 DEF Writes
  <2>3. RetryInv'
    BY <1>5 DEF Writes
  <2>4. ChildInv'
    BY <1>5 DEF Writes
  <2>5. SignalInv'
    BY <1>5 DEF Writes
  <2>6. WatchdogJoined'
    BY <1>5 DEF Writes
  <2>7. TimeoutInv'
    BY <1>5 DEF Writes
  <2> QED
    BY <2>1, <2>2, <2>3, <2>4, <2>5, <2>6, <2>7
<1> QED
  BY <1>1, <1>2, <1>3, <1>4, <1>5 DEF Processes, ProcessStep

(* The owner of the flag, time, and steps that change nothing. *)
LEMMA OthersKeep ==
  IInv /\ (SetCancel \/ DeadlinePasses \/ PausePasses \/ UNCHANGED vars) => IInv'
<1> SUFFICES ASSUME IInv, SetCancel \/ DeadlinePasses \/ PausePasses \/ UNCHANGED vars PROVE IInv'
  OBVIOUS
<1> USE Bound DEF IInv, TypeOK, ChosenInv, RetryInv, ChildInv, SignalInv, WatchdogJoined,
            FailedMeansExhausted, KillExplained, TimeoutInv, TimeoutExplained, Reading, ExecType,
            TaskStatus, Member, Holder,
            MaxAttempts, shellVars, procVars, localVars, ctxVars, cfgVars, runVars
<1>1. CASE SetCancel
  BY <1>1 DEF SetCancel
<1>2. CASE DeadlinePasses
  BY <1>2 DEF DeadlinePasses
<1>3. CASE PausePasses
  BY <1>3 DEF PausePasses
<1>4. CASE UNCHANGED vars
  BY <1>4 DEF vars
<1> QED
  BY <1>1, <1>2, <1>3, <1>4

LEMMA NextInv == IInv /\ [Next]_vars => IInv'
<1>1. IInv /\ Thread => IInv'
  BY RunnerKeeps, ShellKeeps, LocalKeeps DEF Thread
<1> QED
  BY <1>1, WatchdogKeeps, ProcessesKeep, OthersKeep DEF Next, Returned

(* The inductive invariant of a task. *)
THEOREM RunnerInvariance == Spec => []IInv
  BY InitInv, NextInv, PTL DEF Spec

(* Type correctness; at most max(1, retryCount + 1) attempts are made.     *)
THEOREM RunnerTypeCorrect == Spec => []TypeOK
<1>1. IInv => TypeOK
  BY DEF IInv
<1> QED
  BY <1>1, RunnerInvariance, PTL

(* A failure ends the task only after its last attempt. *)
LEMMA ExhaustedCorrect == Spec => []FailedMeansExhausted
<1>1. IInv => FailedMeansExhausted
  BY DEF IInv, RetryInv
<1> QED
  BY <1>1, RunnerInvariance, PTL

(* A command whose group was signalled is reported as Timeout or Canceled, *)
(* and not started again.                                                  *)
THEOREM KillExplainedCorrect == Spec => []KillExplained
<1>1. IInv => KillExplained
  BY DEF IInv, SignalInv
<1> QED
  BY <1>1, RunnerInvariance, PTL

(* An attempt whose deadline the watchdog has seen pass is reported as     *)
(* Timeout, whatever the function returned, and not made again.            *)
THEOREM TimeoutExplainedCorrect == Spec => []TimeoutExplained
<1>1. IInv => TimeoutExplained
  BY DEF IInv, TimeoutInv
<1> QED
  BY <1>1, RunnerInvariance, PTL

(* The watchdog thread never outlives the locals of execute(). *)
THEOREM WatchdogCorrect == Spec => []WatchdogJoined
<1>1. IInv => WatchdogJoined
  BY DEF IInv
<1> QED
  BY <1>1, RunnerInvariance, PTL

(* All of the above in every state of every task. *)
THEOREM RunnerSoundCorrect == Spec => []RunnerSound
<1>1. TypeOK /\ FailedMeansExhausted /\ KillExplained /\ TimeoutExplained /\ WatchdogJoined
        => RunnerSound
  BY DEF RunnerSound
<1> QED
  BY <1>1, RunnerTypeCorrect, ExhaustedCorrect, KillExplainedCorrect, TimeoutExplainedCorrect,
     WatchdogCorrect, PTL

(* Only Fork makes the leader run, and it does so when the last one was    *)
(* reaped.                                                                 *)
LEMMA OnlyForkStarts ==
  ASSUME IInv, Next, leader' = "running", leader # "running"
  PROVE  leader \in {"none", "reaped"}
<1> USE DEF shellVars, procVars
<1>1. CASE Thread
  <2>1. CASE UNCHANGED shellVars
    BY <2>1
  <2>2. CASE ShellStep
    <3>1. CASE Fork
      BY <3>1 DEF Fork, IInv, ChildInv, Reading
    <3>2. CASE ShellReject \/ ShellStart \/ Drain \/ ShellVerdict
      BY <3>2 DEF ShellReject, ShellStart, Drain, ShellVerdict
    <3>3. CASE ShellCheck \/ GraceReap \/ GraceOver \/ Reap
      BY <3>3 DEF ShellCheck, GraceReap, GraceOver, Reap, Sigterm, Sigkill, Struck
    <3> QED
      BY <2>2, <3>1, <3>2, <3>3 DEF ShellStep
  <2> QED
    BY <1>1, <2>1, <2>2 DEF Thread
<1>2. CASE Processes
  BY <1>2 DEF Processes, ProcessStep, LeaderEnds, HelperStarts, HelperEnds, ClosesPipes,
              Writes
<1>3. CASE Watchdog \/ SetCancel \/ DeadlinePasses \/ PausePasses \/ Returned
  BY <1>3 DEF Watchdog, SetCancel, DeadlinePasses, PausePasses, Returned, vars
<1> QED
  BY <1>1, <1>2, <1>3 DEF Next

(* The commands of one task never overlap, and none is left unreaped when  *)
(* the next one starts.                                                    *)
THEOREM NoOverlapCorrect == Spec => NoOverlap
<1>1. IInv /\ [Next]_vars =>
        [(leader' = "running" /\ leader # "running") => leader \in {"none", "reaped"}]_vars
  BY OnlyForkStarts
<1> QED
  BY <1>1, RunnerInvariance, PTL DEF Spec, NoOverlap
=============================================================================
