---- MODULE MCLogStream ----
(* The log stream on one task with one run id or none, so two buffers. *)
EXTENDS LogStream
CONSTANTS t1, r1
MCKey == {<<t1, r1>>, <<t1, NoRun>>}
MCPaged == <<t1, NoRun>>
MCChannel == {<<"log", t1, r1>>, <<"log", t1, NoRun>>, <<"event", NoRun, r1>>}
MCPages == {1, 2}
Nothing == [log |-> 0, event |-> 0, age |-> 0, page |-> 0, connect |-> 0, subscription |-> 0,
            command |-> 0, reply |-> 0, all |-> 0, expire |-> 0]
(* The file alone; a paging client; a subscriber of two threads; a subscriber *)
(* that turns to a worker, a busy one as well.                               *)
MCProfiles == {[Nothing EXCEPT !.log = 4],
               [Nothing EXCEPT !.log = 3, !.age = 1, !.page = 2],
               [Nothing EXCEPT !.log = 1, !.event = 1, !.connect = 1, !.subscription = 2],
               [Nothing EXCEPT !.connect = 1, !.command = 3, !.reply = 1, !.all = 1, !.expire = 1],
               [Nothing EXCEPT !.connect = 1, !.command = 4],
               [Nothing EXCEPT !.log = 1, !.connect = 1, !.subscription = 1, !.command = 1]}
====
