--------------------------------- MODULE MCTab ---------------------------------
(* The small instances of one tab of the browser: how its pages stay current,  *)
(* whom it shows as signed in, which rows its lists reach, and what its viewer *)
(* of a service shows.                                                         *)
EXTENDS LiveViews, Session, Lists, Viewer, TLC

CONSTANTS worker, operator, s1, s2
SmallRole == worker :> "WORKER" @@ operator :> "SUPER_ADMIN"
SmallMatch == "any" :> Items @@ "odd" :> {i \in Items : i % 2 = 1}

SmallRows == s1 :> <<"p1", "v1", "v2", "p2">> @@ s2 :> <<"v3", "d1", "p3">>
SmallKind == [p1 |-> "photo", p2 |-> "photo", p3 |-> "photo", v1 |-> "stream", v2 |-> "file",
              v3 |-> "file", d1 |-> "pdf"]

VARIABLE instance
small == <<vars, session, lists, viewing, instance>>

SmallInit ==
  /\ instance \in {"views", "session", "lists", "viewer"}
  /\ Init /\ SessionInit /\ ListsInit /\ ViewerInit
  /\ instance # "session" => cookie.id = Nobody /\ tab.page = "login"
  /\ instance # "views" => page = "service"
  /\ instance = "session" => tab.page \in {"login", "register", "users"}
  /\ instance # "lists" =>
       list.screen = "users" /\ ~list.phone /\ list.limit = 1 /\ stored = [i \in Items |-> 0]
  /\ instance # "viewer" => viewer.surface = "drawer"
  /\ instance = "lists" => Present(stored) = Items

\* The tab is at rest before its views and lists move, and then stays so.
SmallNext ==
  /\ \/ instance = "viewer" /\ AtRest /\ ViewerNext /\ UNCHANGED <<vars, session, lists>>
     \/ instance = "views" /\ AtRest /\ Next /\ UNCHANGED <<session, lists, viewing>>
     \/ instance = "lists" /\ AtRest /\ ListsNext /\ UNCHANGED <<vars, session, viewing>>
     \/ instance # "session" /\ ~AtRest /\ Browser /\ UNCHANGED <<vars, lists, viewing>>
     \/ instance = "session" /\ SessionNext /\ UNCHANGED <<vars, lists, viewing>>
  /\ UNCHANGED instance

SmallSpec == SmallInit /\ [][SmallNext]_small /\ SessionFairness
================================================================================
