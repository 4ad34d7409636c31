------------------------------- MODULE MCServices -------------------------------
(* The small instances of a service and its readers, and of the mails.         *)
EXTENDS Services, Mailer, TLC

CONSTANTS t1, t2, gone, admin, guest

\* A text whose words are taken for Spanish though the model takes it for English,
\* one whose words say nothing, and the title of what was deleted.
SmallGuess    == [t \in Texts |-> IF t = t1 THEN "es" ELSE None]
SmallNamed    == [t \in Texts |-> IF t = gone THEN {None} ELSE {"en", None}]
SmallEligible == [f \in Fields |-> IF f = "title" THEN Texts ELSE Texts \ {gone}]
SmallDrafts   == {[title |-> t1, description |-> d] : d \in {t1, t2}}
SmallDtos     == {[title |-> None, description |-> t1, public |-> "yes"],
                  [title |-> None, description |-> None, public |-> "no"]}

SmallRoles == admin :> "ADMIN" @@ guest :> "EXTERNAL"

\* Handlers have no order.
Symmetry == Permutations(Requests)

VARIABLE instance
small == <<vars, letters, instance>>

SmallInit ==
  /\ instance \in {"service", "mails"}
  /\ Init /\ MailerInit
  /\ instance # "service" => ai = "off"
  /\ instance # "mails" => ~post.key /\ ~post.url /\ ~post.over

SmallNext ==
  /\ \/ instance = "service" /\ Next /\ UNCHANGED letters
     \/ instance = "mails" /\ MailerNext /\ UNCHANGED vars
  /\ UNCHANGED instance

SmallSpec == SmallInit /\ [][SmallNext]_small
=================================================================================
