-------------------------------- MODULE MCAuth --------------------------------
(* The small instances of Auth that TLC checks, and beside them those of what   *)
(* the pages offer an account that has signed in.                               *)
EXTENDS Auth, Offers, TLC

CONSTANTS s1, d1

\* The kinds of rows that each page shows, and so that may change under it.
SmallMatter ==
  [s \in Screen |->
     CASE s = "users"  -> {"user", "organization"}
       [] s = "asset"  -> {"asset"}
       [] s \in {"assets", "service"} -> {"asset", "service"}
       [] s \in {"owners", "trash"}   -> {"owner", "asset"}
       [] s = "organizations"         -> {"organization"}]

VARIABLE instance
small == <<vars, offers, instance>>

\* While one of the two moves, the other rests in one state.  Sessions are alike
\* and so are devices: the account has signed in with the first of each.
SmallInit ==
  /\ instance \in {"auth", "offers"}
  /\ Init /\ OffersInit
  /\ session[s1].jti = 1 /\ session[s1].dev = d1
  /\ instance = "auth" => desk.screen = "asset" /\ desk.role = "ADMIN" /\ ~desk.self
                          /\ records.asset = RestoredRow
  /\ instance = "offers" => account.method = "APP" /\ ~account.super /\ ~account.tfa

SmallNext ==
  /\ \/ instance = "auth" /\ Next /\ UNCHANGED offers
     \/ instance = "offers" /\ OffersNext /\ UNCHANGED vars
  /\ UNCHANGED instance

SmallSpec == SmallInit /\ [][SmallNext]_small
=============================================================================
