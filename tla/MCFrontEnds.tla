----------------------------- MODULE MCFrontEnds -----------------------------
(***************************************************************************)
(* A small instance of FrontEnds: two sessions, a settings page.           *)
(***************************************************************************)
EXTENDS FrontEnds

None == [b \in Bounded |-> 0]
With(f) == f @@ None

\* Sessions that come and go under the user's clicks; an engine that goes and
\* comes back; its service commands; installs, their retries and their removal.
Sessions == With([moves |-> 1, clicks |-> 1])
Hurry == With([clicks |-> 2, timeouts |-> 1])
Outages == With([clicks |-> 1, deaths |-> 1, starts |-> 1])
Services == With([services |-> 1, quits |-> 1])
Retries == With([posts |-> 2, joins |-> 1])
Removals == With([posts |-> 2, deletes |-> 1])
Watching == With([posts |-> 1, joins |-> 2, deletes |-> 1])
Crashes == With([posts |-> 2, deaths |-> 1, starts |-> 1])
MCFrontBudgets == {Sessions, Hurry, Outages, Services, Retries, Removals, Watching, Crashes}
=============================================================================
