------------------------ MODULE MCRecurringScheduler ------------------------
EXTENDS RecurringScheduler

CONSTANTS old, new

\* The release that is being deployed declares the second schedule by cron, the
\* old one by an interval: at 0 and 1 the two agree about all but the key.
Cron == [format |-> "cron", at |-> {0, 1, 2}]
Interval == [format |-> "interval", at |-> {0, 1}]

MCSchedules == <<1, 2>>
MCDeclared == (old :> <<Cron, Interval>>) @@ (new :> <<Cron, Cron>>)
MCCatchUp == <<1, 2>>
=============================================================================
