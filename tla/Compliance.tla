------------------------------ MODULE Compliance ------------------------------
(***************************************************************************)
(* The compliance status that the list and the report derive at read time  *)
(* from what an upload stored: the entity's status, and the earliest due   *)
(* date of its open filings as seen from the server's present instant.     *)
(* Instants are hours; a due date is the midnight, UTC, its day begins at. *)
(***************************************************************************)
EXTENDS SheetValidation

CONSTANTS
  UtcOffset,  \* of the server's time zone, in hours
  Instants    \* bound: when the status is looked at

ASSUME ClockAssumption == UtcOffset \in Int /\ Instants \subseteq Nat

\* INELIGIBLE_FILING_STATUSES
Ineligible == {"Filed", "Canceled"}

\* The due days stored for the filings of n that are still to be done.
DueDays(n) ==
  {key[3] : key \in {k \in DOMAIN filings : k[1] = n /\ Due(filings[k]).status \notin Ineligible}}

\* Mutant: the due date of the last of them.
LatestDueDate(n) == 24 * CHOOSE d \in DueDays(n) : \A e \in DueDays(n) : e <= d

NextDueDate(n) == 24 * CHOOSE d \in DueDays(n) : \A e \in DueDays(n) : d <= e

\* The calendar day is the local one, of the present instant and of the due date.
Day(instant) == (instant + UtcOffset) \div 24
DaysBetween(from, to) == Day(to) - Day(from)

ComplianceStatus(n, now) ==
  LET d == DaysBetween(now, NextDueDate(n)) IN
  IF Entity(LineOf(n)).status \in TerminalStatuses THEN "NOT_APPLICABLE"
  ELSE IF DueDays(n) = {} THEN "TBD"
  ELSE IF d >= 90 THEN "GOOD_STANDING"
  ELSE IF d >= 0 THEN "FILING_DUE"
  ELSE IF d >= -364 THEN "OVERDUE"
  ELSE "SUSPENDED"

\* What the rows of filings.csv say of an entity is what its status says after the
\* upload, whatever order they came in and whichever statement stored them: it
\* is suspended as soon as one open filing is a year late, overdue as soon as one
\* is late, in good standing while none is due within 90 days.  Every entity
\* has one status at any instant.
StatusFollowsFilings ==
  step = "written" => Rewritten \/ \A n \in Known :
    LET terminal == \E l \in entityRows :
                      Normal[Entity(l).name] = n /\ Entity(l).status \in TerminalStatuses
        open == {DateOf[Due(l).due] :
                   l \in {k \in filingRows :
                           Normal[Due(k).name] = n /\ Due(k).status \notin {"Filed", "Canceled"}}}
    IN  \A now \in Instants :
          LET Late(days) == \E d \in open : (now \div 24) - d >= days
              status == ComplianceStatus(n, now)
          IN  /\ status = "NOT_APPLICABLE" <=> terminal
              /\ status = "TBD" <=> ~terminal /\ open = {}
              /\ status = "SUSPENDED" <=> ~terminal /\ Late(365)
              /\ status = "OVERDUE" <=> ~terminal /\ Late(1) /\ ~Late(365)
              /\ status = "FILING_DUE" <=> ~terminal /\ Late(-89) /\ ~Late(1)
              /\ status = "GOOD_STANDING" <=> ~terminal /\ open # {} /\ ~Late(-89)
===============================================================================
