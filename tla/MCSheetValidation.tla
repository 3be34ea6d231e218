-------------------------- MODULE MCSheetValidation --------------------------
(* Small sheets for SheetValidation and Compliance: rows that are right, and *)
(* rows with one or two things wrong.                                       *)
EXTENDS Compliance

MCNormal == [s \in Spellings |-> IF s = "A" THEN "a" ELSE s]
MCDateOf == [t \in DateTexts |-> IF t = "2026-06-01" THEN 200 ELSE 100]

\* Both ends of the days on which a status changes, for due days 100 and 200.
MCInstants ==
  {24 * d + h : d \in {due + k : due \in {100, 200}, k \in {-90, -89, 0, 1, 364, 365}},
                h \in {0, 23}}

MCLastLine == [s \in Slots |-> IF s = "filings" THEN 4 ELSE 3]

Right ==
  [name |-> "a", type |-> "Entity", jurisdiction |-> "de", domestic |-> Blank,
   id |-> Blank, status |-> "Active", statusDate |-> Blank, formed |-> Blank,
   unlisted |-> {}]

MCEntityRows ==
  {Right,
   [Right EXCEPT !.name = "A", !.id = "i", !.status = "Dissolved", !.statusDate = "2026-01-02"],
   [Right EXCEPT !.name = "b", !.jurisdiction = "ny", !.id = "i"],
   [Right EXCEPT !.name = "b", !.type = "FQ", !.domestic = "A"],
   [Right EXCEPT !.type = "FQ", !.domestic = "b"],
   [Right EXCEPT !.name = Blank, !.jurisdiction = Malformed, !.type = "FQ"],
   [Right EXCEPT !.name = "b", !.status = "Dissolved", !.formed = "2026-06-01",
                 !.unlisted = {"Global Region"}]}

Half == [parent |-> "A", child |-> "b", pct |-> 5000]
MCOwnershipRows ==
  {Half, [Half EXCEPT !.parent = "a"], [Half EXCEPT !.child = "a"],
   [Half EXCEPT !.child = Blank, !.pct = Malformed]}

DueRow ==
  [name |-> "a", type |-> "annual", jurisdiction |-> "de", due |-> "2026-01-02",
   filed |-> Blank, status |-> "Not Started"]
MCFilingRows ==
  {DueRow,
   [DueRow EXCEPT !.name = "A"],
   [DueRow EXCEPT !.due = "2026-06-01"],
   [DueRow EXCEPT !.status = "Filed"],
   [DueRow EXCEPT !.due = "1/2/2026", !.filed = "2026-01-02", !.status = "Filed"],
   [DueRow EXCEPT !.name = "b", !.jurisdiction = "ny", !.status = "Canceled"],
   [DueRow EXCEPT !.due = Malformed, !.type = Blank]}
===============================================================================
