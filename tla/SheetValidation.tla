--------------------------- MODULE SheetValidation ---------------------------
(***************************************************************************)
(* The three sheets of an upload: parseSlot, the sheet validators one      *)
(* after the other, and the write of the filings.  Ownership and filing    *)
(* rows are checked against the entity rows that passed, every error is    *)
(* collected, and nothing is written if there is one.                      *)
(*                                                                         *)
(* A cell is Blank, Malformed (what no rule of its column accepts) or a    *)
(* value.  Names are spellings of a name, dates are texts of a date: rules *)
(* that compare a cell's text and rules that compare what it stands for    *)
(* can differ.  Lookups in the database and the graph are in Registry.     *)
(***************************************************************************)
EXTENDS UploadBatch

CONSTANTS
  Spellings, Normal,      \* texts of names, and normalizeName
  DateTexts, DateOf,      \* texts of dates, and parseDate: days
  Today,                  \* the day of the upload
  Blank, Malformed,
  Jurisdictions, FilingTypes, Statuses, FilingStatuses,
  TerminalStatuses,       \* of entities
  ChunkSize,              \* rows of a statement
  EntityRows, OwnershipRows, FilingRows,  \* bound: the rows sheets are made of
  LastLine                \* bound: last line of each sheet

Slots == {"entities", "ownership", "filings"}

ASSUME SheetAssumption ==
  /\ Normal \in [Spellings -> Names] /\ DateOf \in [DateTexts -> Int] /\ Today \in Int
  /\ Blank \notin Spellings \cup DateTexts \cup Jurisdictions \cup FilingTypes \cup Statuses
                  \cup FilingStatuses \cup BusinessIds \cup {"Entity", "FQ"}
  /\ Malformed \notin Spellings \cup DateTexts \cup Jurisdictions \cup FilingTypes \cup Statuses
                  \cup FilingStatuses \cup {"Entity", "FQ"}
  /\ {Blank, Malformed} \cap Percentages = {}
  /\ TerminalStatuses \subseteq Statuses
  /\ ChunkSize \in Nat \ {0} /\ LastLine \in [Slots -> Nat \ {0}]
  /\ EntityRows \subseteq
       [name : Spellings \cup {Blank}, type : Types \cup {Blank, Malformed},
        jurisdiction : Jurisdictions \cup {Blank, Malformed},
        domestic : Spellings \cup {Blank}, id : BusinessIds \cup {Blank},
        status : Statuses \cup {Blank, Malformed},
        statusDate : DateTexts \cup {Blank, Malformed},
        formed : DateTexts \cup {Blank, Malformed},
        unlisted : SUBSET {"Entity Type", "Global Region"}]
  /\ OwnershipRows \subseteq
       [parent : Spellings \cup {Blank}, child : Spellings \cup {Blank},
        pct : Percentages \cup {Blank, Malformed}]
  /\ FilingRows \subseteq
       [name : Spellings \cup {Blank}, type : FilingTypes \cup {Blank, Malformed},
        jurisdiction : Jurisdictions \cup {Blank, Malformed},
        due : DateTexts \cup {Blank, Malformed}, filed : DateTexts \cup {Blank, Malformed},
        status : FilingStatuses \cup {Blank, Malformed}]

VARIABLES
  parsed,         \* how the parsing of each slot's file went
  sheet,          \* its rows by line number
  step,           \* the next step of the upload, then its outcome
  errors,         \* errors so far: slot, line and column
  entityRows,     \* lines of the rows that passed
  ownershipRows,
  filingRows,
  filings         \* the filings written: the line each key was last written from

vars == <<parsed, sheet, step, errors, entityRows, ownershipRows, filingRows, filings>>

\* Line 1 is the header.  Rows without any text are skipped by the parser; no rule
\* minds the gaps they leave, so there are none.
SheetsOf(slot, rows) == UNION {[2 .. last -> rows] : last \in 1 .. LastLine[slot]}
NoRows == [l \in {} |-> 0]
Lines(slot) == DOMAIN sheet[slot]

Init ==
  /\ parsed = [s \in Slots |-> "unreadable"]
  /\ sheet = [s \in Slots |-> NoRows]
  /\ step = "parse"
  /\ errors = {}
  /\ entityRows = {} /\ ownershipRows = {} /\ filingRows = {}
  /\ filings = [k \in {} |-> 0]

-------------------------------------------------------------------------------
(* The rules of a row                                                      *)

When(broken, column) == IF broken THEN {column} ELSE {}

NotADate(text) == text \notin DateTexts \cup {Blank}
InFuture(text) == text \in DateTexts /\ DateOf[text] > Today

EntityCellErrors(r) ==
  When(r.name = Blank, "Entity Name")
    \cup When(r.type \notin {"Entity", "FQ"}, "Registration Type")
    \cup When(r.jurisdiction \notin Jurisdictions, "Jurisdiction")
    \cup r.unlisted
    \cup When(r.status \notin Statuses, "Entity Status")
    \cup When(NotADate(r.statusDate), "Status Date")
    \cup When(r.status \in TerminalStatuses /\ r.statusDate = Blank, "Status Date")
    \cup When(r.type = "FQ" /\ r.domestic = Blank, "Domestic Entity")
    \cup When(r.type = "Entity" /\ r.domestic # Blank, "Domestic Entity")
    \cup When(NotADate(r.formed) \/ InFuture(r.formed), "Formation Date")

Entity(l) == sheet["entities"][l]

\* Mutant: they hold all entity rows.
NamedByAnyRow(name) ==
  {l \in Lines("entities") :
     Blank \notin {name, Entity(l).name} /\ Normal[Entity(l).name] = Normal[name]}

\* entityTypeByName and entityJurisdictionByName hold the entity rows that passed.
Named(name) == {l \in entityRows : name # Blank /\ Normal[Entity(l).name] = Normal[name]}

\* Mutant: an FQ may own and be owned.
EndErrorsOfUnknown(name, column) == When(Named(name) = {}, column)

EndErrors(name, column) ==
  When(\A l \in Named(name) : Entity(l).type = "FQ", column)

OwnershipCellErrors(r) ==
  EndErrors(r.parent, "Parent Entity")
    \cup EndErrors(r.child, "Child Entity")
    \cup When(Blank \notin {r.parent, r.child} /\ Normal[r.parent] = Normal[r.child],
              "Child Entity")
    \cup When(r.pct \in {Blank, Malformed}, "Ownership %")

FilingCellErrors(r) ==
  When(Named(r.name) = {}, "Entity Name")
    \cup When(r.type \notin FilingTypes, "Filing Type")
    \cup When(r.jurisdiction \notin Jurisdictions, "Jurisdiction")
    \cup When(\E l \in Named(r.name) : Entity(l).jurisdiction # r.jurisdiction, "Jurisdiction")
    \cup When(r.due \notin DateTexts, "Due Date")
    \cup When(r.status \notin FilingStatuses, "Status")
    \cup When(NotADate(r.filed) \/ InFuture(r.filed), "Filed Date")
    \cup When(r.status = "Filed" /\ r.filed = Blank, "Filed Date")

-------------------------------------------------------------------------------
(* The rules of a sheet: its rows, then the rows that have a key twice      *)

CellErrors(slot, broken) ==
  UNION {{<<slot, l, c>> : c \in broken[l]} : l \in Lines(slot)}

\* Each line with a key that another line has, too.
Repeated(slot, key, column) ==
  {<<slot, l, column>> : l \in {k \in DOMAIN key : \E m \in DOMAIN key \ {k} : key[m] = key[k]}}

\* typeByName: the last row of the name that has a type, among all rows.
NamesAnEntity(name) ==
  \E l \in Lines("entities") :
    /\ Entity(l).name # Blank /\ Normal[Entity(l).name] = Normal[name]
    /\ Entity(l).type = "Entity"
    /\ \A m \in Lines("entities") :
         m > l /\ Entity(m).name # Blank /\ Normal[Entity(m).name] = Normal[name] =>
           Entity(m).type # "FQ"

EntityErrors ==
  LET named == {l \in Lines("entities") : Entity(l).name # Blank}
      withId == {l \in Lines("entities") : Entity(l).id # Blank}
      fqs == {l \in Lines("entities") : Entity(l).type = "FQ" /\ Entity(l).domestic # Blank}
  IN  CellErrors("entities", [l \in Lines("entities") |-> EntityCellErrors(Entity(l))])
        \cup Repeated("entities", [l \in named |-> Normal[Entity(l).name]], "Entity Name")
        \cup Repeated("entities", [l \in withId |-> Entity(l).id], "Entity/Business ID")
        \cup {<<"entities", l, "Domestic Entity">> :
                l \in {k \in fqs : ~NamesAnEntity(Entity(k).domestic)}}

Owned(l) == sheet["ownership"][l]
Pair(l) == <<Normal[Owned(l).parent], Normal[Owned(l).child]>>

\* A row that names one entity twice is in no pair.
OwnershipErrors ==
  LET paired == {l \in Lines("ownership") :
                   Blank \notin {Owned(l).parent, Owned(l).child} /\ Pair(l)[1] # Pair(l)[2]}
  IN  CellErrors("ownership", [l \in Lines("ownership") |-> OwnershipCellErrors(Owned(l))])
        \cup Repeated("ownership", [l \in paired |-> Pair(l)], "Parent Entity")

Due(l) == sheet["filings"][l]

\* Mutants: the text of the name is compared as well; rows with an error are not
\* compared.
FilingErrorsByText ==
  LET keyed == {l \in Lines("filings") :
                  Due(l).name # Blank /\ Due(l).type # Blank /\ Due(l).due \in DateTexts}
      key == [l \in keyed |-> <<Due(l).name, Due(l).type, Due(l).due>>]
  IN  CellErrors("filings", [l \in Lines("filings") |-> FilingCellErrors(Due(l))])
        \cup Repeated("filings", key, "Due Date")
FilingErrorsOfRight ==
  LET keyed == {l \in Lines("filings") : FilingCellErrors(Due(l)) = {}}
      key == [l \in keyed |-> <<Normal[Due(l).name], Due(l).type, Due(l).due>>]
  IN  CellErrors("filings", [l \in Lines("filings") |-> FilingCellErrors(Due(l))])
        \cup Repeated("filings", key, "Due Date")

\* Of filings the text of the due date is compared, not the date.
FilingErrors ==
  LET keyed == {l \in Lines("filings") :
                  Due(l).name # Blank /\ Due(l).type # Blank /\ Due(l).due \in DateTexts}
      key == [l \in keyed |-> <<Normal[Due(l).name], Due(l).type, Due(l).due>>]
  IN  CellErrors("filings", [l \in Lines("filings") |-> FilingCellErrors(Due(l))])
        \cup Repeated("filings", key, "Due Date")

-------------------------------------------------------------------------------
(* The upload                                                              *)

\* parseSlot for all three files: missing, not readable or with too many rows; or
\* its header misses columns, which the validator reports at line 1.
Parse ==
  /\ step = "parse"
  /\ parsed' \in [Slots -> {"unreadable", "misheaded", "parsed"}]
  /\ \E E \in SheetsOf("entities", EntityRows), O \in SheetsOf("ownership", OwnershipRows),
        F \in SheetsOf("filings", FilingRows) :
       LET rows == [entities |-> E, ownership |-> O, filings |-> F] IN
       /\ sheet' = rows
       /\ \A s \in Slots : parsed'[s] # "parsed" => rows[s] = NoRows
  /\ errors' = {<<s, 1, "File">> : s \in {t \in Slots : parsed'[t] = "unreadable"}}
  /\ step' = "entities"
  /\ UNCHANGED <<entityRows, ownershipRows, filingRows, filings>>

\* A parser worker that dies is no error of the upload's: the request fails.
ParserDies ==
  /\ step = "parse"
  /\ step' = "aborted"
  /\ UNCHANGED <<parsed, sheet, errors, entityRows, ownershipRows, filingRows, filings>>

\* A validator adds its errors and passes on the rows that have none.
Report(slot, found) ==
  errors' = errors \cup IF parsed[slot] = "misheaded" THEN {<<slot, 1, "Header">>} ELSE found

Passed(slot, found) == {l \in Lines(slot) : \A e \in found : e[2] # l}

ValidateEntities ==
  /\ step = "entities"
  /\ Report("entities", EntityErrors)
  /\ entityRows' = Passed("entities", EntityErrors)
  /\ step' = "ownership"
  /\ UNCHANGED <<parsed, sheet, ownershipRows, filingRows, filings>>

ValidateOwnership ==
  /\ step = "ownership"
  /\ Report("ownership", OwnershipErrors)
  /\ ownershipRows' = Passed("ownership", OwnershipErrors)
  /\ step' = "filings"
  /\ UNCHANGED <<parsed, sheet, entityRows, filingRows, filings>>

ValidateFilings ==
  /\ step = "filings"
  /\ Report("filings", FilingErrors)
  /\ filingRows' = Passed("filings", FilingErrors)
  /\ step' = "verdict"
  /\ UNCHANGED <<parsed, sheet, entityRows, ownershipRows, filings>>

\* 422 with all the errors.
Reject ==
  /\ step = "verdict" /\ errors # {}
  /\ step' = "rejected"
  /\ UNCHANGED <<parsed, sheet, errors, entityRows, ownershipRows, filingRows, filings>>

\* The unique key of the table filings.
FilingKey(l) == <<Normal[Due(l).name], Due(l).type, DateOf[Due(l).due]>>
Chunk(l) == Cardinality({m \in filingRows : m < l}) \div ChunkSize

\* Pass 4: ON CONFLICT DO UPDATE refuses to touch a row twice in one statement,
\* and a later statement overwrites it.
WriteFails ==
  \E k, l \in filingRows : k # l /\ FilingKey(k) = FilingKey(l) /\ Chunk(k) = Chunk(l)

Write ==
  /\ step = "verdict" /\ errors = {}
  /\ step' = IF WriteFails THEN "failed" ELSE "written"
  /\ filings' =
       IF WriteFails THEN filings
       ELSE [key \in {FilingKey(l) : l \in filingRows} |->
               CHOOSE l \in filingRows :
                 FilingKey(l) = key /\ \A m \in filingRows : FilingKey(m) = key => m <= l]
  /\ UNCHANGED <<parsed, sheet, errors, entityRows, ownershipRows, filingRows>>

Next ==
  \/ Parse \/ ParserDies
  \/ ValidateEntities \/ ValidateOwnership \/ ValidateFilings
  \/ Reject \/ Write

Spec == Init /\ [][Next]_vars

-------------------------------------------------------------------------------
(* Properties                                                              *)

Judged == step = "verdict"
Reported(slot, l) == \E e \in errors : e[1] = slot /\ e[2] = l

\* The batch that goes on to the registry.
LineOf(n) == CHOOSE l \in entityRows : Normal[Entity(l).name] = n
Known == {Normal[Entity(l).name] : l \in entityRows}
RowOf(p) == CHOOSE l \in ownershipRows : Pair(l) = p
Batch ==
  [type |-> [n \in Names |-> IF n \in Known THEN Entity(LineOf(n)).type ELSE "absent"],
   domestic |-> [n \in Names |->
     IF n \in Known /\ Entity(LineOf(n)).domestic # Blank
       THEN Normal[Entity(LineOf(n)).domestic] ELSE NoName],
   business |-> [n \in Names |->
     IF n \in Known /\ Entity(LineOf(n)).id # Blank THEN Entity(LineOf(n)).id ELSE NoId],
   rows |-> [p \in {Pair(l) : l \in ownershipRows} |-> Owned(RowOf(p)).pct]]

\* What Registry takes for granted of a batch: names and IDs are unique, every FQ
\* has a Domestic Entity of the batch, which is no FQ, and so are both ends of a row.
AcceptedFitsRegistry ==
  Judged /\ errors = {} => Batch \in BatchShapes /\ Consistent(Batch)

\* Rows that pass go on to the lookups in the database and the graph even if other
\* rows have errors: they are unique by name, ID and pair, filings by name, type
\* and the text of their due date (not by its day, the key of the table), and they
\* refer to entity rows that pass as well.
PassedRowsFitTogether ==
  Judged =>
    /\ \A k, l \in entityRows :
         Normal[Entity(k).name] = Normal[Entity(l).name]
           \/ (Entity(k).id = Entity(l).id /\ Entity(k).id # Blank) => k = l
    /\ \A l \in ownershipRows :
         /\ \A name \in {Owned(l).parent, Owned(l).child} :
              \E k \in entityRows :
                Normal[Entity(k).name] = Normal[name] /\ Entity(k).type = "Entity"
         /\ Pair(l)[1] # Pair(l)[2]
         /\ \A k \in ownershipRows : Pair(k) = Pair(l) => k = l
    /\ \A l \in filingRows :
         /\ \E k \in entityRows : /\ Normal[Entity(k).name] = Normal[Due(l).name]
                                /\ Entity(k).jurisdiction = Due(l).jurisdiction
         /\ \A k \in filingRows :
              Normal[Due(k).name] = Normal[Due(l).name] /\ Due(k).type = Due(l).type
                /\ Due(k).due = Due(l).due => k = l

\* A row is at fault by itself, or together with another row of its sheet, or
\* because no row of entities.csv, right or wrong, is what it refers to.
RowsNamed(name) ==
  {l \in Lines("entities") :
     Blank \notin {name, Entity(l).name} /\ Normal[Entity(l).name] = Normal[name]}

EntityFault(l) ==
  \/ EntityCellErrors(Entity(l)) # {}
  \/ RowsNamed(Entity(l).name) # {l}
  \/ Entity(l).id # Blank /\ \E m \in Lines("entities") \ {l} : Entity(m).id = Entity(l).id
  \/ Entity(l).type = "FQ" /\ \A m \in RowsNamed(Entity(l).domestic) : Entity(m).type # "Entity"

OwnershipFault(l) ==
  \/ \E name \in {Owned(l).parent, Owned(l).child} :
       \A m \in RowsNamed(name) : Entity(m).type # "Entity"
  \/ Pair(l)[1] = Pair(l)[2]
  \/ Owned(l).pct \notin Percentages
  \/ \E m \in Lines("ownership") \ {l} :
       Blank \notin {Owned(m).parent, Owned(m).child} /\ Pair(m) = Pair(l)

FilingFault(l) ==
  \/ \A m \in RowsNamed(Due(l).name) : Entity(m).jurisdiction # Due(l).jurisdiction
  \/ {Due(l).jurisdiction, Due(l).type, Due(l).due, Due(l).status}
       \cap {Blank, Malformed} # {}
  \/ NotADate(Due(l).filed) \/ InFuture(Due(l).filed)
  \/ Due(l).filed = Blank /\ Due(l).status = "Filed"
  \/ \E m \in Lines("filings") \ {l} :
       /\ Blank # Due(m).name /\ Normal[Due(m).name] = Normal[Due(l).name]
       /\ Due(m).type = Due(l).type /\ Due(m).due = Due(l).due

\* A row that is at fault only because of a row it names.
Follows(names) == \E name \in names : \E m \in RowsNamed(name) : Reported("entities", m)

\* README: every error in the batch, not just the first.  Whatever else is wrong,
\* each row at fault is reported, and a row that is reported is at fault or
\* names an entity row that is reported.
ReportsAreExact ==
  Judged /\ (\A s \in Slots : parsed[s] = "parsed") =>
    /\ \A l \in Lines("entities") :
         /\ EntityFault(l) => Reported("entities", l)
         /\ Reported("entities", l) => EntityFault(l) \/ Follows({Entity(l).domestic})
    /\ \A l \in Lines("ownership") :
         /\ OwnershipFault(l) => Reported("ownership", l)
         /\ Reported("ownership", l) =>
              OwnershipFault(l) \/ Follows({Owned(l).parent, Owned(l).child})
    /\ \A l \in Lines("filings") :
         /\ FilingFault(l) => Reported("filings", l)
         /\ Reported("filings", l) => FilingFault(l) \/ Follows({Due(l).name})

\* An accepted upload fails in pass 4, or stores fewer filings than it reports,
\* only if it has one date in two texts.
Rewritten ==
  \E k, l \in filingRows : Due(k).due # Due(l).due /\ DateOf[Due(k).due] = DateOf[Due(l).due]

FilingsStoredUnlessRewritten ==
  /\ step = "failed" => Rewritten
  /\ step = "written" => Rewritten \/ Cardinality(DOMAIN filings) = Cardinality(filingRows)

\* What the description of POST /upload says: duplicate keys are found by the
\* validation, and an accepted batch is written.
AcceptedIsWritten == step # "failed"

-------------------------------------------------------------------------------
(* The inductive invariant of an upload                                    *)

SheetTypes ==
  /\ \A slot \in Slots : \E last \in 1 .. LastLine[slot] : Lines(slot) = 2 .. last
  /\ \A l \in Lines("entities") : Entity(l) \in EntityRows
  /\ \A l \in Lines("ownership") : Owned(l) \in OwnershipRows
  /\ \A l \in Lines("filings") : Due(l) \in FilingRows

\* What parsing and each validator have added to the errors.
FileErrors == {<<s, 1, "File">> : s \in {t \in Slots : parsed[t] = "unreadable"}}
Found(slot, found) == IF parsed[slot] = "misheaded" THEN {<<slot, 1, "Header">>} ELSE found

Ended == step \in {"verdict", "rejected", "failed", "written"}

\* Whatever step the upload is at, the rows it goes on with and the errors it has
\* collected are those of the validators behind it.
UploadInv ==
  /\ SheetTypes
  /\ step \in {"ownership", "filings"} \/ Ended => entityRows = Passed("entities", EntityErrors)
  /\ step = "filings" \/ Ended => ownershipRows = Passed("ownership", OwnershipErrors)
  /\ Ended => filingRows = Passed("filings", FilingErrors)
  /\ step = "entities" => errors = FileErrors
  /\ step = "ownership" => errors = FileErrors \cup Found("entities", EntityErrors)
  /\ step = "filings" =>
       errors = FileErrors \cup Found("entities", EntityErrors)
                           \cup Found("ownership", OwnershipErrors)
  /\ Ended =>
       errors = FileErrors \cup Found("entities", EntityErrors)
                           \cup Found("ownership", OwnershipErrors)
                           \cup Found("filings", FilingErrors)
  /\ step = "failed" => errors = {} /\ WriteFails
  /\ step = "written" =>
       /\ errors = {}
       /\ ~WriteFails
       /\ DOMAIN filings = {FilingKey(l) : l \in filingRows}
       /\ \A key \in DOMAIN filings : filings[key] \in filingRows /\ FilingKey(filings[key]) = key
===============================================================================
