------------------------ MODULE SheetValidationProofs ------------------------
(***************************************************************************)
(* For sheets of any length with any rows: exactly the rows at fault are   *)
(* reported, the rows that pass fit together, an accepted upload is a      *)
(* batch that Registry may start from, its filings are stored unless one   *)
(* date has two texts, and an entity's status follows from them.           *)
(***************************************************************************)
EXTENDS Compliance, OrderFacts

-------------------------------------------------------------------------------
(* What the validators report                                              *)

\* The lines CellErrors reports: those with a broken cell.
LEMMA CellErrorsAt ==
  ASSUME NEW slot, NEW broken
  PROVE  /\ \A e \in CellErrors(slot, broken) : e[1] = slot /\ e[2] \in Lines(slot)
         /\ \A l : (\E e \in CellErrors(slot, broken) : e[2] = l)
                     <=> l \in Lines(slot) /\ broken[l] # {}
<1>1. ASSUME NEW e \in CellErrors(slot, broken)
      PROVE  \E l \in Lines(slot) : \E c \in broken[l] : e = <<slot, l, c>>
  BY DEF CellErrors
<1>2. ASSUME NEW l \in Lines(slot), NEW c \in broken[l]
      PROVE  <<slot, l, c>> \in CellErrors(slot, broken)
  BY DEF CellErrors
<1>3. ASSUME NEW e \in CellErrors(slot, broken)
      PROVE  e[1] = slot /\ e[2] \in Lines(slot) /\ broken[e[2]] # {}
  BY <1>1
<1>4. ASSUME NEW l \in Lines(slot), broken[l] # {}
      PROVE  \E e \in CellErrors(slot, broken) : e[2] = l
  <2>1. PICK c \in broken[l] : TRUE
    BY <1>4
  <2>. QED
    BY <1>2
<1>. QED
  BY <1>3, <1>4

\* A line shares its key with another one.
Shares(key, l) == \E m \in DOMAIN key \ {l} : key[m] = key[l]

\* The lines Repeated reports: those that share their key.
LEMMA RepeatedAt ==
  ASSUME NEW slot, NEW key, NEW column
  PROVE  /\ \A e \in Repeated(slot, key, column) : e[1] = slot /\ e[2] \in DOMAIN key
         /\ \A l : (\E e \in Repeated(slot, key, column) : e[2] = l)
                     <=> l \in DOMAIN key /\ Shares(key, l)
<1>1. ASSUME NEW e \in Repeated(slot, key, column)
      PROVE  e[1] = slot /\ e[2] \in DOMAIN key /\ Shares(key, e[2])
  BY DEF Repeated, Shares
<1>2. ASSUME NEW l \in DOMAIN key, Shares(key, l)
      PROVE  <<slot, l, column>> \in Repeated(slot, key, column)
  BY <1>2 DEF Repeated, Shares
<1>3. ASSUME NEW l \in DOMAIN key, Shares(key, l)
      PROVE  \E e \in Repeated(slot, key, column) : e[2] = l
  BY <1>2, <1>3
<1>. QED
  BY <1>1, <1>3

\* What is wrong with an entity row in the eyes of its validator.
EntityBroken(l) ==
  \/ EntityCellErrors(Entity(l)) # {}
  \/ /\ Entity(l).name # Blank
     /\ \E m \in Lines("entities") \ {l} :
          Entity(m).name # Blank /\ Normal[Entity(m).name] = Normal[Entity(l).name]
  \/ Entity(l).id # Blank /\ \E m \in Lines("entities") \ {l} : Entity(m).id = Entity(l).id
  \/ Entity(l).type = "FQ" /\ Entity(l).domestic # Blank /\ ~NamesAnEntity(Entity(l).domestic)

\* validateEntities reports exactly those rows.
LEMMA EntityErrorsAt ==
  /\ \A e \in EntityErrors : e[1] = "entities" /\ e[2] \in Lines("entities")
  /\ \A l : (\E e \in EntityErrors : e[2] = l) <=> l \in Lines("entities") /\ EntityBroken(l)
<1>. DEFINE named == {l \in Lines("entities") : Entity(l).name # Blank}
            withId == {l \in Lines("entities") : Entity(l).id # Blank}
            fqs == {l \in Lines("entities") : Entity(l).type = "FQ" /\ Entity(l).domestic # Blank}
            broken == [l \in Lines("entities") |-> EntityCellErrors(Entity(l))]
            name == [l \in named |-> Normal[Entity(l).name]]
            id == [l \in withId |-> Entity(l).id]
            domestic == {<<"entities", l, "Domestic Entity">> :
                           l \in {k \in fqs : ~NamesAnEntity(Entity(k).domestic)}}
            C == CellErrors("entities", broken)
            N == Repeated("entities", name, "Entity Name")
            I == Repeated("entities", id, "Entity/Business ID")
<1>1. EntityErrors = C \cup N \cup I \cup domestic
  BY DEF EntityErrors
<1>2. /\ \A e \in C : e[1] = "entities" /\ e[2] \in Lines("entities")
      /\ \A l : (\E e \in C : e[2] = l)
                  <=> l \in Lines("entities") /\ EntityCellErrors(Entity(l)) # {}
  <2>1. \A l \in Lines("entities") : broken[l] = EntityCellErrors(Entity(l))
    OBVIOUS
  <2>. HIDE DEF broken
  <2>2. /\ \A e \in C : e[1] = "entities" /\ e[2] \in Lines("entities")
        /\ \A l : (\E e \in C : e[2] = l) <=> l \in Lines("entities") /\ broken[l] # {}
    BY CellErrorsAt
  <2>. HIDE DEF C
  <2>. QED
    BY <2>1, <2>2
<1>3. /\ \A e \in N : e[1] = "entities" /\ e[2] \in named
      /\ \A l : (\E e \in N : e[2] = l)
                  <=> l \in named /\ \E m \in named \ {l} :
                                       Normal[Entity(m).name] = Normal[Entity(l).name]
  <2>1. /\ DOMAIN name = named
        /\ \A l \in named : Shares(name, l) <=> \E m \in named \ {l} : Normal[Entity(m).name] = Normal[Entity(l).name]
    BY DEF Shares
  <2>. HIDE DEF name, named
  <2>2. /\ \A e \in N : e[1] = "entities" /\ e[2] \in DOMAIN name
        /\ \A l : (\E e \in N : e[2] = l) <=> l \in DOMAIN name /\ Shares(name, l)
    BY RepeatedAt
  <2>. HIDE DEF N
  <2>. QED
    BY <2>1, <2>2
<1>4. /\ \A e \in I : e[1] = "entities" /\ e[2] \in withId
      /\ \A l : (\E e \in I : e[2] = l)
                  <=> l \in withId /\ \E m \in withId \ {l} : Entity(m).id = Entity(l).id
  <2>1. /\ DOMAIN id = withId
        /\ \A l \in withId : Shares(id, l) <=> \E m \in withId \ {l} : Entity(m).id = Entity(l).id
    BY DEF Shares
  <2>. HIDE DEF id, withId
  <2>2. /\ \A e \in I : e[1] = "entities" /\ e[2] \in DOMAIN id
        /\ \A l : (\E e \in I : e[2] = l) <=> l \in DOMAIN id /\ Shares(id, l)
    BY RepeatedAt
  <2>. HIDE DEF I
  <2>. QED
    BY <2>1, <2>2
<1>5. /\ \A e \in domestic : e[1] = "entities" /\ e[2] \in fqs
      /\ \A l : (\E e \in domestic : e[2] = l)
                  <=> l \in fqs /\ ~NamesAnEntity(Entity(l).domestic)
  <2>. HIDE DEF fqs
  <2>1. ASSUME NEW e \in domestic
        PROVE  \E l \in fqs : e = <<"entities", l, "Domestic Entity">>
                             /\ ~NamesAnEntity(Entity(l).domestic)
    OBVIOUS
  <2>2. ASSUME NEW l \in fqs, ~NamesAnEntity(Entity(l).domestic)
        PROVE  <<"entities", l, "Domestic Entity">> \in domestic
    BY <2>2
  <2>. HIDE DEF domestic
  <2>3. ASSUME NEW e \in domestic
        PROVE  e[1] = "entities" /\ e[2] \in fqs /\ ~NamesAnEntity(Entity(e[2]).domestic)
    <3>1. PICK l \in fqs : /\ e = <<"entities", l, "Domestic Entity">>
                          /\ ~NamesAnEntity(Entity(l).domestic)
      BY <2>1
    <3>2. e[1] = "entities" /\ e[2] = l
      BY <3>1
    <3>. QED
      BY <3>1, <3>2
  <2>4. ASSUME NEW l \in fqs, ~NamesAnEntity(Entity(l).domestic)
        PROVE  \E e \in domestic : e[2] = l
    BY <2>2, <2>4
  <2>. QED
    BY <2>3, <2>4
<1>. HIDE DEF C, N, I, domestic
<1>6. \A e \in EntityErrors : e[1] = "entities" /\ e[2] \in Lines("entities")
  BY <1>1, <1>2, <1>3, <1>4, <1>5
<1>7. ASSUME NEW l
      PROVE  (\E e \in EntityErrors : e[2] = l) <=> l \in Lines("entities") /\ EntityBroken(l)
  <2>1. (\E e \in EntityErrors : e[2] = l) <=>
          \/ \E e \in C : e[2] = l
          \/ \E e \in N : e[2] = l
          \/ \E e \in I : e[2] = l
          \/ \E e \in domestic : e[2] = l
    BY <1>1
  <2>. QED
    BY <2>1, <1>2, <1>3, <1>4, <1>5 DEF EntityBroken
<1>. QED
  BY <1>6, <1>7

\* What is wrong with an ownership row.
OwnershipPaired == {l \in Lines("ownership") :
                      Blank \notin {Owned(l).parent, Owned(l).child} /\ Pair(l)[1] # Pair(l)[2]}
OwnershipBroken(l) ==
  \/ OwnershipCellErrors(Owned(l)) # {}
  \/ l \in OwnershipPaired /\ \E m \in OwnershipPaired \ {l} : Pair(m) = Pair(l)

\* validateOwnership reports exactly those rows.
LEMMA OwnershipErrorsAt ==
  /\ \A e \in OwnershipErrors : e[1] = "ownership" /\ e[2] \in Lines("ownership")
  /\ \A l : (\E e \in OwnershipErrors : e[2] = l)
              <=> l \in Lines("ownership") /\ OwnershipBroken(l)
<1>. DEFINE broken == [l \in Lines("ownership") |-> OwnershipCellErrors(Owned(l))]
            key == [l \in OwnershipPaired |-> Pair(l)]
            C == CellErrors("ownership", broken)
            R == Repeated("ownership", key, "Parent Entity")
<1>1. OwnershipErrors = C \cup R
  BY DEF OwnershipErrors, OwnershipPaired
<1>2. \A l \in Lines("ownership") : broken[l] = OwnershipCellErrors(Owned(l))
  OBVIOUS
<1>3. /\ DOMAIN key = OwnershipPaired
      /\ \A l \in OwnershipPaired :
           Shares(key, l) <=> \E m \in OwnershipPaired \ {l} : Pair(m) = Pair(l)
  BY DEF Shares
<1>. HIDE DEF broken, key
<1>4. /\ \A e \in C : e[1] = "ownership" /\ e[2] \in Lines("ownership")
      /\ \A l : (\E e \in C : e[2] = l) <=> l \in Lines("ownership") /\ broken[l] # {}
  BY CellErrorsAt
<1>5. /\ \A e \in R : e[1] = "ownership" /\ e[2] \in DOMAIN key
      /\ \A l : (\E e \in R : e[2] = l) <=> l \in DOMAIN key /\ Shares(key, l)
  BY RepeatedAt
<1>. HIDE DEF C, R
<1>6. OwnershipPaired \subseteq Lines("ownership")
  BY DEF OwnershipPaired
<1>7. \A e \in OwnershipErrors : e[1] = "ownership" /\ e[2] \in Lines("ownership")
  BY <1>1, <1>3, <1>4, <1>5, <1>6
<1>8. ASSUME NEW l
      PROVE  (\E e \in OwnershipErrors : e[2] = l)
               <=> l \in Lines("ownership") /\ OwnershipBroken(l)
  <2>1. (\E e \in OwnershipErrors : e[2] = l) <=> (\E e \in C : e[2] = l) \/ (\E e \in R : e[2] = l)
    BY <1>1
  <2>. QED
    BY <2>1, <1>2, <1>3, <1>4, <1>5, <1>6 DEF OwnershipBroken
<1>. QED
  BY <1>7, <1>8

\* What is wrong with a row of filings.
FilingsKeyed == {l \in Lines("filings") :
                   Due(l).name # Blank /\ Due(l).type # Blank /\ Due(l).due \in DateTexts}
FilingText(l) == <<Normal[Due(l).name], Due(l).type, Due(l).due>>
FilingBroken(l) ==
  \/ FilingCellErrors(Due(l)) # {}
  \/ l \in FilingsKeyed /\ \E m \in FilingsKeyed \ {l} : FilingText(m) = FilingText(l)

\* validateFilings reports exactly those rows.
LEMMA FilingErrorsAt ==
  /\ \A e \in FilingErrors : e[1] = "filings" /\ e[2] \in Lines("filings")
  /\ \A l : (\E e \in FilingErrors : e[2] = l) <=> l \in Lines("filings") /\ FilingBroken(l)
<1>. DEFINE broken == [l \in Lines("filings") |-> FilingCellErrors(Due(l))]
            key == [l \in FilingsKeyed |-> FilingText(l)]
            C == CellErrors("filings", broken)
            R == Repeated("filings", key, "Due Date")
<1>1. FilingErrors = C \cup R
  BY DEF FilingErrors, FilingsKeyed, FilingText
<1>2. \A l \in Lines("filings") : broken[l] = FilingCellErrors(Due(l))
  OBVIOUS
<1>3. /\ DOMAIN key = FilingsKeyed
      /\ \A l \in FilingsKeyed :
           Shares(key, l) <=> \E m \in FilingsKeyed \ {l} : FilingText(m) = FilingText(l)
  BY DEF Shares
<1>. HIDE DEF broken, key
<1>4. /\ \A e \in C : e[1] = "filings" /\ e[2] \in Lines("filings")
      /\ \A l : (\E e \in C : e[2] = l) <=> l \in Lines("filings") /\ broken[l] # {}
  BY CellErrorsAt
<1>5. /\ \A e \in R : e[1] = "filings" /\ e[2] \in DOMAIN key
      /\ \A l : (\E e \in R : e[2] = l) <=> l \in DOMAIN key /\ Shares(key, l)
  BY RepeatedAt
<1>. HIDE DEF C, R
<1>6. FilingsKeyed \subseteq Lines("filings")
  BY DEF FilingsKeyed
<1>7. \A e \in FilingErrors : e[1] = "filings" /\ e[2] \in Lines("filings")
  BY <1>1, <1>3, <1>4, <1>5, <1>6
<1>8. ASSUME NEW l
      PROVE  (\E e \in FilingErrors : e[2] = l) <=> l \in Lines("filings") /\ FilingBroken(l)
  <2>1. (\E e \in FilingErrors : e[2] = l) <=> (\E e \in C : e[2] = l) \/ (\E e \in R : e[2] = l)
    BY <1>1
  <2>. QED
    BY <2>1, <1>2, <1>3, <1>4, <1>5, <1>6 DEF FilingBroken
<1>. QED
  BY <1>7, <1>8

-------------------------------------------------------------------------------
(* The inductive invariant                                                 *)

\* Once the files are parsed, what the validators find only depends on what is
\* behind them.
LEMMA FindingsStay ==
  ASSUME sheet' = sheet
  PROVE  /\ EntityErrors' = EntityErrors
         /\ entityRows' = entityRows =>
              OwnershipErrors' = OwnershipErrors /\ FilingErrors' = FilingErrors
         /\ filingRows' = filingRows => WriteFails' = WriteFails
         /\ \A slot : Lines(slot)' = Lines(slot)
<1>1. EntityErrors' = EntityErrors
  BY DEF EntityErrors, CellErrors, Lines, Entity, Repeated, NamesAnEntity
<1>2. ASSUME entityRows' = entityRows PROVE OwnershipErrors' = OwnershipErrors
  BY <1>2 DEF OwnershipErrors, CellErrors, Lines, OwnershipCellErrors, EndErrors, Named, Owned,
              Entity, Repeated, Pair
<1>3. ASSUME entityRows' = entityRows PROVE FilingErrors' = FilingErrors
  BY <1>3 DEF FilingErrors, CellErrors, Lines, FilingCellErrors, Named, Due, Entity, Repeated
<1>4. ASSUME filingRows' = filingRows PROVE WriteFails' = WriteFails
  BY <1>4 DEF WriteFails, FilingKey, Chunk, Due
<1>. QED
  BY <1>1, <1>2, <1>3, <1>4 DEF Lines

\* Steps after the parsing keep the types of the rows.
LEMMA SheetTypesStay == ASSUME SheetTypes, sheet' = sheet PROVE SheetTypes'
  BY DEF SheetTypes, Lines, Entity, Owned, Due

\* A parsed sheet has numbered lines of rows.
LEMMA SheetShape ==
  ASSUME NEW slot \in Slots, NEW rows, NEW S \in SheetsOf(slot, rows)
  PROVE  /\ \E last \in 1 .. LastLine[slot] : DOMAIN S = 2 .. last
         /\ \A l \in DOMAIN S : S[l] \in rows
  BY DEF SheetsOf

\* parseSlot leaves sheets of typed rows and its errors.
LEMMA ParseStep == ASSUME Parse PROVE UploadInv'
<1>1. PICK E \in SheetsOf("entities", EntityRows), O \in SheetsOf("ownership", OwnershipRows),
           F \in SheetsOf("filings", FilingRows) :
        sheet' = [entities |-> E, ownership |-> O, filings |-> F]
  BY DEF Parse
<1>2. /\ Lines("entities")' = DOMAIN E /\ Lines("ownership")' = DOMAIN O
      /\ Lines("filings")' = DOMAIN F
      /\ \A l : Entity(l)' = E[l] /\ Owned(l)' = O[l] /\ Due(l)' = F[l]
  BY <1>1 DEF Lines, Entity, Owned, Due
<1>3. SheetTypes'
  BY <1>2, SheetShape DEF SheetTypes, Slots
<1>4. errors' = FileErrors' /\ step' = "entities"
  BY DEF Parse, FileErrors
<1>. QED
  BY <1>3, <1>4 DEF UploadInv, Ended

\* Every step keeps UploadInv.
LEMMA UploadStep == ASSUME UploadInv, [Next]_vars PROVE UploadInv'
<1>1. CASE Parse
  BY <1>1, ParseStep
<1>2. CASE ParserDies
  BY <1>2, SheetTypesStay DEF ParserDies, UploadInv, Ended
<1>3. CASE ValidateEntities
  <2>. USE <1>3 DEF ValidateEntities
  <2>1. SheetTypes'
    BY SheetTypesStay DEF UploadInv
  <2>2. entityRows' = Passed("entities", EntityErrors)'
    BY FindingsStay DEF Passed
  <2>3. errors' = (FileErrors \cup Found("entities", EntityErrors))'
    BY FindingsStay DEF UploadInv, Report, FileErrors, Found
  <2>. QED
    BY <2>1, <2>2, <2>3 DEF UploadInv, Ended
<1>4. CASE ValidateOwnership
  <2>. USE <1>4 DEF ValidateOwnership
  <2>1. SheetTypes'
    BY SheetTypesStay DEF UploadInv
  <2>2. /\ entityRows' = Passed("entities", EntityErrors)'
        /\ ownershipRows' = Passed("ownership", OwnershipErrors)'
    BY FindingsStay DEF Passed, UploadInv
  <2>3. errors' = (FileErrors \cup Found("entities", EntityErrors)
                              \cup Found("ownership", OwnershipErrors))'
    BY FindingsStay DEF UploadInv, Report, FileErrors, Found
  <2>. QED
    BY <2>1, <2>2, <2>3 DEF UploadInv, Ended
<1>5. CASE ValidateFilings
  <2>. USE <1>5 DEF ValidateFilings
  <2>1. SheetTypes'
    BY SheetTypesStay DEF UploadInv
  <2>2. /\ entityRows' = Passed("entities", EntityErrors)'
        /\ ownershipRows' = Passed("ownership", OwnershipErrors)'
        /\ filingRows' = Passed("filings", FilingErrors)'
    BY FindingsStay DEF Passed, UploadInv
  <2>3. errors' = (FileErrors \cup Found("entities", EntityErrors)
                              \cup Found("ownership", OwnershipErrors)
                              \cup Found("filings", FilingErrors))'
    BY FindingsStay DEF UploadInv, Report, FileErrors, Found
  <2>. QED
    BY <2>1, <2>2, <2>3 DEF UploadInv, Ended
<1>6. ASSUME Ended, Ended',
             UNCHANGED <<parsed, sheet, errors, entityRows, ownershipRows, filingRows>>
      PROVE  /\ SheetTypes'
             /\ entityRows' = Passed("entities", EntityErrors)'
             /\ ownershipRows' = Passed("ownership", OwnershipErrors)'
             /\ filingRows' = Passed("filings", FilingErrors)'
             /\ errors' = (FileErrors \cup Found("entities", EntityErrors)
                                      \cup Found("ownership", OwnershipErrors)
                                      \cup Found("filings", FilingErrors))'
             /\ WriteFails' = WriteFails
             /\ \A l : FilingKey(l)' = FilingKey(l)
  <2>1. SheetTypes' /\ WriteFails' = WriteFails
    BY <1>6, SheetTypesStay, FindingsStay DEF UploadInv
  <2>2. /\ entityRows' = Passed("entities", EntityErrors)'
        /\ ownershipRows' = Passed("ownership", OwnershipErrors)'
        /\ filingRows' = Passed("filings", FilingErrors)'
    BY <1>6, FindingsStay DEF Passed, UploadInv
  <2>3. errors' = (FileErrors \cup Found("entities", EntityErrors)
                              \cup Found("ownership", OwnershipErrors)
                              \cup Found("filings", FilingErrors))'
    BY <1>6, FindingsStay DEF UploadInv, FileErrors, Found
  <2>4. \A l : FilingKey(l)' = FilingKey(l)
    BY <1>6 DEF FilingKey, Due
  <2>. QED
    BY <2>1, <2>2, <2>3, <2>4
<1>7. CASE Reject
  BY <1>6, <1>7 DEF Reject, UploadInv, Ended
<1>8. CASE Write
  <2>1. Ended /\ Ended' /\ step' \in {"failed", "written"} /\ errors = {}
    BY <1>8 DEF Write, Ended
  <2>2. CASE WriteFails
    BY <1>6, <1>8, <2>1, <2>2 DEF Write, UploadInv, Ended
  <2>3. CASE ~WriteFails
    <3>. DEFINE Keys == {FilingKey(l) : l \in filingRows}
                From(key) == {l \in filingRows : FilingKey(l) = key}
    <3>1. filings' = [key \in Keys |-> CHOOSE l \in filingRows :
                        FilingKey(l) = key /\ \A m \in filingRows : FilingKey(m) = key => m <= l]
      BY <1>8, <2>3 DEF Write
    <3>2. ASSUME NEW key \in Keys
          PROVE  \E l \in filingRows :
                   FilingKey(l) = key /\ \A m \in filingRows : FilingKey(m) = key => m <= l
      <4>1. PICK last \in 1 .. LastLine["filings"] : Lines("filings") = 2 .. last
        BY DEF UploadInv, SheetTypes, Slots
      <4>2. LastLine["filings"] \in Nat
        BY SheetAssumption DEF Slots
      <4>3. filingRows \subseteq Lines("filings")
        BY <2>1 DEF UploadInv, Passed
      <4>4. From(key) \subseteq Nat /\ From(key) # {} /\ last \in Nat /\ \A l \in From(key) : l <= last
        BY <4>1, <4>2, <4>3
      <4>5. PICK l \in From(key) : \A m \in From(key) : m <= l
        <5>. HIDE DEF From
        <5>. QED
          BY <4>4, GreatestNatural
      <4>. QED
        BY <4>5
    <3>3. /\ DOMAIN filings' = Keys
          /\ \A key \in Keys : filings'[key] \in filingRows /\ FilingKey(filings'[key]) = key
      <4>. HIDE DEF Keys
      <4>. QED
        BY <3>1, <3>2
    <3>4. (\A key \in DOMAIN filings :
             filings[key] \in filingRows /\ FilingKey(filings[key]) = key)'
      BY <1>6, <1>8, <2>1, <3>3 DEF Write
    <3>5. (DOMAIN filings = {FilingKey(l) : l \in filingRows})'
      BY <1>6, <1>8, <2>1, <3>3 DEF Write
    <3>6. step' = "written" /\ errors' = {} /\ ~WriteFails'
      BY <1>6, <1>8, <2>1, <2>3 DEF Write
    <3>7. UNCHANGED <<parsed, sheet, errors, entityRows, ownershipRows, filingRows>>
      BY <1>8 DEF Write
    <3>. QED
      BY <1>6, <2>1, <3>4, <3>5, <3>6, <3>7 DEF UploadInv, Ended
  <2>. QED
    BY <2>2, <2>3
<1>9. CASE UNCHANGED vars
  <2>1. CASE Ended
    <3>1. Ended' /\ UNCHANGED <<parsed, sheet, errors, entityRows, ownershipRows, filingRows>>
      BY <1>9, <2>1 DEF vars, Ended
    <3>2. step' = step /\ filings' = filings /\ errors' = errors /\ filingRows' = filingRows
      BY <1>9 DEF vars
    <3>. QED
      BY <1>6, <2>1, <3>1, <3>2 DEF UploadInv, Ended
  <2>2. CASE ~Ended
    <3>1. SheetTypes'
      BY <1>9, SheetTypesStay DEF vars, UploadInv
    <3>. QED
      BY <1>9, <2>2, <3>1, FindingsStay DEF vars, UploadInv, Ended, Passed, FileErrors, Found
  <2>. QED
    BY <2>1, <2>2
<1>. QED
  BY <1>1, <1>2, <1>3, <1>4, <1>5, <1>7, <1>8, <1>9 DEF Next

\* UploadInv: an upload goes on with what passed and collects what did not.
THEOREM UploadInvariant == Spec => []UploadInv
<1>1. Init => UploadInv
  <2>. SUFFICES ASSUME Init PROVE UploadInv
    OBVIOUS
  <2>1. \A slot \in Slots : Lines(slot) = {}
    BY DEF Init, Lines, NoRows
  <2>2. ASSUME NEW slot \in Slots PROVE 1 \in 1 .. LastLine[slot]
    <3>1. LastLine[slot] \in Nat /\ LastLine[slot] # 0
      BY SheetAssumption
    <3>. QED
      BY <3>1
  <2>3. 2 .. 1 = {}
    OBVIOUS
  <2>4. \A slot \in Slots : \E last \in 1 .. LastLine[slot] : Lines(slot) = 2 .. last
    BY <2>1, <2>2, <2>3
  <2>5. SheetTypes
    BY <2>1, <2>4 DEF SheetTypes, Slots
  <2>. QED
    BY <2>5 DEF UploadInv, Init, Ended
<1>2. UploadInv /\ [Next]_vars => UploadInv'
  BY UploadStep
<1>. QED
  BY <1>1, <1>2, PTL DEF Spec

-------------------------------------------------------------------------------
(* Rows that pass and rows that are reported                               *)

\* The cells of a row are of the kinds its sheet has.
LEMMA RowTypes ==
  ASSUME SheetTypes
  PROVE  /\ \A l \in Lines("entities") :
              /\ Entity(l).name \in Spellings \cup {Blank}
              /\ Entity(l).type \in Types \cup {Blank, Malformed}
              /\ Entity(l).domestic \in Spellings \cup {Blank}
              /\ Entity(l).id \in BusinessIds \cup {Blank}
         /\ \A l \in Lines("ownership") :
              /\ Owned(l).parent \in Spellings \cup {Blank}
              /\ Owned(l).child \in Spellings \cup {Blank}
              /\ Owned(l).pct \in Percentages \cup {Blank, Malformed}
         /\ \A l \in Lines("filings") :
              /\ Due(l).name \in Spellings \cup {Blank}
              /\ Due(l).type \in FilingTypes \cup {Blank, Malformed}
              /\ Due(l).jurisdiction \in Jurisdictions \cup {Blank, Malformed}
              /\ Due(l).due \in DateTexts \cup {Blank, Malformed}
              /\ Due(l).status \in FilingStatuses \cup {Blank, Malformed}
         /\ \A text \in Spellings : Normal[text] \in Names
<1>1. ASSUME NEW l \in Lines("entities")
      PROVE  /\ Entity(l).name \in Spellings \cup {Blank}
             /\ Entity(l).type \in Types \cup {Blank, Malformed}
             /\ Entity(l).domestic \in Spellings \cup {Blank}
             /\ Entity(l).id \in BusinessIds \cup {Blank}
  <2>. DEFINE r == Entity(l)
  <2>1. r \in EntityRows
    BY DEF SheetTypes
  <2>. HIDE DEF r
  <2>2. /\ r.name \in Spellings \cup {Blank}
        /\ r.type \in Types \cup {Blank, Malformed}
        /\ r.domestic \in Spellings \cup {Blank}
        /\ r.id \in BusinessIds \cup {Blank}
    BY <2>1, SheetAssumption
  <2>. QED
    BY <2>2 DEF r
<1>2. ASSUME NEW l \in Lines("ownership")
      PROVE  /\ Owned(l).parent \in Spellings \cup {Blank}
             /\ Owned(l).child \in Spellings \cup {Blank}
             /\ Owned(l).pct \in Percentages \cup {Blank, Malformed}
  <2>. DEFINE r == Owned(l)
  <2>1. r \in OwnershipRows
    BY DEF SheetTypes
  <2>. HIDE DEF r
  <2>2. /\ r.parent \in Spellings \cup {Blank}
        /\ r.child \in Spellings \cup {Blank}
        /\ r.pct \in Percentages \cup {Blank, Malformed}
    BY <2>1, SheetAssumption
  <2>. QED
    BY <2>2 DEF r
<1>3. ASSUME NEW l \in Lines("filings")
      PROVE  /\ Due(l).name \in Spellings \cup {Blank}
             /\ Due(l).type \in FilingTypes \cup {Blank, Malformed}
             /\ Due(l).jurisdiction \in Jurisdictions \cup {Blank, Malformed}
             /\ Due(l).due \in DateTexts \cup {Blank, Malformed}
             /\ Due(l).status \in FilingStatuses \cup {Blank, Malformed}
  <2>. DEFINE r == Due(l)
  <2>1. r \in FilingRows
    BY DEF SheetTypes
  <2>. HIDE DEF r
  <2>2. /\ r.name \in Spellings \cup {Blank}
        /\ r.type \in FilingTypes \cup {Blank, Malformed}
        /\ r.jurisdiction \in Jurisdictions \cup {Blank, Malformed}
        /\ r.due \in DateTexts \cup {Blank, Malformed}
        /\ r.status \in FilingStatuses \cup {Blank, Malformed}
    BY <2>1, SheetAssumption
  <2>. QED
    BY <2>2 DEF r
<1>4. \A text \in Spellings : Normal[text] \in Names
  BY SheetAssumption
<1>. QED
  BY <1>1, <1>2, <1>3, <1>4

\* The rows an upload goes on with are those no validator minds.
LEMMA PassedRows ==
  ASSUME UploadInv, Ended
  PROVE  /\ \A l : l \in entityRows <=> l \in Lines("entities") /\ ~EntityBroken(l)
         /\ \A l : l \in ownershipRows <=> l \in Lines("ownership") /\ ~OwnershipBroken(l)
         /\ \A l : l \in filingRows <=> l \in Lines("filings") /\ ~FilingBroken(l)
<1>1. \A l : l \in entityRows <=> l \in Lines("entities") /\ ~EntityBroken(l)
  BY EntityErrorsAt DEF UploadInv, Passed
<1>2. \A l : l \in ownershipRows <=> l \in Lines("ownership") /\ ~OwnershipBroken(l)
  BY OwnershipErrorsAt DEF UploadInv, Passed
<1>3. \A l : l \in filingRows <=> l \in Lines("filings") /\ ~FilingBroken(l)
  BY FilingErrorsAt DEF UploadInv, Passed
<1>. QED
  BY <1>1, <1>2, <1>3

\* Of a batch that could be parsed, the rows reported are those some validator minds.
LEMMA ReportedRows ==
  ASSUME UploadInv, Ended, \A s \in Slots : parsed[s] = "parsed"
  PROVE  /\ \A l : Reported("entities", l) <=> l \in Lines("entities") /\ EntityBroken(l)
         /\ \A l : Reported("ownership", l) <=> l \in Lines("ownership") /\ OwnershipBroken(l)
         /\ \A l : Reported("filings", l) <=> l \in Lines("filings") /\ FilingBroken(l)
<1>1. errors = EntityErrors \cup OwnershipErrors \cup FilingErrors
  BY DEF UploadInv, FileErrors, Found, Slots
<1>2. \A l : Reported("entities", l) <=> \E e \in EntityErrors : e[2] = l
  BY <1>1, EntityErrorsAt, OwnershipErrorsAt, FilingErrorsAt DEF Reported
<1>3. \A l : Reported("ownership", l) <=> \E e \in OwnershipErrors : e[2] = l
  BY <1>1, EntityErrorsAt, OwnershipErrorsAt, FilingErrorsAt DEF Reported
<1>4. \A l : Reported("filings", l) <=> \E e \in FilingErrors : e[2] = l
  BY <1>1, EntityErrorsAt, OwnershipErrorsAt, FilingErrorsAt DEF Reported
<1>. QED
  BY <1>2, <1>3, <1>4, EntityErrorsAt, OwnershipErrorsAt, FilingErrorsAt

\* An entity row that passes has a name, a type that goes with its Domestic Entity,
\* and shares neither its name nor its ID.
LEMMA PassedEntity ==
  ASSUME UploadInv, Ended, NEW l \in entityRows
  PROVE  /\ l \in Lines("entities")
         /\ Entity(l).name \in Spellings /\ Entity(l).name # Blank
         /\ Entity(l).type \in Types
         /\ Entity(l).type = "FQ" <=> Entity(l).domestic # Blank
         /\ Entity(l).type \in {"Entity", "FQ"}
         /\ Entity(l).domestic # Blank => NamesAnEntity(Entity(l).domestic)
         /\ \A m \in Lines("entities") :
              /\ Entity(m).name # Blank /\ Normal[Entity(m).name] = Normal[Entity(l).name] => m = l
              /\ Entity(m).id = Entity(l).id /\ Entity(l).id # Blank => m = l
<1>1. l \in Lines("entities") /\ ~EntityBroken(l)
  BY PassedRows
<1>2. EntityCellErrors(Entity(l)) = {}
  BY <1>1 DEF EntityBroken
<1>3. /\ Entity(l).name # Blank
      /\ Entity(l).type \in {"Entity", "FQ"}
      /\ Entity(l).type = "FQ" => Entity(l).domestic # Blank
      /\ Entity(l).type = "Entity" => Entity(l).domestic = Blank
  BY <1>2 DEF EntityCellErrors, When
<1>4. Entity(l).name \in Spellings /\ Entity(l).type \in Types
  BY <1>1, <1>3, RowTypes, SheetAssumption DEF UploadInv
<1>. QED
  BY <1>1, <1>3, <1>4 DEF EntityBroken

\* A name an ownership row may use is the name of a row of an entity that passed.
LEMMA PassedEnd ==
  ASSUME UploadInv, Ended, NEW name, NEW column, EndErrors(name, column) = {}
  PROVE  /\ name # Blank
         /\ \E k \in entityRows : Normal[Entity(k).name] = Normal[name] /\ Entity(k).type = "Entity"
<1>1. PICK k \in Named(name) : Entity(k).type # "FQ"
  BY DEF EndErrors, When
<1>2. k \in entityRows /\ name # Blank /\ Normal[Entity(k).name] = Normal[name]
  BY DEF Named
<1>. QED
  BY <1>1, <1>2, PassedEntity

\* An ownership row that passes owns a part of another entity, in no other row.
LEMMA PassedOwnership ==
  ASSUME UploadInv, Ended, NEW l \in ownershipRows
  PROVE  /\ Owned(l).parent \in Spellings /\ Owned(l).child \in Spellings
         /\ Owned(l).pct \in Percentages
         /\ \A name \in {Owned(l).parent, Owned(l).child} :
              \E k \in entityRows :
                Normal[Entity(k).name] = Normal[name] /\ Entity(k).type = "Entity"
         /\ Pair(l)[1] # Pair(l)[2]
         /\ \A k \in ownershipRows : Pair(k) = Pair(l) => k = l
<1>1. ASSUME NEW k \in ownershipRows
      PROVE  /\ k \in Lines("ownership") /\ OwnershipCellErrors(Owned(k)) = {}
             /\ ~(k \in OwnershipPaired /\ \E m \in OwnershipPaired \ {k} : Pair(m) = Pair(k))
  BY PassedRows DEF OwnershipBroken
<1>2. ASSUME NEW k \in ownershipRows
      PROVE  /\ EndErrors(Owned(k).parent, "Parent Entity") = {}
             /\ EndErrors(Owned(k).child, "Child Entity") = {}
             /\ When(Blank \notin {Owned(k).parent, Owned(k).child}
                       /\ Normal[Owned(k).parent] = Normal[Owned(k).child], "Child Entity") = {}
             /\ When(Owned(k).pct \in {Blank, Malformed}, "Ownership %") = {}
  BY <1>1 DEF OwnershipCellErrors
<1>3. ASSUME NEW k \in ownershipRows
      PROVE  /\ Owned(k).parent # Blank /\ Owned(k).child # Blank
             /\ \A name \in {Owned(k).parent, Owned(k).child} :
                  \E e \in entityRows :
                    Normal[Entity(e).name] = Normal[name] /\ Entity(e).type = "Entity"
  BY <1>2, PassedEnd
<1>4. ASSUME NEW k \in ownershipRows
      PROVE  Normal[Owned(k).parent] # Normal[Owned(k).child] /\ k \in OwnershipPaired
  BY <1>1, <1>2, <1>3 DEF When, Pair, OwnershipPaired
<1>5. Owned(l).pct \notin {Blank, Malformed}
  BY <1>2 DEF When
<1>6. /\ Owned(l).parent \in Spellings /\ Owned(l).child \in Spellings
      /\ Owned(l).pct \in Percentages
  BY <1>1, <1>3, <1>5, RowTypes DEF UploadInv
<1>7. \A k \in ownershipRows : Pair(k) = Pair(l) => k = l
  BY <1>1, <1>4
<1>8. Pair(l)[1] # Pair(l)[2]
  BY <1>4 DEF Pair
<1>. QED
  BY <1>3, <1>6, <1>7, <1>8

\* A filing row that passes is due of the one entity it names, and no other row
\* has its name, type and text of the date.
LEMMA PassedFiling ==
  ASSUME UploadInv, Ended, NEW l \in filingRows
  PROVE  /\ Due(l).name \in Spellings /\ Due(l).due \in DateTexts
         /\ \E k \in entityRows : /\ Normal[Entity(k).name] = Normal[Due(l).name]
                                  /\ Entity(k).jurisdiction = Due(l).jurisdiction
         /\ \A k \in filingRows : FilingText(k) = FilingText(l) => k = l
<1>1. ASSUME NEW k \in filingRows
      PROVE  /\ k \in Lines("filings") /\ FilingCellErrors(Due(k)) = {}
             /\ ~(k \in FilingsKeyed /\ \E m \in FilingsKeyed \ {k} : FilingText(m) = FilingText(k))
  BY PassedRows DEF FilingBroken
<1>2. ASSUME NEW k \in filingRows
      PROVE  /\ Named(Due(k).name) # {}
             /\ \A e \in Named(Due(k).name) : Entity(e).jurisdiction = Due(k).jurisdiction
             /\ Due(k).type \in FilingTypes /\ Due(k).due \in DateTexts
  BY <1>1 DEF FilingCellErrors, When
<1>3. ASSUME NEW k \in filingRows
      PROVE  /\ Due(k).name # Blank
             /\ \E e \in entityRows : /\ Normal[Entity(e).name] = Normal[Due(k).name]
                                      /\ Entity(e).jurisdiction = Due(k).jurisdiction
  BY <1>2 DEF Named
<1>4. ASSUME NEW k \in filingRows PROVE k \in FilingsKeyed
  BY <1>1, <1>2, <1>3, SheetAssumption DEF FilingsKeyed
<1>5. Due(l).name \in Spellings
  BY <1>1, <1>3, RowTypes DEF UploadInv
<1>6. \A k \in filingRows : FilingText(k) = FilingText(l) => k = l
  BY <1>1, <1>4
<1>. QED
  BY <1>2, <1>3, <1>5, <1>6

-------------------------------------------------------------------------------
(* What holds of every upload                                              *)

\* PassedRowsFitTogether, of sheets of any length.
THEOREM PassedRowsFit == Spec => []PassedRowsFitTogether
<1>1. UploadInv => PassedRowsFitTogether
  <2>. SUFFICES ASSUME UploadInv, Judged PROVE PassedRowsFitTogether
    BY DEF PassedRowsFitTogether
  <2>0. Ended
    BY DEF Judged, Ended
  <2>1. ASSUME NEW k \in entityRows, NEW l \in entityRows,
               Normal[Entity(k).name] = Normal[Entity(l).name]
                 \/ (Entity(k).id = Entity(l).id /\ Entity(k).id # Blank)
        PROVE  k = l
    BY <2>0, <2>1, PassedEntity
  <2>2. ASSUME NEW l \in ownershipRows
        PROVE  /\ \A name \in {Owned(l).parent, Owned(l).child} :
                    \E k \in entityRows :
                      Normal[Entity(k).name] = Normal[name] /\ Entity(k).type = "Entity"
               /\ Pair(l)[1] # Pair(l)[2]
               /\ \A k \in ownershipRows : Pair(k) = Pair(l) => k = l
    BY <2>0, PassedOwnership
  <2>3. ASSUME NEW l \in filingRows
        PROVE  /\ \E k \in entityRows : /\ Normal[Entity(k).name] = Normal[Due(l).name]
                                       /\ Entity(k).jurisdiction = Due(l).jurisdiction
               /\ \A k \in filingRows :
                    Normal[Due(k).name] = Normal[Due(l).name] /\ Due(k).type = Due(l).type
                      /\ Due(k).due = Due(l).due => k = l
    BY <2>0, PassedFiling DEF FilingText
  <2>. QED
    BY <2>1, <2>2, <2>3 DEF PassedRowsFitTogether
<1>. QED
  BY <1>1, UploadInvariant, PTL

\* Two filings that pass only have one key if one date has two texts.
LEMMA SharedKeyRewritten ==
  ASSUME UploadInv, Ended, NEW k \in filingRows, NEW l \in filingRows,
         FilingKey(k) = FilingKey(l), k # l
  PROVE  Rewritten
<1>1. FilingText(k) # FilingText(l)
  BY PassedFiling
<1>2. DateOf[Due(k).due] = DateOf[Due(l).due] /\ Due(k).due # Due(l).due
  BY <1>1 DEF FilingKey, FilingText
<1>. QED
  BY <1>2 DEF Rewritten

\* A sheet is finite.
LEMMA FilingsFinite == ASSUME UploadInv, Ended PROVE IsFiniteSet(filingRows)
<1>1. PICK last \in 1 .. LastLine["filings"] : Lines("filings") = 2 .. last
  BY DEF UploadInv, SheetTypes, Slots
<1>2. LastLine["filings"] \in Nat
  BY SheetAssumption DEF Slots
<1>3. IsFiniteSet(2 .. last)
  BY <1>2, FS_Interval
<1>4. filingRows \in SUBSET (2 .. last)
  BY <1>1, PassedRows
<1>. QED
  BY <1>3, <1>4, FS_Subset

\* FilingsStoredUnlessRewritten: whatever a chunk holds, only one date in two texts
\* makes the write fail or filings overwrite each other.
THEOREM FilingsStored == Spec => []FilingsStoredUnlessRewritten
<1>1. UploadInv => FilingsStoredUnlessRewritten
  <2>. SUFFICES ASSUME UploadInv PROVE FilingsStoredUnlessRewritten
    OBVIOUS
  <2>1. ASSUME step = "failed" PROVE Rewritten
    <3>1. PICK k, l \in filingRows : k # l /\ FilingKey(k) = FilingKey(l)
      BY <2>1 DEF UploadInv, WriteFails
    <3>. QED
      BY <2>1, <3>1, SharedKeyRewritten DEF Ended
  <2>2. ASSUME step = "written", ~Rewritten
        PROVE  Cardinality(DOMAIN filings) = Cardinality(filingRows)
    <3>. DEFINE key == [l \in filingRows |-> FilingKey(l)]
    <3>1. DOMAIN filings = {FilingKey(l) : l \in filingRows}
      BY <2>2 DEF UploadInv
    <3>2. IsFiniteSet(filingRows)
      BY <2>2, FilingsFinite DEF Ended
    <3>3. /\ DOMAIN key = filingRows
          /\ \A k, l \in filingRows : key[k] = key[l] => k = l
      BY <2>2, SharedKeyRewritten DEF Ended
    <3>4. /\ \A l \in filingRows : key[l] \in DOMAIN filings
          /\ \A d \in DOMAIN filings : \E l \in filingRows : key[l] = d
      BY <3>1
    <3>. HIDE DEF key
    <3>. QED
      BY <3>2, <3>3, <3>4, InjectiveImage
  <2>. QED
    BY <2>1, <2>2 DEF FilingsStoredUnlessRewritten
<1>. QED
  BY <1>1, UploadInvariant, PTL

\* If nothing is reported, every row of every sheet passes.
LEMMA AllPass ==
  ASSUME UploadInv, Ended, errors = {}
  PROVE  /\ entityRows = Lines("entities")
         /\ ownershipRows = Lines("ownership")
         /\ filingRows = Lines("filings")
<1>1. ASSUME NEW slot \in Slots PROVE parsed[slot] # "misheaded"
  BY <1>1 DEF UploadInv, Found, Slots
<1>2. EntityErrors = {} /\ OwnershipErrors = {} /\ FilingErrors = {}
  BY <1>1 DEF UploadInv, Found, Slots
<1>. QED
  BY <1>2 DEF UploadInv, Passed

\* The line of a name, once its rows are unique.
LEMMA LineOfName ==
  ASSUME UploadInv, Ended, NEW l \in entityRows
  PROVE  /\ Normal[Entity(l).name] \in Known \cap Names
         /\ LineOf(Normal[Entity(l).name]) = l
<1>1. Normal[Entity(l).name] \in Known \cap Names
  BY PassedEntity, RowTypes DEF Known, UploadInv
<1>. DEFINE n == Normal[Entity(l).name]
<1>2. LineOf(n) \in entityRows /\ Normal[Entity(LineOf(n)).name] = n
  BY DEF LineOf
<1>3. LineOf(n) \in Lines("entities") /\ Entity(LineOf(n)).name # Blank
  BY <1>2, PassedEntity
<1>. QED
  BY <1>1, <1>2, <1>3, PassedEntity

\* What the batch says of a name is what its row says.
LEMMA BatchOfLine ==
  ASSUME UploadInv, Ended, NEW n \in Known
  PROVE  \E l \in entityRows :
           /\ n = Normal[Entity(l).name] /\ n \in Names
           /\ Batch.type[n] = Entity(l).type
           /\ Batch.domestic[n] =
                IF Entity(l).domestic # Blank THEN Normal[Entity(l).domestic] ELSE NoName
           /\ Batch.business[n] = IF Entity(l).id # Blank THEN Entity(l).id ELSE NoId
<1>1. PICK l \in entityRows : n = Normal[Entity(l).name]
  BY DEF Known
<1>2. n \in Names /\ LineOf(n) = l
  BY <1>1, LineOfName
<1>. QED
  BY <1>1, <1>2 DEF Batch

LEMMA BatchOfNone ==
  ASSUME NEW n \in Names \ Known
  PROVE  Batch.type[n] = "absent" /\ Batch.domestic[n] = NoName /\ Batch.business[n] = NoId
  BY DEF Batch

\* Batch is of the shape of a batch.
LEMMA BatchShape == ASSUME UploadInv, Ended PROVE Batch \in BatchShapes
<1>1. ASSUME NEW n \in Names
      PROVE  /\ Batch.type[n] \in Types \cup {"absent"}
             /\ Batch.domestic[n] \in Names \cup {NoName}
             /\ Batch.business[n] \in BusinessIds \cup {NoId}
  <2>1. CASE n \in Known
    <3>1. PICK l \in entityRows :
           /\ Batch.type[n] = Entity(l).type
           /\ Batch.domestic[n] =
                IF Entity(l).domestic # Blank THEN Normal[Entity(l).domestic] ELSE NoName
           /\ Batch.business[n] = IF Entity(l).id # Blank THEN Entity(l).id ELSE NoId
      BY <2>1, BatchOfLine
    <3>2. /\ Entity(l).type \in Types
          /\ Entity(l).domestic \in Spellings \cup {Blank}
          /\ Entity(l).id \in BusinessIds \cup {Blank}
          /\ \A text \in Spellings : Normal[text] \in Names
      BY PassedEntity, RowTypes DEF UploadInv
    <3>. QED
      BY <3>1, <3>2
  <2>2. CASE n \notin Known
    BY <2>2, BatchOfNone
  <2>. QED
    BY <2>1, <2>2
<1>2. Batch.rows \in EdgeSets
  <2>. DEFINE D == {Pair(l) : l \in ownershipRows}
              rows == [p \in D |-> Owned(RowOf(p)).pct]
  <2>1. ASSUME NEW l \in ownershipRows PROVE Pair(l) \in Pairs
    BY PassedOwnership, RowTypes DEF Pairs, Pair, UploadInv
  <2>2. ASSUME NEW p \in D PROVE rows[p] \in Percentages
    <3>1. RowOf(p) \in ownershipRows
      BY DEF RowOf
    <3>. QED
      BY <3>1, PassedOwnership
  <2>3. Batch.rows = rows
    BY DEF Batch
  <2>4. D \in SUBSET Pairs
    BY <2>1
  <2>5. rows \in [D -> Percentages]
    BY <2>2
  <2>. HIDE DEF D, rows
  <2>. QED
    BY <2>3, <2>4, <2>5 DEF EdgeSets
<1>. QED
  <2>. DEFINE t == Batch.type
              d == Batch.domestic
              b == Batch.business
              r == Batch.rows
  <2>1. Batch = [type |-> t, domestic |-> d, business |-> b, rows |-> r]
    BY DEF Batch
  <2>2. /\ t = [n \in Names |-> t[n]] /\ d = [n \in Names |-> d[n]]
        /\ b = [n \in Names |-> b[n]]
    BY DEF Batch
  <2>3. /\ t \in [Names -> Types \cup {"absent"}]
        /\ d \in [Names -> Names \cup {NoName}]
        /\ b \in [Names -> BusinessIds \cup {NoId}]
        /\ r \in EdgeSets
    <3>1. \A n \in Names : /\ t[n] \in Types \cup {"absent"}
                           /\ d[n] \in Names \cup {NoName}
                           /\ b[n] \in BusinessIds \cup {NoId}
      BY <1>1
    <3>. HIDE DEF t, d, b
    <3>. QED
      BY <1>2, <2>2, <3>1
  <2>. HIDE DEF t, d, b, r
  <2>. QED
    BY <2>1, <2>3 DEF BatchShapes

\* AcceptedFitsRegistry, of sheets of any length: what Registry takes for granted
\* of a batch is what the validators have made sure of.
THEOREM AcceptedIsABatch == Spec => []AcceptedFitsRegistry
<1>1. UploadInv => AcceptedFitsRegistry
  <2>. SUFFICES ASSUME UploadInv, Judged, errors = {}
                PROVE  Batch \in BatchShapes /\ Consistent(Batch)
    BY DEF AcceptedFitsRegistry
  <2>0. Ended
    BY DEF Judged, Ended
  <2>1. Batch \in BatchShapes
    BY <2>0, BatchShape
  <2>2. ASSUME NEW l \in entityRows, Entity(l).type = "Entity"
        PROVE  /\ Normal[Entity(l).name] \in Known
               /\ Batch.type[Normal[Entity(l).name]] = "Entity"
    <3>1. Normal[Entity(l).name] \in Known \cap Names /\ LineOf(Normal[Entity(l).name]) = l
      BY <2>0, LineOfName
    <3>. QED
      BY <2>2, <3>1 DEF Batch
  <2>3. ASSUME NEW n \in Names
        PROVE  /\ Batch.type[n] = "FQ" <=> Batch.domestic[n] # NoName
               /\ Batch.domestic[n] # NoName => Batch.type[Batch.domestic[n]] = "Entity"
               /\ Batch.business[n] # NoId => Batch.type[n] # "absent"
    <3>1. CASE n \notin Known
      BY <3>1, BatchOfNone
    <3>2. CASE n \in Known
      <4>1. PICK l \in entityRows :
              /\ Batch.type[n] = Entity(l).type
              /\ Batch.domestic[n] =
                   IF Entity(l).domestic # Blank THEN Normal[Entity(l).domestic] ELSE NoName
        BY <2>0, <3>2, BatchOfLine
      <4>2. /\ Entity(l).type = "FQ" <=> Entity(l).domestic # Blank
            /\ Entity(l).type \in {"Entity", "FQ"}
            /\ Entity(l).domestic # Blank => NamesAnEntity(Entity(l).domestic)
            /\ Entity(l).domestic \in Spellings \cup {Blank}
        BY <2>0, PassedEntity, RowTypes DEF UploadInv
      <4>3. Entity(l).domestic # Blank => Normal[Entity(l).domestic] # NoName
        BY <4>2, RowTypes, BatchAssumption DEF UploadInv
      <4>4. ASSUME Entity(l).domestic # Blank
            PROVE  Batch.type[Normal[Entity(l).domestic]] = "Entity"
        <5>1. PICK k \in Lines("entities") :
                /\ Normal[Entity(k).name] = Normal[Entity(l).domestic]
                /\ Entity(k).type = "Entity"
          BY <4>2, <4>4 DEF NamesAnEntity
        <5>2. k \in entityRows
          BY <2>0, AllPass
        <5>. QED
          BY <2>2, <5>1, <5>2
      <4>. QED
        BY <4>1, <4>2, <4>3, <4>4
    <3>. QED
      BY <3>1, <3>2
  <2>4. ASSUME NEW n \in Names, NEW m \in Names, Batch.business[n] = Batch.business[m],
               Batch.business[n] # NoId
        PROVE  n = m
    <3>1. n \in Known /\ m \in Known
      BY <2>4, BatchOfNone
    <3>2. PICK k \in entityRows : /\ n = Normal[Entity(k).name]
                                 /\ Batch.business[n] = IF Entity(k).id # Blank THEN Entity(k).id ELSE NoId
      BY <2>0, <3>1, BatchOfLine
    <3>3. PICK l \in entityRows : /\ m = Normal[Entity(l).name]
                                 /\ Batch.business[m] = IF Entity(l).id # Blank THEN Entity(l).id ELSE NoId
      BY <2>0, <3>1, BatchOfLine
    <3>4. Entity(k).id = Entity(l).id /\ Entity(k).id # Blank
      BY <2>4, <3>2, <3>3
    <3>5. k = l
      BY <2>0, <3>4, PassedEntity
    <3>. QED
      BY <3>2, <3>3, <3>5
  <2>5. ASSUME NEW p \in DOMAIN Batch.rows
        PROVE  Batch.type[p[1]] = "Entity" /\ Batch.type[p[2]] = "Entity"
    <3>1. DOMAIN Batch.rows = {Pair(l) : l \in ownershipRows}
      BY DEF Batch
    <3>2. PICK l \in ownershipRows : p = Pair(l)
      BY <3>1
    <3>3. ASSUME NEW name \in {Owned(l).parent, Owned(l).child}
          PROVE  Batch.type[Normal[name]] = "Entity"
      <4>1. PICK k \in entityRows : /\ Normal[Entity(k).name] = Normal[name]
                                   /\ Entity(k).type = "Entity"
        BY <2>0, PassedOwnership
      <4>. QED
        BY <2>2, <4>1
    <3>. QED
      BY <3>2, <3>3 DEF Pair
  <2>6. Consistent(Batch)
    BY <2>3, <2>4, <2>5 DEF Consistent
  <2>. QED
    BY <2>1, <2>6
<1>. QED
  BY <1>1, UploadInvariant, PTL

-------------------------------------------------------------------------------
(* Exactly the rows at fault are reported                                  *)

\* When a row of a sheet has a broken cell.
LEMMA BrokenCells ==
  /\ \A r : OwnershipCellErrors(r) # {} <=>
       \/ \A l \in Named(r.parent) : Entity(l).type = "FQ"
       \/ \A l \in Named(r.child) : Entity(l).type = "FQ"
       \/ Blank \notin {r.parent, r.child} /\ Normal[r.parent] = Normal[r.child]
       \/ r.pct \in {Blank, Malformed}
  /\ \A r : FilingCellErrors(r) # {} <=>
       \/ Named(r.name) = {}
       \/ r.type \notin FilingTypes
       \/ r.jurisdiction \notin Jurisdictions
       \/ \E l \in Named(r.name) : Entity(l).jurisdiction # r.jurisdiction
       \/ r.due \notin DateTexts
       \/ r.status \notin FilingStatuses
       \/ NotADate(r.filed) \/ InFuture(r.filed)
       \/ r.status = "Filed" /\ r.filed = Blank
<1>1. ASSUME NEW r
      PROVE  OwnershipCellErrors(r) # {} <=>
               \/ \A l \in Named(r.parent) : Entity(l).type = "FQ"
               \/ \A l \in Named(r.child) : Entity(l).type = "FQ"
               \/ Blank \notin {r.parent, r.child} /\ Normal[r.parent] = Normal[r.child]
               \/ r.pct \in {Blank, Malformed}
  BY DEF OwnershipCellErrors, EndErrors, When
<1>2. ASSUME NEW r
      PROVE  FilingCellErrors(r) # {} <=>
               \/ Named(r.name) = {}
               \/ r.type \notin FilingTypes
               \/ r.jurisdiction \notin Jurisdictions
               \/ \E l \in Named(r.name) : Entity(l).jurisdiction # r.jurisdiction
               \/ r.due \notin DateTexts
               \/ r.status \notin FilingStatuses
               \/ NotADate(r.filed) \/ InFuture(r.filed)
               \/ r.status = "Filed" /\ r.filed = Blank
  BY DEF FilingCellErrors, When
<1>. QED
  BY <1>1, <1>2

\* The rows of a name that passed are rows of the name; the others are reported,
\* and so is each of two rows of one name.
LEMMA NamedRows ==
  ASSUME UploadInv, Ended, NEW name
  PROVE  /\ Named(name) \subseteq RowsNamed(name)
         /\ \A l \in RowsNamed(name) : l \in Named(name) \/ EntityBroken(l)
         /\ \A k, l \in RowsNamed(name) : k # l => EntityBroken(k)
         /\ \A l \in Named(name) : Entity(l).type \in {"Entity", "FQ"}
<1>1. ASSUME NEW l \in Named(name)
      PROVE  l \in RowsNamed(name) /\ Entity(l).type \in {"Entity", "FQ"}
  BY PassedEntity DEF Named, RowsNamed
<1>2. ASSUME NEW l \in RowsNamed(name) PROVE l \in Named(name) \/ EntityBroken(l)
  BY PassedRows DEF Named, RowsNamed
<1>3. ASSUME NEW k \in RowsNamed(name), NEW l \in RowsNamed(name), k # l
      PROVE  EntityBroken(k)
  BY <1>3 DEF RowsNamed, EntityBroken
<1>. QED
  BY <1>1, <1>2, <1>3

\* An entity row is reported if it is at fault, and only if it is or its Domestic
\* Entity has two rows.
LEMMA EntityReports ==
  ASSUME UploadInv, Ended, NEW l \in Lines("entities")
  PROVE  /\ EntityFault(l) => EntityBroken(l)
         /\ EntityBroken(l) =>
              EntityFault(l) \/ \E m \in RowsNamed(Entity(l).domestic) : EntityBroken(m)
<1>1. ASSUME RowsNamed(Entity(l).name) # {l} PROVE EntityBroken(l)
  <2>1. CASE Entity(l).name = Blank
    BY <2>1 DEF EntityBroken, EntityCellErrors, When
  <2>2. CASE Entity(l).name # Blank
    <3>1. l \in RowsNamed(Entity(l).name)
      BY <2>2 DEF RowsNamed
    <3>2. PICK m \in RowsNamed(Entity(l).name) : m # l
      BY <1>1, <3>1
    <3>. QED
      BY <3>1, <3>2, NamedRows
  <2>. QED
    BY <2>1, <2>2
<1>2. ASSUME Entity(l).type = "FQ", Entity(l).domestic # Blank,
             \A m \in RowsNamed(Entity(l).domestic) : Entity(m).type # "Entity"
      PROVE  EntityBroken(l)
  <2>1. ~NamesAnEntity(Entity(l).domestic)
    BY <1>2 DEF NamesAnEntity, RowsNamed
  <2>. QED
    BY <1>2, <2>1 DEF EntityBroken
<1>3. ASSUME Entity(l).type = "FQ", Entity(l).domestic = Blank PROVE EntityBroken(l)
  BY <1>3 DEF EntityBroken, EntityCellErrors, When
<1>4. EntityFault(l) => EntityBroken(l)
  BY <1>1, <1>2, <1>3 DEF EntityFault, EntityBroken
<1>5. ASSUME Entity(l).name # Blank,
             NEW m \in Lines("entities") \ {l}, Entity(m).name # Blank,
             Normal[Entity(m).name] = Normal[Entity(l).name]
      PROVE  EntityFault(l)
  <2>1. m \in RowsNamed(Entity(l).name)
    BY <1>5 DEF RowsNamed
  <2>. QED
    BY <2>1 DEF EntityFault
<1>6. ASSUME Entity(l).type = "FQ", Entity(l).domestic # Blank,
             ~NamesAnEntity(Entity(l).domestic), ~EntityFault(l)
      PROVE  \E m \in RowsNamed(Entity(l).domestic) : EntityBroken(m)
  <2>1. PICK m \in RowsNamed(Entity(l).domestic) : Entity(m).type = "Entity"
    BY <1>6 DEF EntityFault
  <2>2. PICK k \in RowsNamed(Entity(l).domestic) : k > m
    BY <1>6, <2>1 DEF NamesAnEntity, RowsNamed
  <2>3. k # m
    <3>1. PICK last \in 1 .. LastLine["entities"] : Lines("entities") = 2 .. last
      BY DEF UploadInv, SheetTypes, Slots
    <3>2. m \in Int /\ k \in Int
      BY <3>1 DEF RowsNamed
    <3>. QED
      BY <2>2, <3>2
  <2>. QED
    BY <2>3, NamedRows
<1>7. EntityBroken(l) =>
        EntityFault(l) \/ \E m \in RowsNamed(Entity(l).domestic) : EntityBroken(m)
  <2>1. EntityCellErrors(Entity(l)) # {} => EntityFault(l)
    BY DEF EntityFault
  <2>2. (Entity(l).id # Blank /\ \E m \in Lines("entities") \ {l} : Entity(m).id = Entity(l).id)
          => EntityFault(l)
    BY DEF EntityFault
  <2>. QED
    BY <2>1, <2>2, <1>5, <1>6 DEF EntityBroken
<1>. QED
  BY <1>4, <1>7

\* An ownership row is reported if it is at fault, and only if it is or a row of
\* one of its ends is reported.
LEMMA OwnershipReports ==
  ASSUME UploadInv, Ended, NEW l \in Lines("ownership")
  PROVE  /\ OwnershipFault(l) => OwnershipBroken(l)
         /\ OwnershipBroken(l) =>
              \/ OwnershipFault(l)
              \/ \E name \in {Owned(l).parent, Owned(l).child} :
                   \E m \in RowsNamed(name) : EntityBroken(m)
<1>. DEFINE r == Owned(l)
            Ends == {r.parent, r.child}
<1>1. ASSUME NEW name \in Ends, \A k \in Named(name) : Entity(k).type = "FQ"
      PROVE  OwnershipBroken(l)
  BY <1>1, BrokenCells DEF OwnershipBroken
<1>2. ASSUME Blank \in Ends PROVE OwnershipBroken(l)
  <2>1. Named(Blank) = {}
    BY DEF Named
  <2>. QED
    BY <1>1, <1>2, <2>1
<1>3. ASSUME NEW name \in Ends, \A m \in RowsNamed(name) : Entity(m).type # "Entity"
      PROVE  OwnershipBroken(l)
  BY <1>1, <1>3, NamedRows
<1>4. ASSUME Pair(l)[1] = Pair(l)[2] PROVE OwnershipBroken(l)
  <2>1. Normal[r.parent] = Normal[r.child]
    BY <1>4 DEF Pair
  <2>. QED
    BY <1>2, <2>1, BrokenCells DEF OwnershipBroken
<1>5. ASSUME r.pct \notin Percentages PROVE OwnershipBroken(l)
  BY <1>5, BrokenCells, RowTypes DEF OwnershipBroken, UploadInv
<1>6. ASSUME NEW m \in Lines("ownership") \ {l},
             Blank \notin {Owned(m).parent, Owned(m).child}, Pair(m) = Pair(l)
      PROVE  OwnershipBroken(l)
  <2>1. CASE Blank \in Ends \/ Pair(l)[1] = Pair(l)[2]
    BY <2>1, <1>2, <1>4
  <2>2. CASE Blank \notin Ends /\ Pair(l)[1] # Pair(l)[2]
    BY <2>2, <1>6 DEF OwnershipBroken, OwnershipPaired
  <2>. QED
    BY <2>1, <2>2
<1>7. OwnershipFault(l) => OwnershipBroken(l)
  BY <1>3, <1>4, <1>5, <1>6 DEF OwnershipFault
<1>8. ASSUME NEW name \in Ends, \A k \in Named(name) : Entity(k).type = "FQ"
      PROVE  OwnershipFault(l) \/ \E m \in RowsNamed(name) : EntityBroken(m)
  <2>1. CASE \A m \in RowsNamed(name) : Entity(m).type # "Entity"
    BY <2>1 DEF OwnershipFault
  <2>2. ASSUME NEW m \in RowsNamed(name), Entity(m).type = "Entity" PROVE EntityBroken(m)
    BY <1>8, <2>2, NamedRows
  <2>. QED
    BY <2>1, <2>2
<1>9. ASSUME OwnershipCellErrors(r) # {}
      PROVE  OwnershipFault(l) \/ \E name \in Ends : \E m \in RowsNamed(name) : EntityBroken(m)
  <2>1. CASE r.pct \in {Blank, Malformed}
    BY <2>1, SheetAssumption DEF OwnershipFault
  <2>2. CASE Normal[r.parent] = Normal[r.child]
    BY <2>2 DEF OwnershipFault, Pair
  <2>. QED
    BY <1>8, <1>9, <2>1, <2>2, BrokenCells
<1>10. ASSUME l \in OwnershipPaired, NEW m \in OwnershipPaired \ {l}, Pair(m) = Pair(l)
       PROVE  OwnershipFault(l)
  BY <1>10 DEF OwnershipFault, OwnershipPaired
<1>. QED
  BY <1>7, <1>9, <1>10 DEF OwnershipBroken

\* A filing row is reported if it is at fault, and only if it is or a row of the
\* entity it names is reported.
LEMMA FilingReports ==
  ASSUME UploadInv, Ended, NEW l \in Lines("filings")
  PROVE  /\ FilingFault(l) => FilingBroken(l)
         /\ FilingBroken(l) =>
              FilingFault(l) \/ \E m \in RowsNamed(Due(l).name) : EntityBroken(m)
<1>. DEFINE r == Due(l)
<1>1. /\ r.type \in FilingTypes \cup {Blank, Malformed}
      /\ r.jurisdiction \in Jurisdictions \cup {Blank, Malformed}
      /\ r.due \in DateTexts \cup {Blank, Malformed}
      /\ r.status \in FilingStatuses \cup {Blank, Malformed}
  BY RowTypes DEF UploadInv
<1>2. ({r.jurisdiction, r.type, r.due, r.status} \cap {Blank, Malformed} # {}) <=>
        \/ r.type \notin FilingTypes
        \/ r.jurisdiction \notin Jurisdictions
        \/ r.due \notin DateTexts
        \/ r.status \notin FilingStatuses
  BY <1>1, SheetAssumption
<1>3. ASSUME \A m \in RowsNamed(r.name) : Entity(m).jurisdiction # r.jurisdiction
      PROVE  FilingBroken(l)
  BY <1>3, NamedRows, BrokenCells DEF FilingBroken
<1>4. ASSUME NEW m \in Lines("filings") \ {l}, Blank # Due(m).name,
             Normal[Due(m).name] = Normal[r.name], Due(m).type = r.type, Due(m).due = r.due
      PROVE  FilingBroken(l)
  <2>1. CASE r.name = Blank \/ r.type = Blank \/ r.due \notin DateTexts
    <3>1. r.name = Blank => Named(r.name) = {}
      BY DEF Named
    <3>2. r.type = Blank => r.type \notin FilingTypes
      BY SheetAssumption
    <3>. QED
      BY <2>1, <3>1, <3>2, BrokenCells DEF FilingBroken
  <2>2. CASE ~(r.name = Blank \/ r.type = Blank \/ r.due \notin DateTexts)
    <3>1. l \in FilingsKeyed /\ m \in FilingsKeyed
      BY <2>2, <1>4 DEF FilingsKeyed
    <3>2. FilingText(m) = FilingText(l)
      BY <1>4 DEF FilingText
    <3>. QED
      BY <1>4, <3>1, <3>2 DEF FilingBroken
  <2>. QED
    BY <2>1, <2>2
<1>5. FilingFault(l) => FilingBroken(l)
  <2>1. (r.status = "Filed" /\ r.filed = Blank) \/ NotADate(r.filed) \/ InFuture(r.filed)
          => FilingBroken(l)
    BY BrokenCells DEF FilingBroken
  <2>2. ({r.jurisdiction, r.type, r.due, r.status} \cap {Blank, Malformed} # {})
          => FilingBroken(l)
    BY <1>2, BrokenCells DEF FilingBroken
  <2>. QED
    BY <1>3, <1>4, <2>1, <2>2 DEF FilingFault
<1>6. ASSUME Named(r.name) = {}
      PROVE  FilingFault(l) \/ \E m \in RowsNamed(r.name) : EntityBroken(m)
  BY <1>6, NamedRows DEF FilingFault
<1>7. ASSUME NEW k \in Named(r.name), Entity(k).jurisdiction # r.jurisdiction
      PROVE  FilingFault(l) \/ \E m \in RowsNamed(r.name) : EntityBroken(m)
  <2>1. ASSUME NEW m \in RowsNamed(r.name), Entity(m).jurisdiction = r.jurisdiction
        PROVE  EntityBroken(m)
    BY <1>7, <2>1, NamedRows
  <2>. QED
    BY <2>1 DEF FilingFault
<1>8. ASSUME FilingCellErrors(r) # {}
      PROVE  FilingFault(l) \/ \E m \in RowsNamed(r.name) : EntityBroken(m)
  <2>1. (r.status = "Filed" /\ r.filed = Blank) \/ NotADate(r.filed) \/ InFuture(r.filed)
          => FilingFault(l)
    BY DEF FilingFault
  <2>2. ({r.jurisdiction, r.type, r.due, r.status} \cap {Blank, Malformed} # {})
          => FilingFault(l)
    BY DEF FilingFault
  <2>. QED
    BY <1>2, <1>6, <1>7, <1>8, <2>1, <2>2, BrokenCells
<1>9. ASSUME l \in FilingsKeyed, NEW m \in FilingsKeyed \ {l}, FilingText(m) = FilingText(l)
      PROVE  FilingFault(l)
  BY <1>9 DEF FilingFault, FilingsKeyed, FilingText
<1>. QED
  BY <1>5, <1>8, <1>9 DEF FilingBroken

\* ReportsAreExact, of sheets of any length.
THEOREM ReportsExact == Spec => []ReportsAreExact
<1>1. UploadInv => ReportsAreExact
  <2>. SUFFICES ASSUME UploadInv, Judged, \A s \in Slots : parsed[s] = "parsed"
                PROVE  ReportsAreExact
    BY DEF ReportsAreExact
  <2>0. Ended
    BY DEF Judged, Ended
  <2>1. ASSUME NEW names PROVE
          Follows(names) <=> \E name \in names : \E m \in RowsNamed(name) : EntityBroken(m)
    BY <2>0, ReportedRows DEF Follows, RowsNamed
  <2>2. ASSUME NEW l \in Lines("entities")
        PROVE  /\ EntityFault(l) => Reported("entities", l)
               /\ Reported("entities", l) => EntityFault(l) \/ Follows({Entity(l).domestic})
    BY <2>0, <2>1, ReportedRows, EntityReports
  <2>3. ASSUME NEW l \in Lines("ownership")
        PROVE  /\ OwnershipFault(l) => Reported("ownership", l)
               /\ Reported("ownership", l) =>
                    OwnershipFault(l) \/ Follows({Owned(l).parent, Owned(l).child})
    BY <2>0, <2>1, ReportedRows, OwnershipReports
  <2>4. ASSUME NEW l \in Lines("filings")
        PROVE  /\ FilingFault(l) => Reported("filings", l)
               /\ Reported("filings", l) => FilingFault(l) \/ Follows({Due(l).name})
    BY <2>0, <2>1, ReportedRows, FilingReports
  <2>. QED
    BY <2>2, <2>3, <2>4 DEF ReportsAreExact
<1>. QED
  BY <1>1, UploadInvariant, PTL

-------------------------------------------------------------------------------
(* The status of an entity                                                 *)

\* The due days of the filings an entity has still to make, by the rows that passed.
OpenDays(n) ==
  {DateOf[Due(l).due] :
     l \in {k \in filingRows :
             Normal[Due(k).name] = n /\ Due(k).status \notin {"Filed", "Canceled"}}}

\* Unless one overwrote another, they are the ones stored.
LEMMA OpenDaysStored ==
  ASSUME UploadInv, step = "written", ~Rewritten, NEW n
  PROVE  DueDays(n) = OpenDays(n)
<1>1. /\ DOMAIN filings = {FilingKey(l) : l \in filingRows}
      /\ \A key \in DOMAIN filings : filings[key] \in filingRows /\ FilingKey(filings[key]) = key
  BY DEF UploadInv
<1>2. ASSUME NEW l \in filingRows
      PROVE  FilingKey(l) \in DOMAIN filings /\ filings[FilingKey(l)] = l
  BY <1>1, SharedKeyRewritten DEF Ended
<1>3. ASSUME NEW d \in DueDays(n) PROVE d \in OpenDays(n)
  <2>1. PICK key \in DOMAIN filings :
          d = key[3] /\ key[1] = n /\ Due(filings[key]).status \notin Ineligible
    BY DEF DueDays
  <2>. DEFINE l == filings[key]
  <2>2. l \in filingRows /\ FilingKey(l) = key
    BY <1>1
  <2>. HIDE DEF l
  <2>3. Normal[Due(l).name] = n /\ DateOf[Due(l).due] = d
    BY <2>1, <2>2 DEF FilingKey
  <2>. QED
    BY <2>1, <2>2, <2>3 DEF OpenDays, Ineligible, l
<1>4. ASSUME NEW d \in OpenDays(n) PROVE d \in DueDays(n)
  <2>1. PICK l \in filingRows :
          /\ Normal[Due(l).name] = n /\ d = DateOf[Due(l).due]
          /\ Due(l).status \notin {"Filed", "Canceled"}
    BY DEF OpenDays
  <2>2. FilingKey(l)[1] = n /\ FilingKey(l)[3] = d
    BY <2>1 DEF FilingKey
  <2>3. FilingKey(l) \in DOMAIN filings /\ Due(filings[FilingKey(l)]).status \notin Ineligible
    BY <1>2, <2>1 DEF Ineligible
  <2>. QED
    BY <2>2, <2>3 DEF DueDays
<1>. QED
  BY <1>3, <1>4

\* A sheet is finite, so an entity that has open filings has one that is due first.
LEMMA FirstOpenDay ==
  ASSUME UploadInv, Ended, NEW n
  PROVE  /\ \A d \in OpenDays(n) : d \in Int
         /\ OpenDays(n) # {} =>
              \E first \in OpenDays(n) : \A d \in OpenDays(n) : first <= d
<1>. DEFINE S == {k \in filingRows :
                   Normal[Due(k).name] = n /\ Due(k).status \notin {"Filed", "Canceled"}}
            f == [l \in S |-> DateOf[Due(l).due]]
            T == OpenDays(n)
<1>1. IsFiniteSet(S)
  <2>1. S \in SUBSET filingRows
    OBVIOUS
  <2>. HIDE DEF S
  <2>. QED
    BY <2>1, FilingsFinite, FS_Subset
<1>2. f \in Surjection(S, T)
  BY DEF OpenDays, Surjection
<1>3. ASSUME NEW d \in OpenDays(n) PROVE d \in Int
  <2>1. PICK l \in filingRows : d = DateOf[Due(l).due]
    BY DEF OpenDays
  <2>2. Due(l).due \in DateTexts
    BY PassedFiling
  <2>. QED
    BY <2>1, <2>2, SheetAssumption
<1>4. IsFiniteSet(T) /\ T \subseteq Int
  <2>1. T \subseteq Int
    BY <1>3
  <2>. HIDE DEF f, S, T
  <2>. QED
    BY <1>1, <1>2, <2>1, FS_Surjection
<1>5. T # {} => \E first \in T : \A d \in T : first <= d
  <2>. HIDE DEF T
  <2>. QED
    BY <1>4, LeastInteger
<1>. QED
  BY <1>3, <1>5

\* StatusFollowsFilings, for a server on UTC, where the days it counts are those the
\* due dates begin at.
THEOREM StatusIsOfTheFilings ==
  ASSUME UtcOffset = 0 PROVE Spec => []StatusFollowsFilings
<1>1. UploadInv => StatusFollowsFilings
  <2>. SUFFICES ASSUME UploadInv, step = "written", ~Rewritten, NEW n \in Known,
                       NEW now \in Instants
                PROVE  LET terminal == \E l \in entityRows : Normal[Entity(l).name] = n
                                         /\ Entity(l).status \in TerminalStatuses
                           Late(days) == \E d \in OpenDays(n) : (now \div 24) - d >= days
                           status == ComplianceStatus(n, now)
                       IN  /\ status = "NOT_APPLICABLE" <=> terminal
                           /\ status = "TBD" <=> ~terminal /\ OpenDays(n) = {}
                           /\ status = "SUSPENDED" <=> ~terminal /\ Late(365)
                           /\ status = "OVERDUE" <=> ~terminal /\ Late(1) /\ ~Late(365)
                           /\ status = "FILING_DUE" <=> ~terminal /\ Late(-89) /\ ~Late(1)
                           /\ status = "GOOD_STANDING" <=>
                                ~terminal /\ OpenDays(n) # {} /\ ~Late(-89)
    BY DEF StatusFollowsFilings, OpenDays
  <2>. DEFINE terminal == \E l \in entityRows : Normal[Entity(l).name] = n
                            /\ Entity(l).status \in TerminalStatuses
              Late(days) == \E d \in OpenDays(n) : (now \div 24) - d >= days
              today == now \div 24
              left == DaysBetween(now, NextDueDate(n))
  <2>1. Ended
    BY DEF Ended
  <2>2. terminal <=> Entity(LineOf(n)).status \in TerminalStatuses
    <3>1. PICK l \in entityRows : n = Normal[Entity(l).name]
      BY DEF Known
    <3>2. LineOf(n) = l /\ \A k \in entityRows : Normal[Entity(k).name] = n => k = l
      BY <2>1, <3>1, LineOfName
    <3>. QED
      BY <3>1, <3>2
  <2>3. DueDays(n) = OpenDays(n)
    BY OpenDaysStored
  <2>4. now \in Nat /\ today \in Int
    BY ClockAssumption
  <2>5. ASSUME OpenDays(n) = {}
        PROVE  ~Late(365) /\ ~Late(1) /\ ~Late(-89)
    BY <2>5
  <2>6. ASSUME OpenDays(n) # {}
        PROVE  /\ left \in Int
               /\ Late(365) <=> left < -364
               /\ Late(1) <=> left < 0
               /\ Late(-89) <=> left < 90
    <3>. DEFINE first == CHOOSE d \in OpenDays(n) : \A e \in OpenDays(n) : d <= e
    <3>1. first \in OpenDays(n) /\ \A e \in OpenDays(n) : first <= e
      BY <2>1, <2>6, FirstOpenDay
    <3>2. \A d \in OpenDays(n) : d \in Int
      BY <2>1, FirstOpenDay
    <3>3. NextDueDate(n) = 24 * first
      BY <2>3 DEF NextDueDate
    <3>. HIDE DEF first
    <3>4. first \in Int /\ (24 * first) \div 24 = first
      BY <3>1, <3>2
    <3>5. left = first - today
      BY <2>4, <3>3, <3>4 DEF DaysBetween, Day
    <3>. HIDE DEF left, today
    <3>6. ASSUME NEW days \in Int PROVE (\E d \in OpenDays(n) : today - d >= days) <=> left <= -days
      <4>1. ASSUME NEW d \in OpenDays(n), today - d >= days PROVE left <= -days
        BY <2>4, <3>1, <3>2, <3>4, <3>5, <4>1
      <4>2. ASSUME left <= -days PROVE today - first >= days
        BY <2>4, <3>4, <3>5, <4>2
      <4>. QED
        BY <3>1, <4>1, <4>2
    <3>7. left \in Int
      BY <2>4, <3>4, <3>5
    <3>8. /\ Late(365) <=> left <= -365
          /\ Late(1) <=> left <= -1
          /\ Late(-89) <=> left <= 89
      BY <3>6 DEF today
    <3>. QED
      BY <3>7, <3>8
  <2>7. ComplianceStatus(n, now) =
          IF terminal THEN "NOT_APPLICABLE"
          ELSE IF OpenDays(n) = {} THEN "TBD"
          ELSE IF left >= 90 THEN "GOOD_STANDING"
          ELSE IF left >= 0 THEN "FILING_DUE"
          ELSE IF left >= -364 THEN "OVERDUE"
          ELSE "SUSPENDED"
    BY <2>2, <2>3 DEF ComplianceStatus
  <2>. HIDE DEF terminal, Late, left
  <2>8. CASE OpenDays(n) = {}
    BY <2>5, <2>7, <2>8 DEF terminal, Late
  <2>9. CASE OpenDays(n) # {}
    BY <2>6, <2>7, <2>9 DEF terminal, Late
  <2>. QED
    BY <2>8, <2>9
<1>. QED
  BY <1>1, UploadInvariant, PTL
===============================================================================
