-------------------------- MODULE OnboardingProofs --------------------------
(***************************************************************************)
(* Theorems about the way from a database to the first invoices: the       *)
(* ledger, the named lock and the gate before a release, for any number of *)
(* pods, rows and disturbances; tenants and what is reported of them, for  *)
(* any number of commands at once; both walks over the hierarchy, for any  *)
(* hierarchy and depth; and the arithmetic of an invoice.                  *)
(***************************************************************************)
EXTENDS Onboarding, MinorSumTheorems, WellFoundedInduction

-----------------------------------------------------------------------------
(* The arithmetic                                                          *)

\* No rate taxes more than everything.
LEMMA ProductBound ==
    ASSUME NEW taxable \in Nat, NEW rate \in Rates
    PROVE  taxable * rate \in 0 .. taxable * 10000
BY DEF Rates

LEMMA ElementType ==
    ASSUME NEW S, NEW s \in Seq(S), NEW n \in DOMAIN s PROVE s[n] \in S
OBVIOUS

LEMMA ProductType == ASSUME NEW i \in Nat, NEW j \in Nat PROVE i * j \in Nat
OBVIOUS

\* The tax is the nearest whole number, halves going up, and within what is taxed.
LEMMA TaxIsNearest ==
    ASSUME NEW taxable \in Nat, NEW rate \in Rates
    PROVE  /\ Tax(taxable, rate) \in 0 .. taxable
           /\ Nearest(Tax(taxable, rate), taxable * rate)
<1> DEFINE exact == taxable * rate
           tax == Tax(taxable, rate)
<1>1. exact \in 0 .. taxable * 10000
  BY ProductBound
<1>2. tax = (exact + 5000) \div 10000
  BY DEF Tax
<1> HIDE DEF exact, tax
<1>3. tax \in Int /\ tax * 10000 <= exact + 5000 /\ exact + 5000 < (tax + 1) * 10000
  BY <1>1, <1>2
<1>4. tax \in 0 .. taxable /\ tax * 10000 \in exact - 4999 .. exact + 5000
  BY <1>1, <1>3
<1> QED
  BY <1>4 DEF exact, tax, Nearest

\* The subtotal of a request is a natural number.
LEMMA SubtotalType ==
    ASSUME NEW b \in Bodies
    PROVE  /\ Subtotal(b.items) \in Nat
           /\ Subtotal(b.items) = SumMinor([n \in DOMAIN b.items |-> LineTotal(b.items[n])])
<1> DEFINE S == DOMAIN b.items
           f == [n \in S |-> LineTotal(b.items[n])]
<1>1. b.items \in Seq([quantity : Nat \ {0}, price : Nat])
  BY InvoiceMathAssumption
<1>2. S = 1 .. Len(b.items) /\ Len(b.items) \in Nat
  BY <1>1
<1>3. IsFiniteSet(S)
  BY <1>2, FS_Interval
<1>4. ASSUME NEW n \in S PROVE LineTotal(b.items[n]) \in Nat
  <2>1. b.items[n] \in [quantity : Nat \ {0}, price : Nat]
    BY <1>1, ElementType
  <2>2. b.items[n].quantity \in Nat /\ b.items[n].price \in Nat
    BY <2>1
  <2> QED
    BY <2>2, ProductType DEF LineTotal
<1>5. f \in [S -> Nat]
  BY <1>4
<1> QED
  BY <1>3, <1>5, SumMinorType DEF Subtotal

\* What is calculated for a request adds up.
LEMMA CalculationAddsUp ==
    ASSUME NEW b \in Bodies, Calculable(b)
    PROVE  AddsUp(Calculated(b))
<1>1. Subtotal(b.items) \in Nat
  BY SubtotalType, Zenon
<1>2. b.discount \in Nat /\ b.rate \in Rates
  BY InvoiceMathAssumption, Zenon
<1>3. PICK subtotal, discount, rate, lines :
          /\ subtotal = Subtotal(b.items) /\ discount = b.discount /\ rate = b.rate
          /\ lines = [n \in DOMAIN b.items |-> LineTotal(b.items[n])]
  BY Zenon
<1>4. subtotal \in Nat /\ discount \in Nat /\ rate \in Rates /\ discount <= subtotal
  BY <1>1, <1>2, <1>3, Zenon DEF Calculable
<1>5. subtotal = SumMinor(lines)
  BY <1>3, SubtotalType, Zenon
<1>6. PICK taxable : taxable = subtotal - discount
  BY Zenon
<1>7. taxable \in Nat
  BY <1>4, <1>6
<1>8. PICK tax : tax = Tax(taxable, rate)
  BY Zenon
<1>9. tax \in 0 .. taxable /\ Nearest(tax, taxable * rate)
  BY <1>4, <1>7, <1>8, TaxIsNearest, Zenon
<1>10. Calculated(b) = [lines |-> lines, subtotal |-> subtotal, discount |-> discount,
                        rate |-> rate, tax |-> tax, total |-> taxable + tax]
  BY <1>3, <1>6, <1>8, Zenon DEF Calculated, Taxable
<1>11. /\ Calculated(b).lines = lines /\ Calculated(b).subtotal = subtotal
       /\ Calculated(b).discount = discount /\ Calculated(b).rate = rate
       /\ Calculated(b).tax = tax /\ Calculated(b).total = taxable + tax
  BY <1>10
<1>12. discount \in 0 .. subtotal /\ taxable + tax = subtotal - discount + tax
  BY <1>4, <1>6
<1> QED
  BY <1>5, <1>6, <1>9, <1>11, <1>12, Zenon DEF AddsUp

\* Every invoice row that is inserted, for whatever the client sends, has a
\* subtotal, discount, tax and total that add up and fit their columns
\* (calculateInvoice and the INSERT of InvoiceService.create).
THEOREM RowsCorrect == OnboardingSafety => []RowsAddUp
<1>1. OnboardingInit => RowsAddUp
  BY DEF OnboardingInit, ScopeInit, RowsAddUp
<1>2. RowsAddUp /\ [OnboardingNext]_onboardingVars => RowsAddUp'
  <2> SUFFICES ASSUME RowsAddUp, [OnboardingNext]_onboardingVars PROVE RowsAddUp'
    OBVIOUS
  <2>1. CASE \E b \in Bodies : Issue(b)
    <3>1. PICK b \in Bodies : Issue(b)
      BY <2>1
    <3>2. CASE Calculable(b) /\ FitsColumns(Calculated(b))
      <4>1. issued' = Calculated(b)
        BY <3>1, <3>2 DEF Issue
      <4>2. AddsUp(Calculated(b)) /\ FitsColumns(Calculated(b))
        BY <3>2, CalculationAddsUp
      <4>3. AddsUp(issued)' /\ FitsColumns(issued)'
        BY <4>1, <4>2 DEF AddsUp, FitsColumns
      <4> QED
        BY <4>3 DEF RowsAddUp
    <3>3. CASE ~(Calculable(b) /\ FitsColumns(Calculated(b)))
      BY <3>1, <3>3 DEF Issue, RowsAddUp
    <3> QED
      BY <3>2, <3>3
  <2>2. CASE issued' = None
    BY <2>2 DEF RowsAddUp
  <2>3. CASE issued' = issued
    BY <2>3 DEF RowsAddUp, AddsUp, FitsColumns
  <2>4. (\E b \in Bodies : Issue(b)) \/ issued' \in {None, issued}
    BY DEF OnboardingNext, onboardingVars, scopeVars, ScopeNext, StartWalk, Climb, Forbid, Overtake
  <2> QED
    BY <2>1, <2>2, <2>3, <2>4
<1> QED
  BY <1>1, <1>2, PTL DEF OnboardingSafety

-----------------------------------------------------------------------------
(* The ledger and the gate                                                 *)

\* There are two files; a file's statements are numbered from 1.
LEMMA FilesAre ==
    /\ Files = 1 .. 2 /\ Len(Statements) = 2
    /\ \A f \in Files : /\ Len(Statements[f]) \in Nat
                        /\ DOMAIN Statements[f] = 1 .. Len(Statements[f])
BY DEF Files, Statements

\* What a pod at this position has seen done, or done itself.
Progress(j, sch) ==
    /\ j.file \in Files /\ j.next \in Nat \ {0}
    /\ \A g \in Files : g < j.file => StatementsOf(g) \subseteq sch
    /\ j.at = "run" => \A s \in DOMAIN Statements[j.file] :
                           s < j.next => Statements[j.file][s] \in sch
    /\ j.at \in {"grant", "succeeded"} => \A g \in Files : StatementsOf(g) \subseteq sch

AllInEffect == \A f \in Files : StatementsOf(f) \subseteq schema

\* NOT NULL means that no row is without its merchant.
OwnersKnown == "requireOwner" \in schema => \A r \in Rows : owner[r] # "missing"

\* Of two databases, the one with more in effect has all progress of the other.
LEMMA ProgressStays ==
    ASSUME NEW j, NEW a, NEW b, a \subseteq b, Progress(j, a)
    PROVE  Progress(j, b)
BY DEF Progress

\* All statements of a file are in effect when the next one is beyond the last.
LEMMA FileDone ==
    ASSUME NEW j, NEW sch, Progress(j, sch), j.at = "run", j.next > Len(Statements[j.file])
    PROVE  StatementsOf(j.file) \subseteq sch
<1>1. j.file \in Files /\ j.next \in Nat
  BY DEF Progress
<1>2. \A s \in DOMAIN Statements[j.file] : s < j.next
  BY <1>1, FilesAre
<1>3. \A s \in DOMAIN Statements[j.file] : Statements[j.file][s] \in sch
  BY <1>2 DEF Progress
<1> QED
  BY <1>3 DEF StatementsOf

MigrationInv ==
    /\ job \in [Pods -> [at : Positions, file : Files, next : Nat]]
    /\ DOMAIN ledger = Files
    /\ \A p \in Pods : Progress(job[p], schema)
    /\ \A p \in Pods : job[p].at = "succeeded" => AccessSettled
    /\ release = "current" => AllInEffect /\ AccessSettled
    /\ OwnersKnown
    /\ LedgerIsTrue

\* The invariant says what a new release needs.
LEMMA MigrationInvSuffices == MigrationInv => LedgerIsTrue /\ NewReleaseFindsSchema
<1>1. "requireOwner" \in StatementsOf(2)
  BY DEF StatementsOf, Statements
<1>2. MigrationInv /\ release = "current" => "requireOwner" \in schema
  BY <1>1, FilesAre DEF MigrationInv, AllInEffect
<1> QED
  BY <1>2 DEF MigrationInv, NewReleaseFindsSchema, AllInEffect, OwnersKnown

PodState == [at : Positions, file : Files, next : Nat]

\* A pod that moves, while the schema and the grants only grow.
LEMMA PodMoves ==
    ASSUME MigrationInv, NEW p \in Pods, NEW j \in PodState,
           job' = [job EXCEPT ![p] = j], Progress(j, schema'),
           j.at = "succeeded" => AccessSettled',
           schema \subseteq schema', AccessSettled => AccessSettled', release' = release,
           OwnersKnown', LedgerIsTrue', DOMAIN ledger' = Files
    PROVE  MigrationInv'
<1>1. job' \in [Pods -> [at : Positions, file : Files, next : Nat]]
  BY DEF MigrationInv, PodState
<1>2. ASSUME NEW q \in Pods PROVE Progress(job'[q], schema')
  <2>1. CASE q = p
    BY <2>1 DEF MigrationInv
  <2>2. CASE q # p
    <3>1. job'[q] = job[q] /\ Progress(job[q], schema)
      BY <2>2 DEF MigrationInv
    <3> QED
      BY <3>1, ProgressStays
  <2> QED
    BY <2>1, <2>2
<1>3. \A q \in Pods : job'[q].at = "succeeded" => AccessSettled'
  BY DEF MigrationInv
<1>4. release' = "current" => AllInEffect' /\ AccessSettled'
  BY DEF MigrationInv, AllInEffect
<1> QED
  BY <1>1, <1>2, <1>3, <1>4 DEF MigrationInv

\* A pod that stops: it is neither among statements nor through.
LEMMA StopIsSafe ==
    ASSUME MigrationInv, NEW p \in Pods, NEW position \in Positions,
           position \notin {"run", "grant", "succeeded"},
           Stop(p, position), UNCHANGED <<schema, ledger, granted, appUser, release, owner>>
    PROVE  MigrationInv'
<1> DEFINE j == [at |-> position, file |-> job[p].file, next |-> job[p].next]
<1>1. j \in PodState
  BY DEF MigrationInv, PodState
<1>2. Progress(job[p], schema)
  BY DEF MigrationInv
<1>3. Progress(j, schema')
  BY <1>2 DEF Progress
<1>4. job' = [job EXCEPT ![p] = j]
  BY DEF Stop, Goto
<1>5. OwnersKnown' /\ LedgerIsTrue' /\ DOMAIN ledger' = Files
  BY DEF MigrationInv, OwnersKnown, LedgerIsTrue
<1>6. j.at # "succeeded"
  OBVIOUS
<1>7. AccessSettled' = AccessSettled
  BY DEF AccessSettled
<1> HIDE DEF j
<1> QED
  BY <1>1, <1>3, <1>4, <1>5, <1>6, <1>7, PodMoves

\* A pod begins with a file: the files before it are in effect.
LEMMA BeginIsSafe ==
    ASSUME MigrationInv, NEW p \in Pods, NEW file \in Files,
           NEW position \in Positions, position \notin {"grant", "succeeded"},
           \A g \in Files : g < file => StatementsOf(g) \subseteq schema,
           Goto(p, position, file, 1), UNCHANGED <<schema, granted, appUser, release, owner>>,
           LedgerIsTrue', DOMAIN ledger' = Files
    PROVE  MigrationInv'
<1> DEFINE j == [at |-> position, file |-> file, next |-> 1]
<1>1. j \in PodState
  BY DEF PodState
<1>2. \A s \in DOMAIN Statements[file] : ~(s < 1)
  BY FilesAre
<1>3. Progress(j, schema')
  BY <1>2 DEF Progress
<1>4. job' = [job EXCEPT ![p] = j]
  BY DEF Goto
<1>5. OwnersKnown'
  BY DEF MigrationInv, OwnersKnown
<1>6. j.at # "succeeded"
  OBVIOUS
<1>7. AccessSettled' = AccessSettled
  BY DEF AccessSettled
<1> HIDE DEF j
<1> QED
  BY <1>1, <1>3, <1>4, <1>5, <1>6, <1>7, PodMoves

\* A pod goes on from a file whose statements are in effect.
LEMMA NextFileIsSafe ==
    ASSUME MigrationInv, NEW p \in Pods, StatementsOf(job[p].file) \subseteq schema,
           NextFile(p), UNCHANGED <<schema, granted, appUser, release, owner>>,
           LedgerIsTrue', DOMAIN ledger' = Files
    PROVE  MigrationInv'
<1>1. /\ job[p] \in [at : Positions, file : Files, next : Nat]
      /\ Progress(job[p], schema)
  BY DEF MigrationInv
<1>2. \A g \in Files : g <= job[p].file => StatementsOf(g) \subseteq schema
  BY <1>1, FilesAre DEF Progress
<1>3. CASE job[p].file = Len(Statements)
  <2> DEFINE j == [at |-> "grant", file |-> job[p].file, next |-> job[p].next]
  <2>1. j \in PodState
    <3>1. "grant" \in Positions /\ job[p].file \in Files /\ job[p].next \in Nat
      BY <1>1 DEF Positions
    <3> QED
      BY <3>1 DEF PodState
  <2>2. \A g \in Files : StatementsOf(g) \subseteq schema
    BY <1>2, <1>3, FilesAre
  <2>3. Progress(j, schema')
    BY <1>1, <2>2 DEF Progress
  <2>4. job' = [job EXCEPT ![p] = j]
    BY <1>3 DEF NextFile, Stop, Goto
  <2>5. OwnersKnown'
    BY DEF MigrationInv, OwnersKnown
  <2>6. j.at # "succeeded"
    OBVIOUS
  <2>7. AccessSettled' = AccessSettled
    BY DEF AccessSettled
  <2> HIDE DEF j
  <2> QED
    BY <2>1, <2>3, <2>4, <2>5, <2>6, <2>7, PodMoves
<1>4. CASE job[p].file # Len(Statements)
  <2>1. job[p].file + 1 \in Files
    BY <1>1, <1>4, FilesAre
  <2>2. \A g \in Files : g < job[p].file + 1 => StatementsOf(g) \subseteq schema
    BY <1>1, <1>2, FilesAre
  <2>3. Goto(p, "check", job[p].file + 1, 1)
    BY <1>4 DEF NextFile
  <2>4. "check" \in Positions /\ "check" \notin {"grant", "succeeded"}
    BY DEF Positions
  <2>5. \A position \in Positions : \A file \in Files :
           /\ position \notin {"grant", "succeeded"}
           /\ \A g \in Files : g < file => StatementsOf(g) \subseteq schema
           /\ Goto(p, position, file, 1)
           => MigrationInv'
    BY BeginIsSafe
  <2> QED
    BY <2>1, <2>2, <2>3, <2>4, <2>5
<1> QED
  BY <1>3, <1>4

\* While schema and ledger stay, the ledger stays true.
LEMMA LedgerStays ==
    MigrationInv /\ UNCHANGED <<schema, ledger>> => LedgerIsTrue' /\ DOMAIN ledger' = Files
BY DEF MigrationInv, LedgerIsTrue

\* A pod reads the ledger: of a file that is there, everything is in effect.
LEMMA VerifyIsSafe ==
    ASSUME MigrationInv, NEW p \in Pods, Verify(p)
    PROVE  MigrationInv'
<1>1. CASE Stop(p, "failed")
  <2>1. "failed" \in Positions /\ "failed" \notin {"run", "grant", "succeeded"}
    BY DEF Positions
  <2> QED
    BY <1>1, <2>1, StopIsSafe DEF Verify
<1>2. CASE NextFile(p)
  <2>1. job[p].file \in Files /\ ledger[job[p].file] # None
    BY DEF MigrationInv, Verify, Known
  <2>2. StatementsOf(job[p].file) \subseteq schema
    BY <2>1, FilesAre DEF MigrationInv, LedgerIsTrue
  <2>3. LedgerIsTrue' /\ DOMAIN ledger' = Files
    BY LedgerStays DEF Verify
  <2> QED
    BY <1>2, <2>2, <2>3, NextFileIsSafe DEF Verify
<1> QED
  BY <1>1, <1>2 DEF Verify

\* A statement: refused, it changes nothing; else it is in effect from now on.
LEMMA ExecuteIsSafe ==
    ASSUME MigrationInv, NEW p \in Pods, Execute(p)
    PROVE  MigrationInv'
<1>1. /\ job[p] \in PodState /\ job[p].at = "run"
      /\ Progress(job[p], schema)
  BY DEF MigrationInv, PodState, Execute
<1>2. CASE Stop(p, "failed") /\ UNCHANGED <<schema, owner>>
  <2>1. "failed" \in Positions /\ "failed" \notin {"run", "grant", "succeeded"}
    BY DEF Positions
  <2> QED
    BY <1>2, <2>1, StopIsSafe DEF Execute
<1>3. CASE /\ ~Refused(Current(p))
           /\ schema' = schema \cup {Current(p)}
           /\ owner' = [r \in Rows |-> IF Current(p) = "backfill" /\ owner[r] # None
                                       THEN "known" ELSE owner[r]]
           /\ Goto(p, "run", job[p].file, job[p].next + 1)
  <2> DEFINE j == [at |-> "run", file |-> job[p].file, next |-> job[p].next + 1]
  <2>1. j \in PodState
    <3>1. "run" \in Positions /\ job[p].file \in Files /\ job[p].next + 1 \in Nat
      BY <1>1 DEF Positions, PodState
    <3> QED
      BY <3>1 DEF PodState
  <2>2. Progress(j, schema')
    <3>1. job[p].file \in Files /\ job[p].next \in Nat \ {0}
      BY <1>1 DEF Progress
    <3>2. \A g \in Files : g < job[p].file => StatementsOf(g) \subseteq schema'
      BY <1>1, <1>3 DEF Progress
    <3>3. ASSUME NEW s \in DOMAIN Statements[job[p].file], s < job[p].next + 1
          PROVE  Statements[job[p].file][s] \in schema'
      <4>1. s \in Nat
        BY <3>1, FilesAre
      <4>2. CASE s = job[p].next
        BY <1>3, <4>2 DEF Current
      <4>3. CASE s < job[p].next
        BY <1>1, <1>3, <4>3 DEF Progress
      <4> QED
        BY <3>1, <3>3, <4>1, <4>2, <4>3
    <3>4. job[p].next + 1 \in Nat \ {0}
      BY <3>1
    <3> QED
      BY <3>1, <3>2, <3>3, <3>4 DEF Progress
  <2>3. job' = [job EXCEPT ![p] = j]
    BY <1>3 DEF Goto
  <2>4. OwnersKnown'
    <3>1. CASE "requireOwner" \in schema
      BY <1>3, <3>1 DEF MigrationInv, OwnersKnown
    <3>2. CASE Current(p) = "requireOwner"
      BY <1>3, <3>2 DEF OwnersKnown, Refused
    <3>3. CASE "requireOwner" \notin schema /\ Current(p) # "requireOwner"
      BY <1>3, <3>3 DEF OwnersKnown
    <3> QED
      BY <3>1, <3>2, <3>3
  <2>5. LedgerIsTrue' /\ DOMAIN ledger' = Files
    BY <1>3 DEF MigrationInv, LedgerIsTrue, Execute
  <2>6. j.at # "succeeded" /\ schema \subseteq schema'
    BY <1>3
  <2>7. AccessSettled' = AccessSettled /\ release' = release
    BY DEF Execute, AccessSettled
  <2> HIDE DEF j
  <2> QED
    BY <2>1, <2>2, <2>3, <2>4, <2>5, <2>6, <2>7, PodMoves
<1> QED
  BY <1>2, <1>3 DEF Execute

\* The record of a file: all its statements are in effect, and those before.
LEMMA RecordIsSafe ==
    ASSUME MigrationInv, NEW p \in Pods, Record(p)
    PROVE  MigrationInv'
<1>1. CASE Stop(p, "failed") /\ UNCHANGED ledger
  <2>1. "failed" \in Positions /\ "failed" \notin {"run", "grant", "succeeded"}
    BY DEF Positions
  <2> QED
    BY <1>1, <2>1, StopIsSafe DEF Record
<1>2. CASE NextFile(p) /\ ledger' = [ledger EXCEPT ![job[p].file] = checksums[job[p].file]]
  <2>1. Progress(job[p], schema) /\ job[p].at = "run" /\ job[p].file \in Files
    BY DEF MigrationInv, Record, Progress
  <2>2. StatementsOf(job[p].file) \subseteq schema
    BY <2>1, FileDone DEF Record
  <2>3. \A g \in 1 .. job[p].file : StatementsOf(g) \subseteq schema
    BY <2>1, <2>2, FilesAre DEF Progress
  <2>4. DOMAIN ledger' = Files
    BY <1>2 DEF MigrationInv
  <2>5. \A f \in Files : f # job[p].file => ledger'[f] = ledger[f]
    BY <1>2 DEF MigrationInv
  <2>6. schema' = schema
    BY DEF Record
  <2>7. LedgerIsTrue'
    BY <2>3, <2>5, <2>6 DEF MigrationInv, LedgerIsTrue
  <2> QED
    BY <1>2, <2>2, <2>4, <2>7, NextFileIsSafe DEF Record
<1> QED
  BY <1>1, <1>2 DEF Record

\* A pod succeeds: everything is in effect, and the grants are given or left
\* to others.  Or the user it was given is refused, and it stops.
LEMMA GrantIsSafe ==
    ASSUME MigrationInv, NEW p \in Pods, GrantAccess(p)
    PROVE  MigrationInv'
<1>1. CASE appUser # "invalid"
  <2> DEFINE j == [at |-> "succeeded", file |-> job[p].file, next |-> job[p].next]
  <2>1. job[p] \in PodState /\ job[p].at = "grant" /\ Progress(job[p], schema)
    BY DEF MigrationInv, PodState, GrantAccess
  <2>2. j \in PodState
    <3>1. "succeeded" \in Positions /\ job[p].file \in Files /\ job[p].next \in Nat
      BY <2>1 DEF Positions, PodState
    <3> QED
      BY <3>1 DEF PodState
  <2>3. Progress(j, schema')
    BY <2>1 DEF Progress, GrantAccess
  <2>4. job' = [job EXCEPT ![p] = j] /\ UNCHANGED <<schema, ledger, release, owner>>
    BY <1>1 DEF GrantAccess, Stop, Goto
  <2>5. AccessSettled'
    BY <1>1 DEF GrantAccess, AccessSettled
  <2>6. OwnersKnown' /\ LedgerIsTrue' /\ DOMAIN ledger' = Files
    BY <2>4, LedgerStays DEF MigrationInv, OwnersKnown
  <2> HIDE DEF j
  <2> QED
    BY <2>2, <2>3, <2>4, <2>5, <2>6, PodMoves
<1>2. CASE appUser = "invalid"
  <2>1. "failed" \in Positions /\ "failed" \notin {"run", "grant", "succeeded"}
    BY DEF Positions
  <2> QED
    BY <1>2, <2>1, StopIsSafe DEF GrantAccess
<1> QED
  BY <1>1, <1>2

\* A pod that starts, gets the lock, or sets about a file that the ledger lacks.
LEMMA BeginningsAreSafe ==
    ASSUME MigrationInv, NEW p \in Pods, Start(p) \/ GetLock(p) \/ Apply(p)
    PROVE  MigrationInv'
<1>1. LedgerIsTrue' /\ DOMAIN ledger' = Files
  BY LedgerStays DEF Start, GetLock, Apply
<1>2. 1 \in Files /\ \A g \in Files : ~(g < 1)
  BY FilesAre
<1>3. CASE Start(p)
  <2>1. "lock" \in Positions /\ "lock" \notin {"grant", "succeeded"}
    BY DEF Positions
  <2>2. Goto(p, "lock", 1, 1) /\ UNCHANGED <<schema, granted, appUser, release, owner>>
    BY <1>3 DEF Start
  <2> QED
    BY <1>1, <1>2, <2>1, <2>2, BeginIsSafe
<1>4. CASE GetLock(p)
  <2>1. "check" \in Positions /\ "check" \notin {"grant", "succeeded"}
    BY DEF Positions
  <2>2. Goto(p, "check", 1, 1) /\ UNCHANGED <<schema, granted, appUser, release, owner>>
    BY <1>4 DEF GetLock
  <2> QED
    BY <1>1, <1>2, <2>1, <2>2, BeginIsSafe
<1>5. CASE Apply(p)
  <2>1. "run" \in Positions /\ "run" \notin {"grant", "succeeded"}
    BY DEF Positions
  <2>2. Goto(p, "run", job[p].file, 1) /\ UNCHANGED <<schema, granted, appUser, release, owner>>
    BY <1>5 DEF Apply
  <2>3. job[p].file \in Files /\ \A g \in Files : g < job[p].file => StatementsOf(g) \subseteq schema
    BY DEF MigrationInv, Progress
  <2> QED
    BY <1>1, <2>1, <2>2, <2>3, BeginIsSafe
<1> QED
  BY <1>3, <1>4, <1>5

\* A pod that has waited for too long, or dies.
LEMMA EndingsAreSafe ==
    ASSUME MigrationInv, NEW p \in Pods, LockTimesOut(p) \/ Die(p)
    PROVE  MigrationInv'
<1>1. {"timedOut", "dead"} \subseteq Positions \ {"run", "grant", "succeeded"}
  BY DEF Positions
<1>2. UNCHANGED <<schema, ledger, granted, appUser, release, owner>>
  BY DEF LockTimesOut, Die
<1>3. CASE Stop(p, "timedOut")
  BY <1>1, <1>2, <1>3, StopIsSafe
<1>4. CASE Stop(p, "dead")
  BY <1>1, <1>2, <1>4, StopIsSafe
<1> QED
  BY <1>3, <1>4 DEF LockTimesOut, Die

\* Steps around the Job: a file is rewritten, the previous release writes.
LEMMA SurroundingsAreSafe ==
    ASSUME MigrationInv,
           UNCHANGED migrationVars \/ (\E f \in Files : Rewrite(f)) \/ (\E r \in Rows : PreviousWrites(r))
    PROVE  MigrationInv'
<1>1. UNCHANGED <<schema, ledger, job, release>> /\ AccessSettled' = AccessSettled
  BY DEF migrationVars, Rewrite, PreviousWrites, AccessSettled
<1>2. OwnersKnown'
  BY DEF migrationVars, Rewrite, PreviousWrites, MigrationInv, OwnersKnown
<1>3. LedgerIsTrue' /\ DOMAIN ledger' = Files
  BY <1>1, LedgerStays
<1> QED
  BY <1>1, <1>2, <1>3 DEF MigrationInv, AllInEffect

\* What an idle pod has seen done: nothing is claimed of it.
LEMMA IdleIsSafe ==
    /\ Idle \in PodState /\ Idle.at = "idle"
    /\ \A sch : Progress(Idle, sch)
<1>1. "idle" \in Positions /\ 1 \in Files /\ \A g \in Files : ~(g < 1)
  BY FilesAre DEF Positions
<1>2. Idle \in PodState
  BY <1>1 DEF Idle, PodState
<1>3. \A sch : Progress(Idle, sch)
  BY <1>1 DEF Idle, Progress
<1> QED
  BY <1>2, <1>3 DEF Idle

\* The gate: where a pod has succeeded, the schema is complete and access settled.
LEMMA RolloutIsSafe ==
    ASSUME MigrationInv, Rollout
    PROVE  MigrationInv'
<1>1. PICK p \in Pods : job[p].at = "succeeded"
  BY DEF Rollout, HasSucceeded
<1>2. AllInEffect' /\ AccessSettled'
  BY <1>1 DEF MigrationInv, Progress, AllInEffect, AccessSettled, Rollout
<1>3. job' \in [Pods -> PodState] /\ \A q \in Pods : job'[q] = Idle
  BY IdleIsSafe DEF Rollout
<1>4. \A q \in Pods : Progress(job'[q], schema') /\ job'[q].at # "succeeded"
  BY <1>3, IdleIsSafe
<1>5. OwnersKnown'
  BY MigrationAssumption DEF MigrationInv, OwnersKnown, Rollout
<1>6. LedgerIsTrue' /\ DOMAIN ledger' = Files
  BY LedgerStays DEF Rollout
<1> QED
  BY <1>2, <1>3, <1>4, <1>5, <1>6 DEF MigrationInv, PodState

LEMMA MigrationInvInitially == OnboardingInit => MigrationInv
<1> SUFFICES ASSUME MigrationInit PROVE MigrationInv
  BY DEF OnboardingInit
<1>1. job = [p \in Pods |-> Idle] /\ release # "current"
  BY DEF MigrationInit
<1>2. job \in [Pods -> PodState] /\ \A p \in Pods : job[p] = Idle
  BY <1>1, IdleIsSafe
<1>3. \A p \in Pods : Progress(job[p], schema) /\ job[p].at # "succeeded"
  BY <1>2, IdleIsSafe
<1>4. "requireOwner" \notin StatementsOf(1)
  BY DEF StatementsOf, Statements
<1>5. OwnersKnown
  BY <1>4 DEF MigrationInit, OwnersKnown
<1>6. LedgerIsTrue /\ DOMAIN ledger = Files
  BY FilesAre DEF MigrationInit, LedgerIsTrue
<1> QED
  BY <1>1, <1>2, <1>3, <1>5, <1>6 DEF MigrationInv, PodState

LEMMA MigrationInvPreserved ==
    ASSUME MigrationInv, [OnboardingNext]_onboardingVars
    PROVE  MigrationInv'
<1>1. MigrationNext \/ UNCHANGED migrationVars
  BY DEF OnboardingNext, onboardingVars, ScopeNext
<1>2. CASE UNCHANGED migrationVars
  BY <1>2, SurroundingsAreSafe
<1>3. CASE MigrationNext
  <2>1. ASSUME NEW p \in Pods, Start(p) \/ PodStep(p) \/ Die(p) PROVE MigrationInv'
    BY <2>1, BeginningsAreSafe, EndingsAreSafe, VerifyIsSafe, ExecuteIsSafe, RecordIsSafe, GrantIsSafe
       DEF PodStep
  <2> QED
    BY <1>3, <2>1, SurroundingsAreSafe, RolloutIsSafe DEF MigrationNext
<1> QED
  BY <1>1, <1>2, <1>3

LEMMA MigrationInvAlways == OnboardingSafety => []MigrationInv
<1>1. MigrationInv /\ [OnboardingNext]_onboardingVars => MigrationInv'
  BY MigrationInvPreserved
<1> QED
  BY <1>1, MigrationInvInitially, PTL DEF OnboardingSafety

\* The ledger never names a file of which a statement is missing, however many
\* pods ran, died, or were started again, and whatever was rewritten.
THEOREM LedgerTruth == OnboardingSafety => []LedgerIsTrue
BY MigrationInvAlways, MigrationInvSuffices, PTL

\* A new release meets all of its schema, the grants, and owners on all rows.
THEOREM ReleaseGate == OnboardingSafety => []NewReleaseFindsSchema
BY MigrationInvAlways, MigrationInvSuffices, PTL

-----------------------------------------------------------------------------
(* The named lock                                                          *)

Second == Statements[2]

\* The second file, statement by statement: none is in the first file or in the
\* file twice, and what may not be repeated comes before the backfill.
LEMMA SecondFile ==
    /\ DOMAIN Second = 1 .. 12 /\ Len(Second) = 12 /\ Files = {1, 2}
    /\ \A k \in 1 .. 12 : Second[k] \notin StatementsOf(1)
    /\ \A j \in 1 .. 12, k \in 1 .. 12 : Second[j] = Second[k] => j = k
    /\ \A k \in 1 .. 12 : Second[k] \in Repeatable => k \in {1, 5}
    /\ Second[2] \notin Repeatable /\ Second[5] = "backfill" /\ Second[6] = "requireOwner"
    /\ \A s \in DOMAIN Statements[1] : Statements[1][s] \in Repeatable \ {"backfill", "requireOwner"}
BY DEF Second, Files, Statements, StatementsOf, Repeatable

\* Nothing has gone wrong, the Job was not given half a user, and the new
\* release is yet to come.
Calm == disturbances = 0 /\ ~LateRow /\ appUser # "invalid" /\ release # "current"

\* The pod that works has the lock.
Exclusive == \A p \in Pods : job[p].at \in {"check", "run", "grant"} => session = p

\* What is in effect of the second file is its beginning.
PrefixInEffect ==
    \A k \in 1 .. 12 : Second[k] \in schema => \A j \in 1 .. 12 : j < k => Second[j] \in schema

\* A pod that is past a statement that cannot be repeated finds none of the rest
\* in effect.
RestIsNew ==
    \A p \in Pods : job[p].at = "run" /\ job[p].file = 2 /\ job[p].next > 2 =>
        \A k \in 1 .. 12 : k >= job[p].next => Second[k] \notin schema

\* In calm, no pod has failed; the files are as they were applied; and what is
\* in effect is recorded, or about to be by the pod that works.
CalmOK ==
    /\ \A p \in Pods : job[p].at # "failed"
    /\ \A f \in Files : ledger[f] # None => ledger[f] = checksums[f]
    /\ \A p \in Pods : job[p].at = "run" => ledger[job[p].file] = None
    /\ ledger[2] = None => \A k \in 1 .. 12 : Second[k] \in schema =>
          \E p \in Pods : job[p].at = "run" /\ job[p].file = 2 /\ job[p].next > k

LockInv ==
    /\ disturbances \in Nat /\ checksums \in [Files -> {Original, Rewritten}]
    /\ Exclusive
    /\ PrefixInEffect
    /\ RestIsNew
    /\ release = "current" => \A p \in Pods : job[p].at = "idle"
    /\ Calm => CalmOK

\* The pods but the one that moves stay where they are.
OthersStay(p) == \A q \in Pods \ {p} : job'[q] = job[q]

LEMMA PodStepMoves ==
    ASSUME MigrationInv, NEW p \in Pods
    PROVE  /\ Start(p) => OthersStay(p) /\ job'[p].at = "lock"
           /\ GetLock(p) => OthersStay(p) /\ job'[p].at = "check"
           /\ LockTimesOut(p) => OthersStay(p) /\ job'[p].at = "timedOut"
           /\ Verify(p) => OthersStay(p) /\ job'[p].at \in {"failed", "check", "grant"}
           /\ Apply(p) => /\ OthersStay(p)
                          /\ job'[p] = [at |-> "run", file |-> job[p].file, next |-> 1]
           /\ Execute(p) => /\ OthersStay(p)
                            /\ \/ job'[p].at = "failed"
                               \/ job'[p] = [at |-> "run", file |-> job[p].file, next |-> job[p].next + 1]
           /\ Record(p) => OthersStay(p) /\ job'[p].at \in {"failed", "check", "grant"}
           /\ GrantAccess(p) => /\ OthersStay(p)
                                /\ \/ job'[p].at = "succeeded"
                                   \/ job'[p].at = "failed" /\ appUser = "invalid"
           /\ Die(p) => OthersStay(p) /\ job'[p].at = "dead"
<1> USE DEF OthersStay, Goto, Stop
<1>1. job \in [Pods -> [at : Positions, file : Files, next : Nat]]
  BY DEF MigrationInv
<1>2. ASSUME NEW position, NEW file, NEW next, Goto(p, position, file, next)
      PROVE  /\ OthersStay(p)
             /\ job'[p] = [at |-> position, file |-> file, next |-> next]
             /\ job'[p].at = position
  BY <1>1, <1>2
<1> HIDE DEF Goto, OthersStay
<1>3. Start(p) => OthersStay(p) /\ job'[p].at = "lock"
  BY <1>2 DEF Start
<1>4. GetLock(p) => OthersStay(p) /\ job'[p].at = "check"
  BY <1>2 DEF GetLock
<1>5. LockTimesOut(p) => OthersStay(p) /\ job'[p].at = "timedOut"
  BY <1>2 DEF LockTimesOut
<1>6. NextFile(p) => OthersStay(p) /\ job'[p].at \in {"check", "grant"}
  BY <1>2 DEF NextFile
<1>7. Verify(p) => OthersStay(p) /\ job'[p].at \in {"failed", "check", "grant"}
  BY <1>2, <1>6 DEF Verify
<1>8. Apply(p) => OthersStay(p) /\ job'[p] = [at |-> "run", file |-> job[p].file, next |-> 1]
  BY <1>2 DEF Apply
<1>9. Execute(p) => /\ OthersStay(p)
                    /\ \/ job'[p].at = "failed"
                       \/ job'[p] = [at |-> "run", file |-> job[p].file, next |-> job[p].next + 1]
  BY <1>2 DEF Execute
<1>10. Record(p) => OthersStay(p) /\ job'[p].at \in {"failed", "check", "grant"}
  BY <1>2, <1>6 DEF Record
<1>11. GrantAccess(p) => /\ OthersStay(p)
                         /\ \/ job'[p].at = "succeeded"
                            \/ job'[p].at = "failed" /\ appUser = "invalid"
  BY <1>2 DEF GrantAccess
<1>12. Die(p) => OthersStay(p) /\ job'[p].at = "dead"
  BY <1>2 DEF Die
<1> QED
  BY <1>3, <1>4, <1>5, <1>7, <1>8, <1>9, <1>10, <1>11, <1>12

\* GET_LOCK is granted to one, and kept until the session ends.
LEMMA ExclusiveStays ==
    ASSUME MigrationInv, LockInv, NEW p \in Pods, Start(p) \/ PodStep(p) \/ Die(p)
    PROVE  Exclusive'
<1> USE DEF LockInv, Exclusive
<1>1. OthersStay(p)
  BY PodStepMoves DEF PodStep
<1>2. \A q \in Pods \ {p} : job[q].at \in {"check", "run", "grant"} => session = q
  OBVIOUS
<1>3. p # None /\ \A q \in Pods : q # None
  BY MigrationAssumption
<1>4. CASE GetLock(p)
  BY <1>1, <1>2, <1>3, <1>4 DEF GetLock, OthersStay
<1>5. CASE Start(p) \/ LockTimesOut(p) \/ GrantAccess(p) \/ Die(p)
  <2>1. job'[p].at \notin {"check", "run", "grant"}
    BY <1>5, PodStepMoves
  <2>2. session' = session \/ EndSession(p)
    BY <1>5 DEF Start, LockTimesOut, GrantAccess, Die
  <2> QED
    BY <1>1, <1>2, <2>1, <2>2 DEF OthersStay, EndSession
<1>6. CASE Verify(p) \/ Apply(p) \/ Execute(p) \/ Record(p)
  <2>1. session = p
    BY <1>6 DEF Verify, Apply, Execute, Record
  <2>2. \/ session' = session
        \/ Stop(p, "failed") /\ EndSession(p)
    BY <1>6 DEF Verify, Apply, Execute, Record
  <2>3. Stop(p, "failed") => job'[p].at = "failed"
    BY DEF MigrationInv, Stop, Goto
  <2> QED
    BY <1>1, <1>2, <2>1, <2>2, <2>3 DEF OthersStay
<1> QED
  BY <1>4, <1>5, <1>6 DEF PodStep

\* A statement of the second file is executed after those before it.
LEMMA SchemaStays ==
    ASSUME MigrationInv, LockInv, NEW p \in Pods, Start(p) \/ PodStep(p) \/ Die(p)
    PROVE  PrefixInEffect' /\ RestIsNew'
<1> USE DEF LockInv
<1>1. OthersStay(p)
  BY PodStepMoves DEF PodStep
<1>2. CASE schema' = schema /\ (job'[p].at # "run" \/ job'[p].next = 1)
  <2>1. PrefixInEffect'
    BY <1>2 DEF PrefixInEffect
  <2>2. \A q \in Pods \ {p} : job'[q] = job[q]
    BY <1>1 DEF OthersStay
  <2>3. RestIsNew'
    BY <1>2, <2>2 DEF RestIsNew
  <2> QED
    BY <2>1, <2>3
<1>3. CASE /\ Execute(p) /\ ~Refused(Current(p)) /\ schema' = schema \cup {Current(p)}
           /\ job'[p] = [at |-> "run", file |-> job[p].file, next |-> job[p].next + 1]
  <2>1. /\ job[p].at = "run" /\ job[p].file \in Files /\ job[p].next \in Nat \ {0}
        /\ job[p].next <= Len(Statements[job[p].file]) /\ Progress(job[p], schema)
    BY <1>3 DEF Execute, MigrationInv, Progress
  <2>2. \A q \in Pods \ {p} : job'[q] = job[q] /\ job[q].at # "run"
    BY <1>1, <2>1 DEF OthersStay, Exclusive
  <2>3. CASE job[p].file = 1
    <3>1. \A k \in 1 .. 12 : Second[k] # Current(p)
      BY <2>1, <2>3, SecondFile, FilesAre DEF Current, StatementsOf
    <3>2. \A k \in 1 .. 12 : Second[k] \in schema' <=> Second[k] \in schema
      BY <1>3, <3>1
    <3>3. PrefixInEffect'
      BY <3>2 DEF PrefixInEffect
    <3>4. job'[p].file = 1 /\ \A q \in Pods \ {p} : job'[q].at # "run"
      BY <1>3, <2>2, <2>3
    <3>5. RestIsNew'
      BY <3>4 DEF RestIsNew
    <3> QED
      BY <3>3, <3>5
  <2>4. CASE job[p].file = 2
    <3> DEFINE n == job[p].next
    <3>1. n \in 1 .. 12 /\ Current(p) = Second[n]
      <4>1. Len(Statements[2]) = 12
        BY SecondFile DEF Second
      <4> QED
        BY <2>1, <2>4, <4>1 DEF Current, Second
    <3>2. \A k \in 1 .. 12 : Second[k] \in schema' <=> Second[k] \in schema \/ k = n
      BY <1>3, <3>1, SecondFile
    <3>3. \A j \in 1 .. 12 : j < n => Second[j] \in schema
      BY <2>1, <2>4, <3>1, SecondFile DEF Progress, Second
    <3>4. PrefixInEffect'
      BY <3>1, <3>2, <3>3 DEF PrefixInEffect
    <3>5. n > 2 => \A k \in 1 .. 12 : k >= n => Second[k] \notin schema
      BY <2>1, <2>4 DEF RestIsNew
    <3>6. n = 2 => \A k \in 1 .. 12 : k >= n => Second[k] \notin schema
      <4>1. n = 2 => Second[2] \notin schema
        BY <1>3, <3>1, SecondFile DEF Refused
      <4> QED
        BY <4>1 DEF PrefixInEffect
    <3>7. n + 1 > 2 => \A k \in 1 .. 12 : k >= n + 1 => Second[k] \notin schema'
      BY <3>1, <3>2, <3>5, <3>6
    <3>8. RestIsNew'
      BY <1>3, <2>2, <2>4, <3>7 DEF RestIsNew
    <3> QED
      BY <3>4, <3>8
  <2> QED
    BY <2>1, <2>3, <2>4, SecondFile
<1>4. CASE Execute(p) /\ schema' = schema /\ Stop(p, "failed")
  <2>1. job'[p].at = "failed"
    BY <1>4 DEF MigrationInv, Stop, Goto
  <2> QED
    BY <1>2, <1>4, <2>1
<1>5. CASE Execute(p)
  <2>1. Goto(p, "run", job[p].file, job[p].next + 1) =>
           job'[p] = [at |-> "run", file |-> job[p].file, next |-> job[p].next + 1]
    BY DEF MigrationInv, Goto
  <2> QED
    BY <1>3, <1>4, <1>5, <2>1 DEF Execute
<1>6. CASE ~Execute(p)
  <2>1. schema' = schema
    BY <1>6 DEF PodStep, Start, GetLock, LockTimesOut, Verify, Apply, Record, GrantAccess, Die
  <2>2. job'[p].at # "run" \/ job'[p].next = 1
    <3>1. CASE Apply(p)
      <4>1. job'[p] = [at |-> "run", file |-> job[p].file, next |-> 1]
        BY <3>1, PodStepMoves
      <4> QED
        BY <4>1
    <3>2. CASE ~Apply(p)
      <4>1. job'[p].at \in {"lock", "check", "timedOut", "failed", "grant", "succeeded", "dead"}
        BY <1>6, <3>2, PodStepMoves DEF PodStep
      <4> QED
        BY <4>1
    <3> QED
      BY <3>1, <3>2
  <2> QED
    BY <1>2, <2>1, <2>2
<1> QED
  BY <1>5, <1>6

\* That a row came late is not undone before the rollout: the backfill is not
\* executed again where it is in effect.
LEMMA LateStays ==
    ASSUME MigrationInv, LockInv, NEW p \in Pods, Start(p) \/ PodStep(p) \/ Die(p), LateRow
    PROVE  LateRow'
<1>1. CASE ~Execute(p)
  <2>1. schema' = schema /\ owner' = owner
    BY <1>1 DEF PodStep, Start, GetLock, LockTimesOut, Verify, Apply, Record, GrantAccess, Die
  <2> QED
    BY <2>1 DEF LateRow
<1>2. CASE Execute(p)
  <2>1. schema \subseteq schema'
    BY <1>2 DEF Execute
  <2>2. Current(p) # "backfill"
    <3>1. /\ job[p].at = "run" /\ job[p].file \in Files /\ job[p].next \in Nat \ {0}
          /\ job[p].next <= Len(Statements[job[p].file])
      BY <1>2 DEF Execute, MigrationInv, Progress
    <3>2. CASE job[p].file = 1
      BY <3>1, <3>2, SecondFile, FilesAre DEF Current
    <3>3. CASE job[p].file = 2
      <4>1. Len(Statements[2]) = 12
        BY SecondFile DEF Second
      <4>2. job[p].next \in 1 .. 12 /\ Current(p) = Second[job[p].next]
        BY <3>1, <3>3, <4>1 DEF Current, Second
      <4>3. job[p].next = 5 => Second[5] \notin schema
        BY <3>1, <3>3 DEF LockInv, RestIsNew
      <4>4. Second[5] \in schema
        BY SecondFile DEF LateRow
      <4>5. Current(p) = "backfill" => job[p].next = 5
        <5>1. \A j \in 1 .. 12 : Second[j] = Second[5] => j = 5
          BY SecondFile
        <5> QED
          BY <4>2, <5>1, SecondFile
      <4> QED
        BY <4>3, <4>4, <4>5
    <3> QED
      BY <3>1, <3>2, <3>3, SecondFile
  <2>3. \A r \in Rows : owner[r] = "missing" => owner'[r] = "missing"
    BY <1>2, <2>2 DEF Execute
  <2> QED
    BY <2>1, <2>3 DEF LateRow
<1> QED
  BY <1>1, <1>2

\* In calm, whatever a pod does next does not fail, and what is in effect stays
\* recorded or about to be.
LEMMA CalmStays ==
    ASSUME MigrationInv, LockInv, NEW p \in Pods, Start(p) \/ PodStep(p) \/ Die(p), Calm'
    PROVE  CalmOK'
<1>1. ~Die(p)
  BY DEF Die, Disturb, Calm, LockInv
<1>2. UNCHANGED <<disturbances, appUser, release, checksums>>
  BY <1>1 DEF PodStep, Start, GetLock, LockTimesOut, Verify, Apply, Execute, Record, GrantAccess
<1>3. Calm /\ CalmOK
  BY <1>2, LateStays DEF Calm, LockInv
<1>4. OthersStay(p)
  BY PodStepMoves DEF PodStep
<1>5. \A q \in Pods \ {p} : job'[q] = job[q]
  BY <1>4 DEF OthersStay
<1>6. DOMAIN ledger = Files /\ \A f \in Files : checksums[f] = checksums'[f]
  BY <1>2 DEF MigrationInv
<1>7. ASSUME ledger' = ledger, schema' = schema, job[p].at # "run", job'[p].at # "failed",
             job'[p].at = "run" => ledger[job'[p].file] = None
      PROVE  CalmOK'
  <2>1. \A q \in Pods : job'[q].at # "failed"
    BY <1>3, <1>5, <1>7 DEF CalmOK
  <2>2. \A f \in Files : ledger'[f] # None => ledger'[f] = checksums'[f]
    BY <1>2, <1>3, <1>7 DEF CalmOK
  <2>3. \A q \in Pods : job'[q].at = "run" => ledger'[job'[q].file] = None
    BY <1>3, <1>5, <1>7 DEF CalmOK
  <2>4. ASSUME ledger'[2] = None, NEW k \in 1 .. 12, Second[k] \in schema'
        PROVE  \E q \in Pods : job'[q].at = "run" /\ job'[q].file = 2 /\ job'[q].next > k
    <3>1. PICK q \in Pods : job[q].at = "run" /\ job[q].file = 2 /\ job[q].next > k
      BY <1>3, <1>7, <2>4 DEF CalmOK
    <3> QED
      BY <1>5, <1>7, <3>1
  <2> QED
    BY <2>1, <2>2, <2>3, <2>4 DEF CalmOK
<1>8. CASE Start(p) \/ GetLock(p) \/ LockTimesOut(p) \/ GrantAccess(p)
  <2>1. ledger' = ledger /\ schema' = schema /\ job[p].at # "run"
    BY <1>8 DEF Start, GetLock, LockTimesOut, GrantAccess
  <2>2. job'[p].at \in {"lock", "check", "timedOut", "succeeded"}
    BY <1>3, <1>8, PodStepMoves DEF Calm
  <2> QED
    BY <1>7, <2>1, <2>2
<1>9. CASE Verify(p)
  <2>1. ledger' = ledger /\ schema' = schema /\ job[p].at = "check" /\ Known(p)
    BY <1>9 DEF Verify
  <2>2. ~Drifted(p)
    BY <1>3, <2>1 DEF Drifted, Known, CalmOK, MigrationInv, Progress
  <2>3. NextFile(p)
    BY <1>9, <2>2 DEF Verify
  <2>4. job'[p].at \in {"check", "grant"}
    BY <2>3 DEF NextFile, Stop, Goto, MigrationInv
  <2> QED
    BY <1>7, <2>1, <2>4
<1>10. CASE Apply(p)
  <2>1. ledger' = ledger /\ schema' = schema /\ job[p].at = "check" /\ ledger[job[p].file] = None
    BY <1>10 DEF Apply, Known
  <2>2. job'[p] = [at |-> "run", file |-> job[p].file, next |-> 1]
    BY <1>10, PodStepMoves
  <2> QED
    BY <1>7, <2>1, <2>2
<1>11. ASSUME job[p].at = "run" PROVE \A q \in Pods \ {p} : job[q].at # "run" /\ job'[q].at # "run"
  BY <1>5, <1>11 DEF LockInv, Exclusive
<1>12. CASE Execute(p)
  <2>1. /\ job[p].at = "run" /\ job[p].file \in Files /\ job[p].next \in Nat \ {0}
        /\ job[p].next <= Len(Statements[job[p].file]) /\ Progress(job[p], schema)
        /\ ledger' = ledger
    BY <1>12 DEF Execute, MigrationInv, Progress
  <2>2. ledger[job[p].file] = None
    BY <1>3, <2>1 DEF CalmOK
  <2>3. ~Refused(Current(p))
    <3>1. CASE job[p].file = 1
      <4>1. Current(p) \in Repeatable \ {"backfill", "requireOwner"}
        BY <2>1, <3>1, SecondFile, FilesAre DEF Current
      <4> QED
        BY <4>1 DEF Refused
    <3>2. CASE job[p].file = 2
      <4>1. job[p].next \in 1 .. 12 /\ Current(p) = Second[job[p].next]
        <5>1. Len(Statements[2]) = 12
          BY SecondFile DEF Second
        <5> QED
          BY <2>1, <3>2, <5>1 DEF Current, Second
      <4>2. Second[job[p].next] \notin schema
        <5> SUFFICES ASSUME Second[job[p].next] \in schema PROVE FALSE
          OBVIOUS
        <5>1. PICK q \in Pods : job[q].at = "run" /\ job[q].next > job[p].next
          BY <1>3, <2>2, <3>2, <4>1 DEF CalmOK
        <5>2. q = p
          BY <1>11, <2>1, <5>1
        <5> QED
          BY <2>1, <5>1, <5>2
      <4>3. Current(p) = "requireOwner" => ~\E r \in Rows : owner[r] = "missing"
        <5> SUFFICES ASSUME Current(p) = "requireOwner" PROVE "backfill" \in schema
          BY <1>3 DEF Calm, LateRow
        <5>1. \A j \in 1 .. 12 : Second[j] = Second[6] => j = 6
          BY SecondFile
        <5>2. job[p].next = 6
          BY <4>1, <5>1, SecondFile
        <5>3. \A j \in 1 .. 5 : Second[j] \in schema
          BY <2>1, <3>2, <5>2 DEF Progress, Second
        <5> QED
          BY <5>3, SecondFile
      <4> QED
        BY <4>1, <4>2, <4>3 DEF Refused
    <3> QED
      BY <2>1, <3>1, <3>2, SecondFile
  <2>4. schema' = schema \cup {Current(p)}
    BY <1>12, <2>3 DEF Execute
  <2>5. job'[p] = [at |-> "run", file |-> job[p].file, next |-> job[p].next + 1]
    BY <1>12, <2>3 DEF Execute, Goto, MigrationInv
  <2>6. \A q \in Pods : job'[q].at # "failed"
    BY <1>3, <1>5, <2>5 DEF CalmOK
  <2>7. \A f \in Files : ledger'[f] # None => ledger'[f] = checksums'[f]
    BY <1>2, <1>3, <2>1 DEF CalmOK
  <2>8. \A q \in Pods : job'[q].at = "run" => ledger'[job'[q].file] = None
    BY <1>11, <2>1, <2>2, <2>5
  <2>9. ASSUME ledger'[2] = None, NEW k \in 1 .. 12, Second[k] \in schema'
        PROVE  job[p].file = 2 /\ job[p].next + 1 > k
    <3>1. CASE Second[k] \in schema
      <4>1. PICK q \in Pods : job[q].at = "run" /\ job[q].file = 2 /\ job[q].next > k
        BY <1>3, <2>1, <2>9, <3>1 DEF CalmOK
      <4>2. q = p
        BY <1>11, <2>1, <4>1
      <4> QED
        BY <2>1, <4>1, <4>2
    <3>2. CASE Second[k] = Current(p)
      <4>1. CASE job[p].file = 1
        <5>1. Current(p) \in StatementsOf(1)
          BY <2>1, <4>1, FilesAre DEF Current, StatementsOf
        <5> QED
          BY <3>2, <5>1, SecondFile
      <4>2. CASE job[p].file = 2
        <5>1. job[p].next \in 1 .. 12 /\ Current(p) = Second[job[p].next]
          <6>1. Len(Statements[2]) = 12
            BY SecondFile DEF Second
          <6> QED
            BY <2>1, <4>2, <6>1 DEF Current, Second
        <5>2. job[p].next = k
          BY <3>2, <5>1, SecondFile
        <5> QED
          BY <4>2, <5>2
      <4> QED
        BY <2>1, <4>1, <4>2, SecondFile
    <3> QED
      BY <2>4, <2>9, <3>1, <3>2
  <2>10. ledger'[2] = None => \A k \in 1 .. 12 : Second[k] \in schema' =>
            \E q \in Pods : job'[q].at = "run" /\ job'[q].file = 2 /\ job'[q].next > k
    BY <2>5, <2>9
  <2> QED
    BY <2>6, <2>7, <2>8, <2>10 DEF CalmOK
<1>13. CASE Record(p)
  <2>1. job[p].at = "run" /\ job[p].file \in Files /\ schema' = schema
    BY <1>13 DEF Record, MigrationInv, Progress
  <2>2. ~Known(p)
    BY <1>3, <2>1 DEF Known, CalmOK
  <2>3. ledger' = [ledger EXCEPT ![job[p].file] = checksums[job[p].file]] /\ NextFile(p)
    BY <1>13, <2>2 DEF Record
  <2>4. job'[p].at \in {"check", "grant"}
    BY <2>3 DEF NextFile, Stop, Goto, MigrationInv
  <2>5. \A q \in Pods : job'[q].at # "failed" /\ job'[q].at # "run"
    BY <1>3, <1>5, <1>11, <2>1, <2>4 DEF CalmOK
  <2>6. \A f \in Files : ledger'[f] # None => ledger'[f] = checksums'[f]
    BY <1>2, <1>3, <1>6, <2>1, <2>3 DEF CalmOK
  <2>7. ASSUME ledger'[2] = None, NEW k \in 1 .. 12, Second[k] \in schema' PROVE FALSE
    <3>1. CASE job[p].file = 2
      <4>1. ledger'[2] = checksums[2]
        BY <1>6, <2>1, <2>3, <3>1
      <4> QED
        BY <2>7, <4>1, SecondFile, MigrationAssumption DEF LockInv, Original, Rewritten
    <3>2. CASE job[p].file # 2
      <4>1. ledger[2] = None
        BY <1>6, <2>1, <2>3, <2>7, <3>2, SecondFile
      <4>2. PICK q \in Pods : job[q].at = "run" /\ job[q].file = 2
        BY <1>3, <2>1, <2>7, <4>1 DEF CalmOK
      <4> QED
        BY <1>11, <2>1, <3>2, <4>2
    <3> QED
      BY <3>1, <3>2
  <2> QED
    BY <2>5, <2>6, <2>7 DEF CalmOK
<1> QED
  BY <1>1, <1>8, <1>9, <1>10, <1>12, <1>13 DEF PodStep

LEMMA LockInvSuffices == LockInv => OnlyDisturbedPodsFail
BY DEF LockInv, OnlyDisturbedPodsFail, Calm, CalmOK

LEMMA LockInvInitially == OnboardingInit => LockInv
<1> SUFFICES ASSUME MigrationInit PROVE LockInv
  BY DEF OnboardingInit
<1>1. job = [p \in Pods |-> Idle] /\ release # "current"
  BY DEF MigrationInit
<1>2. \A p \in Pods : job[p].at = "idle"
  BY <1>1 DEF Idle
<1>3. \A k \in 1 .. 12 : Second[k] \notin schema
  BY SecondFile DEF MigrationInit
<1>4. checksums \in [Files -> {Original, Rewritten}] /\ disturbances = 0
  BY DEF MigrationInit
<1>5. \A f \in Files : ledger[f] # None => ledger[f] = checksums[f]
  BY DEF MigrationInit
<1>6. CalmOK
  BY <1>2, <1>3, <1>5 DEF CalmOK
<1> QED
  BY <1>1, <1>2, <1>3, <1>4, <1>6 DEF LockInv, Exclusive, PrefixInEffect, RestIsNew

LEMMA LockInvPreserved ==
    ASSUME MigrationInv, LockInv, [OnboardingNext]_onboardingVars
    PROVE  LockInv'
<1>1. MigrationNext \/ UNCHANGED migrationVars
  BY DEF OnboardingNext, onboardingVars, ScopeNext
<1>2. CASE UNCHANGED migrationVars
  BY <1>2 DEF migrationVars, LockInv, Exclusive, PrefixInEffect, RestIsNew, Calm, CalmOK, LateRow
<1>3. ASSUME NEW p \in Pods, Start(p) \/ PodStep(p) \/ Die(p)
      PROVE  LockInv'
  <2>1. /\ checksums' = checksums /\ release' = release
        /\ disturbances' \in {disturbances, disturbances + 1}
    BY <1>3 DEF PodStep, Start, GetLock, LockTimesOut, Verify, Apply, Execute, Record,
                GrantAccess, Die, Disturb
  <2>2. release # "current"
    BY <1>3 DEF LockInv, PodStep, Start, GetLock, LockTimesOut, Verify, Apply, Execute, Record, GrantAccess, Die
  <2>3. Exclusive' /\ PrefixInEffect' /\ RestIsNew' /\ (Calm' => CalmOK')
    BY <1>3, ExclusiveStays, SchemaStays, CalmStays
  <2> QED
    BY <2>1, <2>2, <2>3 DEF LockInv
<1>4. ASSUME NEW f \in Files, Rewrite(f) PROVE LockInv'
  <2>1. ~Calm'
    BY <1>4 DEF Rewrite, Disturb, Calm, LockInv
  <2>2. checksums' \in [Files -> {Original, Rewritten}] /\ disturbances' \in Nat
    BY <1>4 DEF Rewrite, Disturb, LockInv
  <2> QED
    BY <1>4, <2>1, <2>2 DEF Rewrite, LockInv, Exclusive, PrefixInEffect, RestIsNew
<1>5. ASSUME NEW r \in Rows, PreviousWrites(r) PROVE LockInv'
  <2>1. \A s \in Rows : owner[s] = "missing" => owner'[s] = "missing"
    BY <1>5 DEF PreviousWrites
  <2>2. Calm' => Calm
    BY <1>5, <2>1 DEF PreviousWrites, Calm, LateRow
  <2>3. Calm' => CalmOK'
    BY <1>5, <2>2 DEF PreviousWrites, LockInv, CalmOK
  <2> QED
    BY <1>5, <2>3 DEF PreviousWrites, LockInv, Exclusive, PrefixInEffect, RestIsNew
<1>6. CASE Rollout
  <2>1. \A p \in Pods : job'[p].at = "idle"
    BY <1>6 DEF Rollout, Idle
  <2>2. ~Calm'
    BY <1>6 DEF Rollout, Calm
  <2> QED
    BY <1>6, <2>1, <2>2 DEF Rollout, LockInv, Exclusive, PrefixInEffect, RestIsNew
<1> QED
  BY <1>1, <1>2, <1>3, <1>4, <1>5, <1>6 DEF MigrationNext

\* The named lock keeps the pods apart: for any number of them, none fails for
\* another reason than a death, a rewritten file, a late row or half a user.
THEOREM LockKeepsApart == OnboardingSafety => []OnlyDisturbedPodsFail
<1>1. LockInv /\ MigrationInv /\ [OnboardingNext]_onboardingVars => LockInv'
  BY LockInvPreserved
<1> QED
  BY <1>1, MigrationInvAlways, LockInvInitially, LockInvSuffices, PTL DEF OnboardingSafety

-----------------------------------------------------------------------------
(* The locks of provisioning                                               *)

CommandState ==
    [at : {"rest", "readMerchant", "readStores", "insertMerchant", "insertStore", "commit"},
     asked : Tenancies \cup {None}, found : MerchantRow \cup {None}]

TenantTypes ==
    /\ merchants \in [Merchants -> MerchantRow \cup {None}]
    /\ stores \in [Stores -> StoreRow \cup {None}]
    /\ provisioned \in [Merchants -> Nat]
    /\ command \in [Terminals -> CommandState]
    /\ \A c \in Terminals : command[c] = AtRest \/ (Asked(c) \in Tenancies /\ command[c].at # "rest")
    /\ DOMAIN locks = Terminals
    /\ report \in {"provisioned", "noop", "refused", "error", None}
    /\ changes \in 0 .. MaxChanges

\* What a command has read is as it was, and locked; what it has inserted was
\* not there, and is not there for others yet.
WorkOf(c) ==
    LET m == Asked(c).merchant IN
    /\ command[c].at \in {"rest", "readMerchant"} => locks[c] = {}
    /\ command[c].at = "readStores" =>
           /\ command[c].found = merchants[m]
           /\ <<"merchant", m, IF merchants[m] = None THEN "gap" ELSE "X">> \in locks[c]
    /\ command[c].at \in {"insertStore", "commit"} =>
           /\ merchants[m] = None
           /\ <<"merchant", m, "X">> \in locks[c]
    /\ command[c].at = "commit" =>
           /\ Matches(c) = {}
           /\ <<"store", Asked(c).store, "X">> \in locks[c]
           /\ <<"code", AskedCode(c), "X">> \in locks[c]

\* No two commands have an X lock of the same entry.
Apart == \A c, d \in Terminals : c # d => \A l \in locks[c] \cap locks[d] : l[3] # "X"

\* Where a command has found nothing, nothing is, nor does another insert.
GapIsFree(c, m) ==
    <<"merchant", m, "gap">> \in locks[c] =>
        /\ merchants[m] = None
        /\ \A d \in Terminals \ {c} : <<"merchant", m, "X">> \notin locks[d]

GapsAreFree == \A c \in Terminals, m \in Merchants : GapIsFree(c, m)

TenantInv ==
    /\ TenantTypes
    /\ \A c \in Terminals : WorkOf(c)
    /\ Apart
    /\ GapsAreFree
    /\ TenantIsWhole

\* What is granted does not meet what others have.
LEMMA GrantKeepsApart ==
    ASSUME DOMAIN locks = Terminals, Apart, NEW c \in Terminals, NEW wanted,
           Holders(c, wanted) = {}, Grant(c, wanted)
    PROVE  /\ DOMAIN locks' = Terminals /\ Apart'
           /\ locks'[c] = locks[c] \cup Granted(wanted)
           /\ \A d \in Terminals \ {c} : locks'[d] = locks[d]
<1>1. /\ DOMAIN locks' = Terminals
      /\ locks'[c] = locks[c] \cup Granted(wanted)
      /\ \A d \in Terminals \ {c} : locks'[d] = locks[d]
  BY DEF Grant
<1>2. ASSUME NEW d \in Terminals \ {c}, NEW l \in locks'[c] \cap locks[d], l[3] = "X"
      PROVE  FALSE
  <2>1. l \in Granted(wanted)
    BY <1>1, <1>2 DEF Apart
  <2>2. PICK w \in wanted : l = IF w[3] = "insert" THEN <<w[1], w[2], "X">> ELSE w
    BY <2>1 DEF Granted
  <2>3. Conflict(w, l)
    BY <1>2, <2>2 DEF Conflict
  <2> QED
    BY <2>3 DEF Holders, Terminals
<1>3. Apart'
  BY <1>1, <1>2 DEF Apart
<1> QED
  BY <1>1, <1>3

\* What a command asks for, statement by statement.
LEMMA AskedTypes ==
    ASSUME TenantTypes, NEW c \in Terminals, command[c].at # "rest"
    PROVE  /\ Asked(c) \in Tenancies /\ Asked(c).merchant \in Merchants
           /\ Asked(c).store \in Stores /\ Asked(c).code \in 0 .. 9
           /\ Asked(c).merchant \in Nat /\ Asked(c).store \in Nat
<1>1. Asked(c) \in Tenancies
  BY DEF TenantTypes, AtRest
<1> QED
  BY <1>1, TenantAssumption

\* Rows are unchanged, and so is what the other commands rely on.
LEMMA OthersKeep ==
    ASSUME TenantInv, NEW c \in Terminals, UNCHANGED tenantTables,
           \A d \in Terminals \ {c} : command'[d] = command[d] /\ locks'[d] = locks[d]
    PROVE  \A d \in Terminals \ {c} : WorkOf(d)'
<1> SUFFICES ASSUME NEW d \in Terminals \ {c} PROVE WorkOf(d)'
  OBVIOUS
<1>1. WorkOf(d)
  BY DEF TenantInv
<1>2. command'[d] = command[d] /\ locks'[d] = locks[d]
  OBVIOUS
<1> QED
  BY <1>1, <1>2 DEF WorkOf, Asked, AskedCode, Matches, tenantTables

\* The end of a transaction, but for what it has committed.
LEMMA ReportKeeps ==
    ASSUME TenantInv, NEW c \in Terminals,
           NEW what \in {"provisioned", "noop", "refused", "error"}, Report(c, what)
    PROVE  /\ command' \in [Terminals -> CommandState]
           /\ \A d \in Terminals : command'[d] = AtRest
                                   \/ (Asked(d)' \in Tenancies /\ command'[d].at # "rest")
           /\ DOMAIN locks' = Terminals
           /\ report' \in {"provisioned", "noop", "refused", "error", None}
           /\ Apart'
           /\ WorkOf(c)'
           /\ \A d \in Terminals \ {c} : command'[d] = command[d] /\ locks'[d] = locks[d]
           /\ locks'[c] = {}
<1> USE DEF TenantInv, TenantTypes
<1>1. command' = [command EXCEPT ![c] = AtRest] /\ locks' = [locks EXCEPT ![c] = {}] /\ report' = what
  BY DEF Report, Release
<1>2. AtRest \in CommandState
  BY DEF AtRest, CommandState
<1>3. command' \in [Terminals -> CommandState]
  BY <1>1, <1>2
<1>4. command'[c] = AtRest /\ locks'[c] = {}
  BY <1>1
<1>5. \A d \in Terminals \ {c} : command'[d] = command[d] /\ locks'[d] = locks[d]
  BY <1>1
<1>6. \A d \in Terminals : command'[d] = AtRest
                           \/ (Asked(d)' \in Tenancies /\ command'[d].at # "rest")
  BY <1>4, <1>5 DEF Asked
<1>7. DOMAIN locks' = Terminals /\ Apart'
  BY <1>1, <1>4, <1>5 DEF Apart
<1>8. WorkOf(c)'
  BY <1>4 DEF WorkOf, AtRest
<1> QED
  BY <1>1, <1>3, <1>4, <1>5, <1>6, <1>7, <1>8

LEMMA GapsStay ==
    ASSUME TenantInv, NEW c \in Terminals, locks'[c] = {}, merchants' = merchants,
           \A d \in Terminals \ {c} : locks'[d] = locks[d]
    PROVE  GapsAreFree'
<1> SUFFICES ASSUME NEW d \in Terminals, NEW m \in Merchants PROVE GapIsFree(d, m)'
  BY DEF GapsAreFree
<1>1. CASE d = c
  BY <1>1 DEF GapIsFree
<1>2. CASE d # c
  <2>1. GapIsFree(d, m) /\ locks'[d] = locks[d]
    BY <1>2 DEF TenantInv, GapsAreFree
  <2> QED
    BY <2>1 DEF GapIsFree
<1> QED
  BY <1>1, <1>2

\* A command that ends without a commit, or starts.
LEMMA RollbackKeeps ==
    ASSUME TenantInv, NEW c \in Terminals,
           NEW what \in {"provisioned", "noop", "refused", "error"}, Report(c, what),
           UNCHANGED <<tenantTables, changes>>
    PROVE  TenantInv'
<1>1. GapsAreFree'
  BY ReportKeeps, GapsStay DEF tenantTables
<1>2. \A d \in Terminals : WorkOf(d)'
  BY ReportKeeps, OthersKeep
<1>3. TenantTypes'
  BY ReportKeeps DEF TenantInv, TenantTypes, tenantTables
<1>4. TenantIsWhole'
  BY DEF TenantInv, TenantIsWhole, tenantTables
<1> QED
  BY <1>1, <1>2, <1>3, <1>4, ReportKeeps DEF TenantInv

LEMMA RunKeeps ==
    ASSUME TenantInv, NEW c \in Terminals, NEW t \in Tenancies, Run(c, t)
    PROVE  TenantInv'
<1> USE DEF TenantInv, TenantTypes
<1>1. /\ command[c] = AtRest /\ report' = None /\ UNCHANGED <<tenantTables, locks, changes>>
      /\ command' = [command EXCEPT ![c] = [at |-> "readMerchant", asked |-> t, found |-> None]]
  BY DEF Run
<1>2. [at |-> "readMerchant", asked |-> t, found |-> None] \in CommandState
  BY DEF CommandState
<1>3. command' \in [Terminals -> CommandState]
  BY <1>1, <1>2
<1>4. command'[c] = [at |-> "readMerchant", asked |-> t, found |-> None]
  BY <1>1
<1>5. \A d \in Terminals \ {c} : command'[d] = command[d] /\ locks'[d] = locks[d]
  BY <1>1
<1>6. \A d \in Terminals : command'[d] = AtRest
                           \/ (Asked(d)' \in Tenancies /\ command'[d].at # "rest")
  BY <1>4, <1>5 DEF Asked
<1>7. locks[c] = {}
  <2>1. command[c].at = "rest" /\ WorkOf(c)
    BY <1>1 DEF AtRest
  <2> QED
    BY <2>1 DEF WorkOf
<1>8. WorkOf(c)'
  BY <1>1, <1>4, <1>7 DEF WorkOf
<1>9. \A d \in Terminals : WorkOf(d)'
  BY <1>1, <1>5, <1>8, OthersKeep
<1>10. TenantTypes'
  BY <1>1, <1>3, <1>6 DEF tenantTables
<1>11. Apart' /\ GapsAreFree' /\ TenantIsWhole'
  BY <1>1 DEF tenantTables, Apart, GapsAreFree, GapIsFree, TenantIsWhole
<1> QED
  BY <1>9, <1>10, <1>11

\* An entry is pending when it is X-locked.
LEMMA PendingIs ==
    ASSUME NEW index, NEW id, id \in Pending(index)
    PROVE  \E d \in Terminals : \E l \in locks[d] : l[1] = index /\ l[2] = id /\ l[3] = "X"
BY DEF Pending, Terminals

LEMMA PendingHas ==
    ASSUME NEW index, NEW id, NEW d \in Terminals, <<index, id, "X">> \in locks[d]
    PROVE  id \in Pending(index)
<1>1. <<index, id, "X">> \in UNION {locks[t] : t \in Transactions}
  BY DEF Terminals
<1> QED
  BY <1>1 DEF Pending

\* The next statement of a command that goes on.
LEMMA ProceedKeeps ==
    ASSUME TenantInv, NEW c \in Terminals, NEW merchant \in MerchantRow \cup {None},
           command[c].at # "rest", Blocked[c] = {},
           NEW next \in {"readStores", "insertMerchant", "insertStore", "commit"},
           Proceed(c, next, merchant), UNCHANGED changes
    PROVE  /\ TenantTypes' /\ Apart' /\ TenantIsWhole'
           /\ Asked(c)' = Asked(c) /\ command'[c].at = next /\ command'[c].found = merchant
           /\ locks'[c] = locks[c] \cup Granted(Wants(c))
           /\ \A d \in Terminals \ {c} : locks'[d] = locks[d]
           /\ \A d \in Terminals \ {c} : WorkOf(d)'
           /\ WorkOf(c)' => \A d \in Terminals : WorkOf(d)'
           /\ UNCHANGED tenantTables
<1> USE DEF TenantInv, TenantTypes
<1>1. /\ command' = [command EXCEPT ![c].at = next, ![c].found = merchant]
      /\ Grant(c, Wants(c)) /\ report' = None /\ UNCHANGED tenantTables
      /\ Holders(c, Wants(c)) = {}
  BY DEF Proceed, Blocked
<1>2. /\ DOMAIN locks' = Terminals /\ Apart'
      /\ locks'[c] = locks[c] \cup Granted(Wants(c))
      /\ \A d \in Terminals \ {c} : locks'[d] = locks[d]
  BY <1>1, GrantKeepsApart
<1>3. Asked(c) \in Tenancies
  BY AskedTypes
<1>4. command' \in [Terminals -> CommandState]
  BY <1>1 DEF CommandState
<1>5. Asked(c)' = Asked(c) /\ command'[c].at = next /\ command'[c].found = merchant
  BY <1>1 DEF CommandState, Asked
<1>6. \A d \in Terminals \ {c} : command'[d] = command[d]
  BY <1>1
<1>7. \A d \in Terminals : command'[d] = AtRest
                           \/ (Asked(d)' \in Tenancies /\ command'[d].at # "rest")
  BY <1>3, <1>5, <1>6 DEF Asked
<1>8. TenantTypes'
  BY <1>1, <1>2, <1>4, <1>7 DEF tenantTables
<1>9. \A d \in Terminals \ {c} : WorkOf(d)'
  BY <1>1, <1>2, <1>6, OthersKeep
<1>10. TenantIsWhole'
  BY <1>1 DEF TenantIsWhole, tenantTables
<1> QED
  BY <1>1, <1>2, <1>5, <1>8, <1>9, <1>10

LEMMA ReadMerchantKeeps ==
    ASSUME TenantInv, NEW c \in Terminals, ReadMerchant(c)
    PROVE  TenantInv'
<1> DEFINE m == Asked(c).merchant
           wanted == ReadLocks("merchant", Merchants, MerchantIds, m, "X")
<1>1. At(c, "readMerchant") /\ Proceed(c, "readStores", merchants[m]) /\ UNCHANGED changes
  BY DEF ReadMerchant
<1>2. command[c].at = "readMerchant"
  BY <1>1 DEF At
<1>3. m \in Merchants /\ m \in Nat /\ merchants[m] \in MerchantRow \cup {None} /\ WorkOf(c)
  BY <1>2, AskedTypes DEF TenantInv, TenantTypes
<1>4. locks[c] = {}
  BY <1>2, <1>3 DEF WorkOf
<1>5. Wants(c) = wanted
  BY <1>2 DEF Wants
<1>6. \A d \in Terminals \ {c} : \A w \in wanted : \A l \in locks[d] : ~Conflict(w, l)
  BY <1>1, <1>5 DEF At, Blocked, Holders, Terminals
<1>7. /\ TenantTypes' /\ Apart' /\ TenantIsWhole'
      /\ Asked(c)' = Asked(c) /\ command'[c].at = "readStores" /\ command'[c].found = merchants[m]
      /\ locks'[c] = Granted(wanted)
      /\ \A d \in Terminals \ {c} : locks'[d] = locks[d]
      /\ WorkOf(c)' => \A d \in Terminals : WorkOf(d)'
      /\ UNCHANGED tenantTables
  <2>1. command[c].at # "rest" /\ Blocked[c] = {} /\ merchants[m] \in MerchantRow \cup {None}
    BY <1>1, <1>2, <1>3 DEF At
  <2> HIDE DEF m, wanted
  <2>2. locks[c] \cup Granted(Wants(c)) = Granted(wanted)
    BY <1>4, <1>5
  <2> QED
    BY <1>1, <2>1, <2>2, ProceedKeeps
<1> HIDE DEF m
<1>8. CASE m \in MerchantIds
  <2>1. wanted = {<<"merchant", m, "X">>}
    BY <1>8 DEF ReadLocks
  <2>2. locks'[c] = {<<"merchant", m, "X">>}
    BY <1>7, <2>1 DEF Granted
  <2>3. \A d \in Terminals \ {c} : \A l \in locks[d] : ~(l[1] = "merchant" /\ l[2] = m /\ l[3] = "X")
    <3>1. \A d \in Terminals \ {c} : \A l \in locks[d] : ~Conflict(<<"merchant", m, "X">>, l)
      BY <1>6, <2>1
    <3> QED
      BY <3>1 DEF Conflict
  <2>4. m \notin Pending("merchant")
    <3> SUFFICES ASSUME m \in Pending("merchant") PROVE FALSE
      OBVIOUS
    <3>1. PICK d \in Terminals : \E l \in locks[d] : l[1] = "merchant" /\ l[2] = m /\ l[3] = "X"
      BY PendingIs
    <3>2. d = c
      BY <2>3, <3>1
    <3> QED
      BY <1>4, <3>1, <3>2
  <2>5. merchants[m] # None
    BY <1>8, <2>4 DEF MerchantIds
  <2>6. WorkOf(c)'
    BY <1>7, <2>2, <2>5 DEF WorkOf, m, tenantTables
  <2>7. GapsAreFree'
    <3> SUFFICES ASSUME NEW d \in Terminals, NEW n \in Merchants PROVE GapIsFree(d, n)'
      BY DEF GapsAreFree
    <3> SUFFICES ASSUME <<"merchant", n, "gap">> \in locks'[d] PROVE GapIsFree(d, n)'
      BY DEF GapIsFree
    <3>1. d # c
      BY <2>2
    <3>2. merchants[n] = None /\ \A e \in Terminals \ {d} : <<"merchant", n, "X">> \notin locks[e]
      BY <1>7, <3>1 DEF TenantInv, GapsAreFree, GapIsFree
    <3>3. n # m
      BY <2>5, <3>2
    <3> QED
      BY <1>7, <2>2, <3>2, <3>3 DEF tenantTables, GapIsFree
  <2> QED
    BY <1>7, <2>6, <2>7 DEF TenantInv
<1>9. CASE m \notin MerchantIds
  <2>1. wanted = {<<"merchant", j, "gap">> : j \in Gap(Merchants, MerchantIds, m)}
    BY <1>9 DEF ReadLocks
  <2>2. locks'[c] = wanted
    BY <1>7, <2>1 DEF Granted
  <2>3. merchants[m] = None
    BY <1>3, <1>9 DEF MerchantIds
  <2>4. <<"merchant", m, "gap">> \in wanted
    BY <1>3, <1>9, <2>1 DEF Gap
  <2>5. WorkOf(c)'
    BY <1>7, <2>2, <2>3, <2>4 DEF WorkOf, m, tenantTables
  <2>6. \A j \in Gap(Merchants, MerchantIds, m) :
           merchants[j] = None /\ \A d \in Terminals : <<"merchant", j, "X">> \notin locks[d]
    BY PendingHas DEF Gap, MerchantIds
  <2>7. GapsAreFree'
    <3> SUFFICES ASSUME NEW d \in Terminals, NEW n \in Merchants PROVE GapIsFree(d, n)'
      BY DEF GapsAreFree
    <3> SUFFICES ASSUME <<"merchant", n, "gap">> \in locks'[d] PROVE GapIsFree(d, n)'
      BY DEF GapIsFree
    <3>1. \A e \in Terminals : <<"merchant", n, "X">> \in locks'[e] => <<"merchant", n, "X">> \in locks[e]
      BY <1>7, <2>1, <2>2
    <3>2. CASE d = c
      <4>1. n \in Gap(Merchants, MerchantIds, m)
        BY <2>1, <2>2, <3>2
      <4> QED
        BY <1>7, <2>6, <3>1, <4>1 DEF tenantTables, GapIsFree
    <3>3. CASE d # c
      <4>1. <<"merchant", n, "gap">> \in locks[d]
        BY <1>7, <3>3
      <4> QED
        BY <1>7, <3>1, <4>1 DEF TenantInv, GapsAreFree, GapIsFree, tenantTables
    <3> QED
      BY <3>2, <3>3
  <2> QED
    BY <1>7, <2>5, <2>7 DEF TenantInv
<1> QED
  BY <1>8, <1>9

\* A step that neither gets a lock of a merchant nor changes a row.
LEMMA ElsewhereKeeps ==
    ASSUME TenantInv, NEW c \in Terminals, UNCHANGED tenantTables,
           \A d \in Terminals \ {c} : locks'[d] = locks[d],
           \A l \in locks'[c] : l[1] = "merchant" => l \in locks[c]
    PROVE  GapsAreFree'
<1> SUFFICES ASSUME NEW d \in Terminals, NEW m \in Merchants PROVE GapIsFree(d, m)'
  BY DEF GapsAreFree
<1> SUFFICES ASSUME <<"merchant", m, "gap">> \in locks'[d] PROVE GapIsFree(d, m)'
  BY DEF GapIsFree
<1>1. \A e \in Terminals : \A mode : <<"merchant", m, mode>> \in locks'[e] => <<"merchant", m, mode>> \in locks[e]
  OBVIOUS
<1>2. GapIsFree(d, m) /\ merchants' = merchants
  BY DEF TenantInv, GapsAreFree, tenantTables
<1> QED
  BY <1>1, <1>2 DEF GapIsFree

LEMMA ReadStoresKeeps ==
    ASSUME TenantInv, NEW c \in Terminals, ReadStores(c)
    PROVE  TenantInv'
<1>1. command[c].at = "readStores" /\ Blocked[c] = {} /\ UNCHANGED changes
  BY DEF ReadStores, At
<1>2. ASSUME Proceed(c, "insertMerchant", None) PROVE TenantInv'
  <2>1. command[c].at # "rest"
    BY <1>1
  <2>2. /\ TenantTypes' /\ Apart' /\ TenantIsWhole'
        /\ command'[c].at = "insertMerchant"
        /\ locks'[c] = locks[c] \cup Granted(Wants(c))
        /\ \A d \in Terminals \ {c} : locks'[d] = locks[d]
        /\ WorkOf(c)' => \A d \in Terminals : WorkOf(d)'
        /\ UNCHANGED tenantTables
    BY <1>1, <1>2, <2>1, ProceedKeeps
  <2>3. WorkOf(c)'
    BY <2>2 DEF WorkOf
  <2>4. \A w \in Wants(c) : w[1] # "merchant"
    <3> DEFINE codes == {CodeOf(t.merchant, t.code) : t \in Tenancies}
    <3>1. Wants(c) = ReadLocks("store", Stores, StoreIds, Asked(c).store, "X")
                     \cup ReadLocks("code", codes, CodeEntries, AskedCode(c), "X")
                     \cup {<<"store", s, "X">> : s \in Matches(c)}
      BY <1>1 DEF Wants
    <3>2. \A index, ids, entries, id : \A w \in ReadLocks(index, ids, entries, id, "X") : w[1] = index
      BY DEF ReadLocks
    <3> HIDE DEF codes
    <3> QED
      BY <3>1, <3>2
  <2>5. \A l \in Granted(Wants(c)) : l[1] # "merchant"
    BY <2>4 DEF Granted
  <2>6. GapsAreFree'
    BY <2>2, <2>5, ElsewhereKeeps
  <2> QED
    BY <2>2, <2>3, <2>6 DEF TenantInv
<1>3. ASSUME NEW what \in {"noop", "refused"}, Report(c, what), UNCHANGED tenantTables
      PROVE  TenantInv'
  BY <1>1, <1>3, RollbackKeeps
<1> QED
  BY <1>2, <1>3 DEF ReadStores

LEMMA InsertMerchantKeeps ==
    ASSUME TenantInv, NEW c \in Terminals, InsertMerchant(c)
    PROVE  TenantInv'
<1> DEFINE m == Asked(c).merchant
<1>1. command[c].at = "insertMerchant" /\ Blocked[c] = {} /\ UNCHANGED changes
  BY DEF InsertMerchant, At
<1>2. m \in Merchants
  BY <1>1, AskedTypes DEF TenantInv
<1> HIDE DEF m
<1>3. ASSUME merchants[m] = None, Proceed(c, "insertStore", None) PROVE TenantInv'
  <2>1. command[c].at # "rest"
    BY <1>1
  <2>2. /\ TenantTypes' /\ Apart' /\ TenantIsWhole'
        /\ Asked(c)' = Asked(c) /\ command'[c].at = "insertStore"
        /\ locks'[c] = locks[c] \cup Granted(Wants(c))
        /\ \A d \in Terminals \ {c} : locks'[d] = locks[d]
        /\ WorkOf(c)' => \A d \in Terminals : WorkOf(d)'
        /\ UNCHANGED tenantTables
    BY <1>1, <1>3, <2>1, ProceedKeeps
  <2>3. Wants(c) = {<<"merchant", m, "insert">>}
    BY <1>1 DEF Wants, m
  <2>4. Granted(Wants(c)) = {<<"merchant", m, "X">>}
    BY <2>3 DEF Granted
  <2>5. WorkOf(c)'
    BY <1>3, <2>2, <2>4 DEF WorkOf, m, tenantTables
  <2>6. \A d \in Terminals \ {c} : <<"merchant", m, "gap">> \notin locks[d]
    <3>1. \A d \in Terminals \ {c} : \A l \in locks[d] : ~Conflict(<<"merchant", m, "insert">>, l)
      BY <1>1, <2>3 DEF Blocked, Holders, Terminals
    <3> QED
      BY <3>1 DEF Conflict
  <2>7. GapsAreFree'
    <3> SUFFICES ASSUME NEW d \in Terminals, NEW n \in Merchants PROVE GapIsFree(d, n)'
      BY DEF GapsAreFree
    <3> SUFFICES ASSUME <<"merchant", n, "gap">> \in locks'[d] PROVE GapIsFree(d, n)'
      BY DEF GapIsFree
    <3>1. <<"merchant", n, "gap">> \in locks[d]
      BY <2>2, <2>4
    <3>2. merchants'[n] = None /\ \A e \in Terminals \ {d} : <<"merchant", n, "X">> \notin locks[e]
      BY <2>2, <3>1 DEF TenantInv, GapsAreFree, GapIsFree, tenantTables
    <3>3. d # c => n # m
      BY <2>6, <3>1
    <3>4. \A e \in Terminals \ {d} : <<"merchant", n, "X">> \notin locks'[e]
      BY <2>2, <2>4, <3>2, <3>3
    <3> QED
      BY <3>2, <3>4 DEF GapIsFree
  <2> QED
    BY <2>2, <2>5, <2>7 DEF TenantInv
<1>4. ASSUME Report(c, "error"), UNCHANGED tenantTables PROVE TenantInv'
  BY <1>1, <1>4, RollbackKeeps
<1> QED
  BY <1>3, <1>4 DEF InsertMerchant, m

LEMMA InsertStoreKeeps ==
    ASSUME TenantInv, NEW c \in Terminals, InsertStore(c)
    PROVE  TenantInv'
<1>1. command[c].at = "insertStore" /\ Blocked[c] = {} /\ UNCHANGED changes
  BY DEF InsertStore, At
<1>2. ASSUME Matches(c) = {}, Proceed(c, "commit", None) PROVE TenantInv'
  <2>1. command[c].at # "rest"
    BY <1>1
  <2>2. /\ TenantTypes' /\ Apart' /\ TenantIsWhole'
        /\ Asked(c)' = Asked(c) /\ command'[c].at = "commit"
        /\ locks'[c] = locks[c] \cup Granted(Wants(c))
        /\ \A d \in Terminals \ {c} : locks'[d] = locks[d]
        /\ WorkOf(c)' => \A d \in Terminals : WorkOf(d)'
        /\ UNCHANGED tenantTables
    BY <1>1, <1>2, <2>1, ProceedKeeps
  <2>3. Wants(c) = {<<"store", Asked(c).store, "insert">>, <<"code", AskedCode(c), "insert">>}
    BY <1>1 DEF Wants
  <2>4. Granted(Wants(c)) = {<<"store", Asked(c).store, "X">>, <<"code", AskedCode(c), "X">>}
    BY <2>3 DEF Granted
  <2>5. Matches(c)' = {} /\ AskedCode(c)' = AskedCode(c)
    BY <1>2, <2>2 DEF Matches, AskedCode, tenantTables
  <2>6. merchants[Asked(c).merchant] = None /\ <<"merchant", Asked(c).merchant, "X">> \in locks[c]
    BY <1>1 DEF TenantInv, WorkOf
  <2>7. WorkOf(c)'
    BY <2>2, <2>4, <2>5, <2>6 DEF WorkOf, tenantTables
  <2>8. GapsAreFree'
    BY <2>2, <2>4, ElsewhereKeeps
  <2> QED
    BY <2>2, <2>7, <2>8 DEF TenantInv
<1>3. ASSUME Report(c, "error"), UNCHANGED tenantTables PROVE TenantInv'
  BY <1>1, <1>3, RollbackKeeps
<1> QED
  BY <1>2, <1>3 DEF InsertStore

\* The rows of one tenant appear, and one audit event, where nothing was; what
\* others have read or inserted is of other merchants, stores and codes.
LEMMA CommitKeeps ==
    ASSUME TenantInv, NEW c \in Terminals, Commit(c)
    PROVE  TenantInv'
<1> DEFINE t == Asked(c)
           m == t.merchant
           s == t.store
           row == [parent |-> None, name |-> t.name, active |-> TRUE]
           storeRow == [merchant |-> m, code |-> t.code, active |-> TRUE]
<1>1. /\ command[c].at = "commit" /\ changes' = changes
      /\ merchants' = [merchants EXCEPT ![m] = row]
      /\ stores' = [stores EXCEPT ![s] = storeRow]
      /\ provisioned' = [provisioned EXCEPT ![m] = @ + 1]
      /\ Report(c, "provisioned")
  BY DEF Commit, At
<1>2. /\ t \in Tenancies /\ m \in Merchants /\ s \in Stores /\ t.code \in 0 .. 9
      /\ m \in Nat /\ s \in Nat
  BY <1>1, AskedTypes DEF TenantInv
<1>3. row \in MerchantRow /\ storeRow \in StoreRow /\ row # None /\ storeRow # None
  <2>1. row \in MerchantRow
    BY <1>2 DEF MerchantRow
  <2>2. storeRow \in StoreRow
    BY <1>2 DEF StoreRow
  <2> QED
    BY <2>1, <2>2, RowsAssumption
<1>4. t.name # "Chain"
  BY <1>2, TenantAssumption
<1>5. /\ merchants[m] = None /\ <<"merchant", m, "X">> \in locks[c]
      /\ Matches(c) = {} /\ <<"store", s, "X">> \in locks[c] /\ <<"code", AskedCode(c), "X">> \in locks[c]
  BY <1>1 DEF TenantInv, WorkOf
<1>6. stores[s] = None
  BY <1>2, <1>5 DEF Matches
<1>7. storeRow.merchant = m /\ storeRow.code = t.code /\ row.name = t.name
  OBVIOUS
<1>8. AskedCode(c) = CodeOf(m, t.code)
  BY DEF AskedCode
<1> HIDE DEF row, storeRow, t, m, s
<1> DEFINE types == TenantTypes
<1>9. /\ merchants \in [Merchants -> MerchantRow \cup {None}]
      /\ stores \in [Stores -> StoreRow \cup {None}]
      /\ provisioned \in [Merchants -> Nat]
  BY DEF TenantInv, TenantTypes
<1>10. /\ merchants' \in [Merchants -> MerchantRow \cup {None}]
       /\ stores' \in [Stores -> StoreRow \cup {None}]
       /\ provisioned' \in [Merchants -> Nat]
  BY <1>1, <1>2, <1>3, <1>9
<1>11. TenantTypes'
  BY <1>1, <1>10, ReportKeeps DEF TenantInv, TenantTypes
<1>12. \A d \in Terminals \ {c} : command'[d] = command[d] /\ locks'[d] = locks[d]
  BY <1>1, ReportKeeps
<1>13. locks'[c] = {} /\ Apart' /\ WorkOf(c)'
  BY <1>1, ReportKeeps
<1>14. \A d \in Terminals \ {c} :
          \A l \in {<<"merchant", m, "X">>, <<"store", s, "X">>, <<"code", AskedCode(c), "X">>} : l \notin locks[d]
  <2> SUFFICES ASSUME NEW d \in Terminals \ {c},
                      NEW l \in {<<"merchant", m, "X">>, <<"store", s, "X">>, <<"code", AskedCode(c), "X">>},
                      l \in locks[d]
               PROVE  FALSE
    OBVIOUS
  <2>1. l[3] = "X" /\ l \in locks[c]
    BY <1>5
  <2> QED
    BY <2>1 DEF TenantInv, Apart
<1>15. \A d \in Terminals \ {c} : <<"merchant", m, "gap">> \notin locks[d]
  BY <1>2, <1>5 DEF TenantInv, GapsAreFree, GapIsFree
<1>16. \A n \in Merchants : n # m => merchants'[n] = merchants[n] /\ provisioned'[n] = provisioned[n]
  BY <1>1, <1>9
<1>17. \A r \in Stores : r # s => stores'[r] = stores[r]
  BY <1>1, <1>9
<1>18. merchants'[m] = row /\ stores'[s] = storeRow /\ provisioned'[m] = provisioned[m] + 1
  BY <1>1, <1>2, <1>9
<1>19. ASSUME NEW d \in Terminals \ {c} PROVE WorkOf(d)'
  <2> DEFINE n == Asked(d).merchant
  <2>1. WorkOf(d) /\ Asked(d)' = Asked(d) /\ command'[d] = command[d] /\ locks'[d] = locks[d]
    BY <1>12 DEF TenantInv, Asked
  <2>2. command[d].at # "rest" => n \in Merchants
    BY AskedTypes DEF TenantInv
  <2>3. command[d].at \in {"readStores", "insertStore", "commit"} => n # m
    <3>1. command[d].at = "readStores" => <<"merchant", n, IF merchants[n] = None THEN "gap" ELSE "X">> \in locks[d]
      BY <2>1 DEF WorkOf
    <3>2. command[d].at = "readStores" => n # m
      BY <1>5, <1>14, <1>15, <3>1
    <3>3. command[d].at \in {"insertStore", "commit"} => <<"merchant", n, "X">> \in locks[d]
      BY <2>1 DEF WorkOf
    <3> QED
      BY <1>14, <3>2, <3>3
  <2>4. command[d].at \in {"readStores", "insertStore", "commit"} => merchants'[n] = merchants[n]
    BY <1>16, <2>2, <2>3
  <2>5. ASSUME command[d].at = "commit" PROVE Matches(d)' = {}
    <3>1. /\ Matches(d) = {} /\ <<"store", Asked(d).store, "X">> \in locks[d]
          /\ <<"code", AskedCode(d), "X">> \in locks[d]
      BY <2>1, <2>5 DEF WorkOf
    <3>2. s # Asked(d).store /\ AskedCode(c) # AskedCode(d)
      BY <1>14, <3>1
    <3>3. AskedCode(d)' = AskedCode(d)
      BY <2>1 DEF AskedCode
    <3> SUFFICES ASSUME NEW r \in Stores, stores'[r] # None,
                        \/ r = Asked(d).store
                        \/ CodeOf(stores'[r].merchant, stores'[r].code) = AskedCode(d)
                 PROVE  FALSE
      BY <2>1, <3>3 DEF Matches
    <3>4. CASE r = s
      BY <1>7, <1>8, <1>18, <3>2, <3>4
    <3>5. CASE r # s
      BY <1>17, <3>1, <3>5 DEF Matches
    <3> QED
      BY <3>4, <3>5
  <2>6. AskedCode(d)' = AskedCode(d)
    BY <2>1 DEF AskedCode
  <2> QED
    BY <2>1, <2>4, <2>5, <2>6 DEF WorkOf
<1>20. GapsAreFree'
  <2> SUFFICES ASSUME NEW d \in Terminals, NEW n \in Merchants PROVE GapIsFree(d, n)'
    BY DEF GapsAreFree
  <2> SUFFICES ASSUME <<"merchant", n, "gap">> \in locks'[d] PROVE GapIsFree(d, n)'
    BY DEF GapIsFree
  <2>1. d # c /\ <<"merchant", n, "gap">> \in locks[d]
    BY <1>12, <1>13
  <2>2. n # m
    BY <1>15, <2>1
  <2>3. merchants[n] = None /\ \A e \in Terminals \ {d} : <<"merchant", n, "X">> \notin locks[e]
    BY <2>1 DEF TenantInv, GapsAreFree, GapIsFree
  <2> QED
    BY <1>12, <1>13, <1>16, <2>2, <2>3 DEF GapIsFree
<1>21. TenantIsWhole'
  <2> SUFFICES ASSUME NEW n \in Merchants
               PROVE  IF merchants'[n] = None \/ merchants'[n].name = "Chain" THEN provisioned'[n] = 0
                      ELSE /\ provisioned'[n] = 1
                           /\ \E r \in Stores : stores'[r] # None /\ stores'[r].merchant = n
    BY DEF TenantIsWhole
  <2>1. IF merchants[n] = None \/ merchants[n].name = "Chain" THEN provisioned[n] = 0
        ELSE /\ provisioned[n] = 1
             /\ \E r \in Stores : stores[r] # None /\ stores[r].merchant = n
    BY DEF TenantInv, TenantIsWhole
  <2>2. CASE n = m
    <3>1. provisioned'[n] = 1
      BY <1>5, <1>18, <2>1, <2>2
    <3> QED
      BY <1>2, <1>3, <1>4, <1>7, <1>18, <2>2, <3>1
  <2>3. CASE n # m
    <3>1. \A r \in Stores : stores[r] # None => r # s /\ stores'[r] = stores[r]
      BY <1>6, <1>17
    <3> QED
      BY <1>16, <2>1, <2>3, <3>1
  <2> QED
    BY <2>2, <2>3
<1> QED
  BY <1>11, <1>13, <1>19, <1>20, <1>21 DEF TenantInv

LEMMA ChangeMerchantKeeps ==
    ASSUME TenantInv, NEW m \in Merchants, NEW parent \in Merchants \cup {None},
           NEW active \in BOOLEAN, ChangeMerchant(m, parent, active)
    PROVE  TenantInv'
<1>1. /\ changes < MaxChanges /\ changes' = changes + 1 /\ merchants[m] # None
      /\ Unlocked("merchant", m)
      /\ merchants' = [merchants EXCEPT ![m].parent = parent, ![m].active = active]
      /\ report' = None /\ UNCHANGED <<stores, provisioned, command, locks>>
  BY DEF ChangeMerchant
<1>2. merchants \in [Merchants -> MerchantRow \cup {None}] /\ changes \in 0 .. MaxChanges
  BY DEF TenantInv, TenantTypes
<1>3. merchants[m] \in MerchantRow
  BY <1>1, <1>2
<1>4. PICK row : row = [merchants[m] EXCEPT !.parent = parent, !.active = active]
  OBVIOUS
<1>5. row \in MerchantRow /\ row.name = merchants[m].name /\ row # None
  <2>1. row \in MerchantRow /\ row.name = merchants[m].name
    BY <1>3, <1>4 DEF MerchantRow
  <2> QED
    BY <2>1, RowsAssumption
<1>6. /\ merchants' \in [Merchants -> MerchantRow \cup {None}]
      /\ merchants'[m] = row /\ \A n \in Merchants : n # m => merchants'[n] = merchants[n]
  <2>1. merchants' = [merchants EXCEPT ![m] = row]
    BY <1>1, <1>2, <1>4
  <2> QED
    BY <1>2, <1>5, <2>1
<1>7. changes' \in 0 .. MaxChanges
  BY <1>1, <1>2, TenantAssumption
<1>8. TenantTypes'
  BY <1>1, <1>6, <1>7 DEF TenantInv, TenantTypes, Asked
<1>9. \A d \in Terminals : \A l \in locks[d] : l[1] = "merchant" /\ l[2] = m => l[3] = "gap"
  BY <1>1 DEF Unlocked
<1>10. ASSUME NEW d \in Terminals PROVE WorkOf(d)'
  <2> DEFINE n == Asked(d).merchant
  <2>1. /\ WorkOf(d) /\ Asked(d)' = Asked(d) /\ command'[d] = command[d] /\ locks'[d] = locks[d]
        /\ Matches(d)' = Matches(d) /\ AskedCode(d)' = AskedCode(d)
    BY <1>1 DEF TenantInv, Asked, Matches, AskedCode
  <2>2. command[d].at # "rest" => n \in Merchants
    BY AskedTypes DEF TenantInv
  <2>3. <<"merchant", m, "X">> \notin locks[d]
    BY <1>9
  <2>4. command[d].at \in {"readStores", "insertStore", "commit"} => n # m
    BY <1>1, <2>1, <2>3 DEF WorkOf
  <2>5. command[d].at \in {"readStores", "insertStore", "commit"} => merchants'[n] = merchants[n]
    BY <1>6, <2>2, <2>4
  <2> QED
    BY <2>1, <2>5 DEF WorkOf
<1>11. GapsAreFree'
  <2> SUFFICES ASSUME NEW d \in Terminals, NEW n \in Merchants PROVE GapIsFree(d, n)'
    BY DEF GapsAreFree
  <2>1. GapIsFree(d, n)
    BY DEF TenantInv, GapsAreFree
  <2> QED
    BY <1>1, <1>6, <2>1 DEF GapIsFree
<1>12. TenantIsWhole'
  <2> SUFFICES ASSUME NEW n \in Merchants
               PROVE  IF merchants'[n] = None \/ merchants'[n].name = "Chain" THEN provisioned[n] = 0
                      ELSE /\ provisioned[n] = 1
                           /\ \E r \in Stores : stores[r] # None /\ stores[r].merchant = n
    BY <1>1 DEF TenantIsWhole
  <2>1. IF merchants[n] = None \/ merchants[n].name = "Chain" THEN provisioned[n] = 0
        ELSE /\ provisioned[n] = 1
             /\ \E r \in Stores : stores[r] # None /\ stores[r].merchant = n
    BY DEF TenantInv, TenantIsWhole
  <2> QED
    BY <1>1, <1>5, <1>6, <2>1
<1>13. Apart'
  BY <1>1 DEF TenantInv, Apart
<1> QED
  BY <1>8, <1>10, <1>11, <1>12, <1>13 DEF TenantInv

LEMMA ChangeStoreKeeps ==
    ASSUME TenantInv, NEW s \in Stores, NEW active \in BOOLEAN, ChangeStore(s, active)
    PROVE  TenantInv'
<1>1. /\ changes < MaxChanges /\ changes' = changes + 1 /\ stores[s] # None
      /\ stores' = [stores EXCEPT ![s].active = active]
      /\ report' = None /\ UNCHANGED <<merchants, provisioned, command, locks>>
  BY DEF ChangeStore
<1>2. stores \in [Stores -> StoreRow \cup {None}] /\ changes \in 0 .. MaxChanges
  BY DEF TenantInv, TenantTypes
<1>3. stores[s] \in StoreRow
  BY <1>1, <1>2
<1>4. PICK row : row = [stores[s] EXCEPT !.active = active]
  OBVIOUS
<1>5. row \in StoreRow /\ row.merchant = stores[s].merchant /\ row.code = stores[s].code /\ row # None
  <2>1. row \in StoreRow /\ row.merchant = stores[s].merchant /\ row.code = stores[s].code
    BY <1>3, <1>4 DEF StoreRow
  <2> QED
    BY <2>1, RowsAssumption
<1>6. /\ stores' \in [Stores -> StoreRow \cup {None}]
      /\ stores'[s] = row /\ \A r \in Stores : r # s => stores'[r] = stores[r]
  <2>1. stores' = [stores EXCEPT ![s] = row]
    BY <1>1, <1>4
  <2> QED
    BY <1>2, <1>5, <2>1
<1>7. changes' \in 0 .. MaxChanges
  BY <1>1, <1>2, TenantAssumption
<1>8. TenantTypes'
  BY <1>1, <1>6, <1>7 DEF TenantInv, TenantTypes, Asked
<1>9. \A r \in Stores : /\ stores'[r] # None <=> stores[r] # None
                        /\ stores[r] # None => /\ stores'[r].merchant = stores[r].merchant
                                               /\ stores'[r].code = stores[r].code
  BY <1>1, <1>5, <1>6
<1>10. ASSUME NEW d \in Terminals PROVE WorkOf(d)'
  <2>1. /\ WorkOf(d) /\ Asked(d)' = Asked(d) /\ command'[d] = command[d] /\ locks'[d] = locks[d]
        /\ AskedCode(d)' = AskedCode(d)
    BY <1>1 DEF TenantInv, Asked, AskedCode
  <2>2. Matches(d) = {} => Matches(d)' = {}
    BY <1>9, <2>1 DEF Matches
  <2> QED
    BY <1>1, <2>1, <2>2 DEF WorkOf
<1>11. GapsAreFree'
  <2> SUFFICES ASSUME NEW d \in Terminals, NEW n \in Merchants PROVE GapIsFree(d, n)'
    BY DEF GapsAreFree
  <2>1. GapIsFree(d, n)
    BY DEF TenantInv, GapsAreFree
  <2> QED
    BY <1>1, <2>1 DEF GapIsFree
<1>12. TenantIsWhole'
  <2> SUFFICES ASSUME NEW n \in Merchants
               PROVE  IF merchants[n] = None \/ merchants[n].name = "Chain" THEN provisioned[n] = 0
                      ELSE /\ provisioned[n] = 1
                           /\ \E r \in Stores : stores'[r] # None /\ stores'[r].merchant = n
    BY <1>1 DEF TenantIsWhole
  <2> QED
    BY <1>9 DEF TenantInv, TenantIsWhole
<1>13. Apart'
  BY <1>1 DEF TenantInv, Apart
<1> QED
  BY <1>8, <1>10, <1>11, <1>12, <1>13 DEF TenantInv

LEMMA TenantInvInitially == OnboardingInit => TenantInv
<1> SUFFICES ASSUME TenantInit PROVE TenantInv
  BY DEF OnboardingInit
<1>1. Chain \in Seq(Merchants) /\ MaxChanges \in Nat
  BY TenantAssumption
<1>2. ASSUME NEW m \in Merchants
      PROVE  /\ merchants[m] \in MerchantRow \cup {None}
             /\ merchants[m] # None => merchants[m].name = "Chain"
  <2> DEFINE n == CHOOSE n \in DOMAIN Chain : Chain[n] = m
             parent == IF n = 1 THEN None ELSE Chain[n - 1]
             row == [parent |-> parent, name |-> "Chain", active |-> TRUE]
  <2>1. CASE release = "previous" /\ \E k \in DOMAIN Chain : Chain[k] = m
    <3>1. n \in DOMAIN Chain
      BY <2>1
    <3> HIDE DEF n
    <3>2. n \in 1 .. Len(Chain) /\ Len(Chain) \in Nat
      BY <1>1, <3>1
    <3>3. n # 1 => Chain[n - 1] \in Merchants
      BY <1>1, <3>2
    <3>4. parent \in Merchants \cup {None}
      BY <3>3
    <3> HIDE DEF parent
    <3>5. row \in MerchantRow /\ row.name = "Chain"
      BY <3>4 DEF MerchantRow
    <3>6. merchants[m] = row
      BY <2>1 DEF TenantInit, n, parent
    <3> QED
      BY <3>5, <3>6
  <2>2. CASE ~(release = "previous" /\ \E k \in DOMAIN Chain : Chain[k] = m)
    BY <2>2 DEF TenantInit
  <2> QED
    BY <2>1, <2>2
<1>3. merchants \in [Merchants -> MerchantRow \cup {None}]
  <2>1. merchants = [m \in Merchants |-> merchants[m]]
    BY DEF TenantInit
  <2> QED
    BY <1>2, <2>1
<1>4. ASSUME NEW s \in Stores PROVE stores[s] \in StoreRow \cup {None}
  <2>1. CASE release = "previous" /\ s = 1 /\ Chain # <<>>
    <3>1. Len(Chain) \in 1 .. Len(Chain) /\ Chain[Len(Chain)] \in Merchants
      BY <1>1, <2>1
    <3> QED
      BY <2>1, <3>1 DEF TenantInit, StoreRow
  <2>2. CASE ~(release = "previous" /\ s = 1 /\ Chain # <<>>)
    BY <2>2 DEF TenantInit
  <2> QED
    BY <2>1, <2>2
<1>5. stores \in [Stores -> StoreRow \cup {None}]
  <2>1. stores = [s \in Stores |-> stores[s]]
    BY DEF TenantInit
  <2> QED
    BY <1>4, <2>1
<1>6. /\ provisioned \in [Merchants -> Nat] /\ \A m \in Merchants : provisioned[m] = 0
      /\ \A c \in Terminals : command[c] = AtRest /\ locks[c] = {}
      /\ DOMAIN locks = Terminals /\ report = None /\ changes = 0
  BY DEF TenantInit
<1>7. AtRest \in CommandState /\ AtRest.at = "rest"
  BY DEF AtRest, CommandState
<1>8. command \in [Terminals -> CommandState]
  BY <1>7 DEF TenantInit
<1>9. TenantTypes
  BY <1>1, <1>3, <1>5, <1>6, <1>8 DEF TenantTypes
<1>10. \A c \in Terminals : WorkOf(c)
  BY <1>6, <1>7 DEF WorkOf
<1>11. Apart /\ GapsAreFree
  BY <1>6 DEF Apart, GapsAreFree, GapIsFree
<1>12. TenantIsWhole
  BY <1>2, <1>6 DEF TenantIsWhole
<1> QED
  BY <1>9, <1>10, <1>11, <1>12 DEF TenantInv

\* Nothing but the command and changes by hand touches the tenants.
LEMMA TenantSteps ==
    ASSUME [OnboardingNext]_onboardingVars
    PROVE  CommandNext \/ ByHand \/ UNCHANGED tenantVars
BY DEF OnboardingNext, onboardingVars

LEMMA TenantInvPreserved ==
    ASSUME TenantInv, [OnboardingNext]_onboardingVars
    PROVE  TenantInv'
<1>1. CASE UNCHANGED tenantVars
  <2>1. UNCHANGED <<merchants, stores, provisioned, command, report, locks, changes>>
    BY <1>1 DEF tenantVars, tenantTables, commandVars
  <2>2. \A c \in Terminals : WorkOf(c)'
    <3> SUFFICES ASSUME NEW c \in Terminals PROVE WorkOf(c)'
      OBVIOUS
    <3>1. WorkOf(c)
      BY DEF TenantInv
    <3> QED
      BY <2>1, <3>1 DEF WorkOf, Matches, Asked, AskedCode
  <2> QED
    BY <2>1, <2>2 DEF TenantInv, TenantTypes, Apart, GapsAreFree, GapIsFree, TenantIsWhole, Asked
<1>2. CASE ByHand
  BY <1>2, ChangeMerchantKeeps, ChangeStoreKeeps DEF ByHand
<1>3. CASE CommandNext
  <2>1. ASSUME NEW c \in Terminals, CommandStep(c) PROVE TenantInv'
    BY <2>1, ReadMerchantKeeps, ReadStoresKeeps, InsertMerchantKeeps, InsertStoreKeeps, CommitKeeps
       DEF CommandStep
  <2>2. ASSUME NEW c \in Terminals, Deadlock(c) \/ Fail(c) PROVE TenantInv'
    BY <2>2, RollbackKeeps DEF Deadlock, Fail
  <2> QED
    BY <1>3, <2>1, <2>2, RunKeeps DEF CommandNext
<1> QED
  BY <1>1, <1>2, <1>3, TenantSteps

LEMMA TenantInvAlways == OnboardingSafety => []TenantInv
<1>1. TenantInv /\ [OnboardingNext]_onboardingVars => TenantInv'
  BY TenantInvPreserved
<1> QED
  BY <1>1, TenantInvInitially, PTL DEF OnboardingSafety

\* A merchant that was provisioned has its store and one audit event, however
\* many commands run at once, and wherever they fail (provision-tenant.mjs).
THEOREM WholeTenants == OnboardingSafety => []TenantIsWhole
<1>1. TenantInv => TenantIsWhole
  BY DEF TenantInv
<1> QED
  BY <1>1, TenantInvAlways, PTL

\* The end of a command, statement by statement.
LEMMA EndIsTrue ==
    ASSUME TenantInv, NEW c \in Terminals, CommandStep(c) \/ Fail(c)
    PROVE  \A d \in Terminals : ReportIsTrue(d)
<1>1. \A d \in Terminals \ {c} : command'[d] = command[d]
  BY DEF CommandStep, ReadMerchant, ReadStores, InsertMerchant, InsertStore, Commit, Fail,
         Proceed, Report, TenantInv, TenantTypes
<1>2. \A d \in Terminals \ {c} : ReportIsTrue(d)
  BY <1>1 DEF ReportIsTrue
<1> SUFFICES ReportIsTrue(c)
  BY <1>2
<1>3. ASSUME NEW next \in {"readStores", "insertMerchant", "insertStore", "commit"}, NEW found,
             Proceed(c, next, found)
      PROVE  ReportIsTrue(c)
  <2>1. command'[c].at = next
    BY <1>3 DEF Proceed, TenantInv, TenantTypes, CommandState
  <2>2. command'[c] # AtRest
    BY <2>1 DEF AtRest
  <2> QED
    BY <2>2 DEF ReportIsTrue
<1>4. ASSUME Report(c, "error") PROVE ReportIsTrue(c)
  BY <1>4 DEF Report, ReportIsTrue
<1>5. CASE ReadMerchant(c)
  BY <1>3, <1>5 DEF ReadMerchant
<1>6. CASE ReadStores(c)
  <2>1. command[c].found = merchants[Asked(c).merchant]
    BY <1>6 DEF ReadStores, At, TenantInv, WorkOf
  <2>2. \A what : Report(c, what) => report' = what
    BY DEF Report
  <2> QED
    BY <1>3, <1>6, <2>1, <2>2 DEF ReadStores, ReportIsTrue
<1>7. CASE InsertMerchant(c)
  BY <1>3, <1>4, <1>7 DEF InsertMerchant
<1>8. CASE InsertStore(c)
  BY <1>3, <1>4, <1>8 DEF InsertStore
<1>9. CASE Commit(c)
  <2>1. merchants[Asked(c).merchant] = None /\ Matches(c) = {} /\ report' = "provisioned"
    BY <1>9 DEF Commit, At, TenantInv, WorkOf, Report
  <2> QED
    BY <2>1 DEF ReportIsTrue
<1>10. CASE Fail(c)
  BY <1>4, <1>10 DEF Fail
<1> QED
  BY <1>5, <1>6, <1>7, <1>8, <1>9, <1>10 DEF CommandStep

\* What a command reports is true of the tables when it reports it, whoever
\* else works on them (provision-tenant.mjs).
THEOREM TrueReports == OnboardingSafety => ReportsAreTrue
<1>1. TenantInv /\ [OnboardingNext]_onboardingVars => [\A c \in Terminals : ReportIsTrue(c)]_tenantVars
  <2> SUFFICES ASSUME TenantInv, [OnboardingNext]_onboardingVars
               PROVE  [\A c \in Terminals : ReportIsTrue(c)]_tenantVars
    OBVIOUS
  <2>1. CASE UNCHANGED tenantVars
    BY <2>1
  <2>2. CASE ByHand
    <3>1. command' = command
      BY <2>2 DEF ByHand, ChangeMerchant, ChangeStore
    <3> QED
      BY <3>1 DEF ReportIsTrue
  <2>3. CASE CommandNext
    <3>1. ASSUME NEW c \in Terminals, NEW t \in Tenancies, Run(c, t)
          PROVE  \A d \in Terminals : ReportIsTrue(d)
      <4>1. command[c] = AtRest /\ \A d \in Terminals \ {c} : command'[d] = command[d]
        BY <3>1 DEF Run, TenantInv, TenantTypes
      <4> QED
        BY <4>1 DEF ReportIsTrue
    <3>2. ASSUME NEW c \in Terminals, CommandStep(c) \/ Deadlock(c) \/ Fail(c)
          PROVE  \A d \in Terminals : ReportIsTrue(d)
      BY <3>2, EndIsTrue DEF Deadlock
    <3> QED
      BY <2>3, <3>1, <3>2 DEF CommandNext
  <2> QED
    BY <2>1, <2>2, <2>3, TenantSteps
<1> QED
  BY <1>1, TenantInvAlways, PTL DEF OnboardingSafety, ReportsAreTrue

-----------------------------------------------------------------------------
(* Types                                                                   *)

\* Every file ends before a thirteenth statement.
LEMMA FilesEnd == \A f \in Files : Len(Statements[f]) <= 12
<1>1. Len(Statements[1]) <= 12 /\ Len(Statements[2]) <= 12
  BY DEF Statements
<1>2. \A f \in Files : f = 1 \/ f = 2
  BY FilesAre
<1> QED
  BY <1>1, <1>2, Zenon

LEMMA MigrationTypes ==
    ASSUME MigrationInv, MigrationTypeOK, [OnboardingNext]_onboardingVars
    PROVE  MigrationTypeOK'
<1> USE DEF MigrationTypeOK
<1>1. MigrationNext \/ UNCHANGED migrationVars
  BY DEF OnboardingNext, onboardingVars, ScopeNext
<1>2. CASE UNCHANGED migrationVars
  BY <1>2 DEF migrationVars
<1>3. ASSUME NEW p \in Pods, NEW position \in Positions, NEW file \in Files, NEW next \in 1 .. 13,
             Goto(p, position, file, next)
      PROVE  job' \in [Pods -> [at : Positions, file : Files, next : 1 .. 13]]
  BY <1>3 DEF Goto
<1>4. ASSUME NEW p \in Pods, NEW position \in Positions, Stop(p, position)
      PROVE  job' \in [Pods -> [at : Positions, file : Files, next : 1 .. 13]]
  <2>1. job[p].file \in Files /\ job[p].next \in 1 .. 13
    OBVIOUS
  <2> QED
    BY <1>3, <1>4, <2>1 DEF Stop
<1>5. ASSUME NEW p \in Pods, NextFile(p)
      PROVE  job' \in [Pods -> [at : Positions, file : Files, next : 1 .. 13]]
  <2>1. job[p].file \in Files
    OBVIOUS
  <2>2. job[p].file # Len(Statements) => job[p].file + 1 \in Files
    BY <2>1, FilesAre
  <2>3. "grant" \in Positions /\ "check" \in Positions /\ 1 \in 1 .. 13
    BY DEF Positions
  <2> QED
    BY <1>3, <1>4, <1>5, <2>2, <2>3 DEF NextFile
<1>6. /\ {"lock", "check", "run", "grant", "succeeded", "failed", "timedOut", "dead"} \subseteq Positions
      /\ 1 \in Files /\ 1 \in 1 .. 13
  BY FilesAre DEF Positions
<1>7. \A p \in Pods : job[p].file \in Files /\ job[p].next \in 1 .. 13
  OBVIOUS
<1>8. \A p \in Pods : EndSession(p) => session' \in Pods \cup {None}
  BY DEF EndSession
<1>9. ASSUME NEW p \in Pods, Start(p) \/ GetLock(p) \/ LockTimesOut(p) \/ Apply(p) PROVE MigrationTypeOK'
  <2>1. job' \in [Pods -> [at : Positions, file : Files, next : 1 .. 13]]
    BY <1>3, <1>4, <1>6, <1>7, <1>9 DEF Start, GetLock, LockTimesOut, Apply
  <2> HIDE DEF MigrationTypeOK
  <2>2. session' \in {session, p}
    BY <1>9 DEF Start, GetLock, LockTimesOut, Apply
  <2>3. UNCHANGED <<schema, ledger, checksums, granted, appUser, release, owner, disturbances>>
    BY <1>9 DEF Start, GetLock, LockTimesOut, Apply
  <2> QED
    BY <2>1, <2>2, <2>3 DEF MigrationTypeOK
<1>10. ASSUME NEW p \in Pods, Verify(p) PROVE MigrationTypeOK'
  <2>1. job' \in [Pods -> [at : Positions, file : Files, next : 1 .. 13]]
    BY <1>4, <1>5, <1>6, <1>10 DEF Verify
  <2> QED
    BY <1>8, <1>10, <2>1 DEF Verify
<1>11. ASSUME NEW p \in Pods, Execute(p) PROVE MigrationTypeOK'
  <2>1. job[p].next <= 12 /\ Current(p) \in StatementsOf(job[p].file)
    <3>1. job[p].next <= Len(Statements[job[p].file])
      BY <1>11 DEF Execute
    <3> QED
      BY <1>7, <3>1, FilesEnd, FilesAre DEF Current, StatementsOf
  <2>2. job[p].next + 1 \in 1 .. 13
    BY <1>7, <2>1
  <2>3. job' \in [Pods -> [at : Positions, file : Files, next : 1 .. 13]]
    BY <1>3, <1>4, <1>6, <1>7, <1>11, <2>2 DEF Execute
  <2>4. schema' \subseteq UNION {StatementsOf(f) : f \in Files}
    BY <1>7, <1>11, <2>1 DEF Execute
  <2>5. owner' \in [Rows -> {"known", "missing", None}]
    BY <1>11 DEF Execute
  <2>6. session' \in Pods \cup {None}
    BY <1>8, <1>11 DEF Execute
  <2> QED
    BY <1>11, <2>3, <2>4, <2>5, <2>6 DEF Execute
<1>12. ASSUME NEW p \in Pods, Record(p) PROVE MigrationTypeOK'
  <2>1. job' \in [Pods -> [at : Positions, file : Files, next : 1 .. 13]]
    BY <1>4, <1>5, <1>6, <1>12 DEF Record
  <2>2. ledger' \in [Files -> {Original, Rewritten, None}]
    BY <1>7, <1>12 DEF Record
  <2>3. session' \in Pods \cup {None}
    BY <1>8, <1>12 DEF Record
  <2> QED
    BY <1>12, <2>1, <2>2, <2>3 DEF Record
<1>13. ASSUME NEW p \in Pods, GrantAccess(p) PROVE MigrationTypeOK'
  <2>1. job' \in [Pods -> [at : Positions, file : Files, next : 1 .. 13]]
    BY <1>4, <1>6, <1>13 DEF GrantAccess
  <2> QED
    BY <1>8, <1>13, <2>1 DEF GrantAccess
<1>14. ASSUME NEW p \in Pods, Die(p) PROVE MigrationTypeOK'
  <2>1. job' \in [Pods -> [at : Positions, file : Files, next : 1 .. 13]]
    BY <1>4, <1>6, <1>14 DEF Die
  <2>2. disturbances' \in 0 .. MaxDisturbances
    BY <1>14, MigrationAssumption DEF Die, Disturb
  <2> QED
    BY <1>8, <1>14, <2>1, <2>2 DEF Die
<1>15. ASSUME NEW f \in Files, Rewrite(f) PROVE MigrationTypeOK'
  <2>1. disturbances' \in 0 .. MaxDisturbances
    BY <1>15, MigrationAssumption DEF Rewrite, Disturb
  <2>2. checksums' \in [Files -> {Original, Rewritten}]
    BY <1>15 DEF Rewrite
  <2> QED
    BY <1>15, <2>1, <2>2 DEF Rewrite
<1>16. ASSUME NEW r \in Rows, PreviousWrites(r) PROVE MigrationTypeOK'
  <2>1. owner' \in [Rows -> {"known", "missing", None}]
    BY <1>16 DEF PreviousWrites
  <2> QED
    BY <1>16, <2>1 DEF PreviousWrites
<1>17. CASE Rollout
  <2>1. Idle \in [at : Positions, file : Files, next : 1 .. 13]
    BY FilesAre DEF Idle, Positions
  <2>2. job' \in [Pods -> [at : Positions, file : Files, next : 1 .. 13]]
    BY <1>17, <2>1 DEF Rollout
  <2>3. owner' \in [Rows -> {"known", "missing", None}]
    BY <1>17 DEF Rollout
  <2>4. disturbances' \in 0 .. MaxDisturbances
    BY <1>17, MigrationAssumption DEF Rollout
  <2> QED
    BY <1>17, <2>2, <2>3, <2>4 DEF Rollout
<1> HIDE DEF MigrationTypeOK
<1> QED
  BY <1>1, <1>2, <1>9, <1>10, <1>11, <1>12, <1>13, <1>14, <1>15, <1>16, <1>17 DEF MigrationNext, PodStep

LEMMA MigrationTypesInitially == OnboardingInit => MigrationTypeOK
<1> SUFFICES ASSUME MigrationInit PROVE MigrationTypeOK
  BY DEF OnboardingInit
<1>1. Idle \in [at : Positions, file : Files, next : 1 .. 13]
  BY FilesAre DEF Idle, Positions
<1>2. job \in [Pods -> [at : Positions, file : Files, next : 1 .. 13]]
  BY <1>1 DEF MigrationInit
<1>3. schema \subseteq UNION {StatementsOf(f) : f \in Files}
  BY FilesAre DEF MigrationInit
<1>4. disturbances \in 0 .. MaxDisturbances
  BY MigrationAssumption DEF MigrationInit
<1>5. /\ ledger \in [Files -> {Original, Rewritten, None}] /\ checksums \in [Files -> {Original, Rewritten}]
      /\ owner \in [Rows -> {"known", "missing", None}] /\ session \in Pods \cup {None}
      /\ granted \in BOOLEAN /\ appUser \in {"none", "valid", "invalid"}
      /\ release \in {"none", "previous", "current"}
  BY DEF MigrationInit
<1> QED
  BY <1>2, <1>3, <1>4, <1>5 DEF MigrationTypeOK

LEMMA TenantInvSuffices == TenantInv => TenantTypeOK
<1> SUFFICES ASSUME TenantInv PROVE TenantTypeOK
  OBVIOUS
<1>1. provisioned \in [Merchants -> 0 .. 1]
  <2>1. provisioned \in [Merchants -> Nat] /\ \A m \in Merchants : provisioned[m] \in 0 .. 1
    BY DEF TenantInv, TenantTypes, TenantIsWhole
  <2> QED
    BY <2>1
<1>2. ASSUME NEW c \in Terminals
      PROVE  \/ command[c] = AtRest
             \/ /\ command[c].asked \in Tenancies /\ command[c].found \in MerchantRow \cup {None}
                /\ command[c].at \in {"readMerchant", "readStores", "insertMerchant",
                                      "insertStore", "commit"}
  BY DEF TenantInv, TenantTypes, CommandState, Asked
<1> QED
  BY <1>1, <1>2 DEF TenantInv, TenantTypes, TenantTypeOK

WalkTypes == walk \in Walk \cup {None} /\ (issued # None => issued.lines \in Seq(Nat))

LEMMA LinesTypes ==
    ASSUME NEW b \in Bodies PROVE Calculated(b).lines \in Seq(Nat)
<1>1. b.items \in Seq([quantity : Nat \ {0}, price : Nat])
  BY InvoiceMathAssumption
<1>2. \A n \in DOMAIN b.items : LineTotal(b.items[n]) \in Nat
  <2> SUFFICES ASSUME NEW n \in DOMAIN b.items PROVE LineTotal(b.items[n]) \in Nat
    OBVIOUS
  <2>1. b.items[n] \in [quantity : Nat \ {0}, price : Nat]
    BY <1>1, ElementType
  <2>2. b.items[n].quantity \in Nat /\ b.items[n].price \in Nat
    BY <2>1
  <2> QED
    BY <2>2, ProductType DEF LineTotal
<1>3. PICK k \in Nat : DOMAIN b.items = 1 .. k
  BY <1>1
<1>4. PICK lines : lines = [n \in DOMAIN b.items |-> LineTotal(b.items[n])]
  OBVIOUS
<1>5. lines \in [1 .. k -> Nat]
  BY <1>2, <1>3, <1>4
<1>6. lines \in Seq(Nat)
  BY <1>3, <1>5
<1>7. Calculated(b).lines = lines
  BY <1>4 DEF Calculated
<1> QED
  BY <1>6, <1>7

\* Neither a query nor a change by hand ends a walk.
LEMMA ClimbGoesOn ==
    ASSUME merchants \in [Merchants -> MerchantRow \cup {None}], WalkTypes, Climb
    PROVE  walk' \in Walk
<1>1. walk \in Walk /\ walk.at \in Merchants /\ walk.depth + 1 \in 0 .. Depth
  BY DepthAssumption DEF WalkTypes, Climb, Exhausted, Walk
<1>2. ActiveParent(walk.at) \in Merchants \cup {None}
  BY <1>1 DEF ActiveParent, MerchantRow
<1> QED
  BY <1>1, <1>2 DEF Climb, Walk

LEMMA OvertakeGoesOn ==
    ASSUME WalkTypes, Overtake, walk # None
    PROVE  walk' \in Walk
<1>1. walk \in Walk
  BY DEF WalkTypes
<1>2. (IF walk.overtaken = 2 THEN 2 ELSE walk.overtaken + 1) \in 0 .. 2
  BY <1>1 DEF Walk
<1> QED
  BY <1>1, <1>2 DEF Overtake, Walk

LEMMA WalkTypesPreserved ==
    ASSUME TenantInv, WalkTypes, [OnboardingNext]_onboardingVars
    PROVE  WalkTypes'
<1> USE DEF WalkTypes
<1>1. merchants \in [Merchants -> MerchantRow \cup {None}] /\ stores \in [Stores -> StoreRow \cup {None}]
  BY DEF TenantInv, TenantTypes
<1>2. CASE walk' = walk /\ issued' \in {issued, None}
  BY <1>2
<1>3. ASSUME NEW actor \in Merchants, NEW s \in Stores, StartWalk(actor, s) PROVE WalkTypes'
  <2>1. InScope(actor, s) \in BOOLEAN
    BY DEF InScope
  <2>2. stores[s].merchant \in Merchants
    BY <1>1, <1>3 DEF StartWalk, StoreRow
  <2>3. 0 \in 0 .. Depth /\ 0 \in 0 .. 2
    BY DepthAssumption
  <2>4. walk' \in Walk
    BY <1>3, <2>1, <2>2, <2>3 DEF StartWalk, Walk
  <2> QED
    BY <1>3, <2>4 DEF StartWalk
<1>4. CASE Climb
  BY <1>1, <1>4, ClimbGoesOn DEF Climb
<1>5. CASE Forbid
  BY <1>5 DEF Forbid
<1>6. ASSUME NEW b \in Bodies, Issue(b) PROVE WalkTypes'
  BY <1>6, LinesTypes DEF Issue
<1>7. CASE Overtake
  BY <1>7, OvertakeGoesOn DEF Overtake
<1>8. \/ walk' = walk /\ issued' \in {issued, None}
      \/ Overtake \/ ScopeNext
  BY DEF OnboardingNext, onboardingVars, scopeVars
<1> QED
  BY <1>2, <1>3, <1>4, <1>5, <1>6, <1>7, <1>8 DEF ScopeNext

\* Every variable keeps its type; that a tenant is provisioned once at most is
\* part of it.
THEOREM OnboardingTypeCorrect == OnboardingSafety => []OnboardingTypeOK
<1> DEFINE Types == MigrationTypeOK /\ WalkTypes
<1>1. OnboardingInit => Types
  <2>1. OnboardingInit => WalkTypes
    BY DEF OnboardingInit, ScopeInit, WalkTypes
  <2> QED
    BY <2>1, MigrationTypesInitially
<1>2. Types /\ MigrationInv /\ TenantInv /\ [OnboardingNext]_onboardingVars => Types'
  BY MigrationTypes, WalkTypesPreserved
<1>3. Types /\ TenantInv => OnboardingTypeOK
  BY TenantInvSuffices DEF OnboardingTypeOK, ScopeTypeOK, WalkTypes
<1> HIDE DEF Types
<1> QED
  BY <1>1, <1>2, <1>3, MigrationInvAlways, TenantInvAlways, PTL DEF OnboardingSafety

-----------------------------------------------------------------------------
(* The hierarchy: induction over the steps upwards                         *)

\* A nonempty set of naturals has a least element.
LEMMA LeastExists ==
    ASSUME NEW S \in SUBSET Nat, S # {}
    PROVE  \E least \in S : \A n \in S : least <= n
<1> DEFINE below == {ss \in Nat \X Nat : ss[1] < ss[2]}
<1>1. IsWellFoundedOn(below, Nat)
  BY NatLessThanWellFounded DEF OpToRel
<1>2. PICK least \in S : \A n \in S : <<n, least>> \notin below
  <2> HIDE DEF below
  <2> QED
    BY <1>1, WFMin
<1>3. ASSUME NEW n \in S PROVE least <= n
  <2>1. n \in Nat /\ least \in Nat
    OBVIOUS
  <2>2. <<n, least>> \in below <=> n < least
    BY <2>1
  <2> QED
    BY <1>2, <2>1, <2>2
<1> QED
  BY <1>3

\* Induction, of which the statement is a set.
LEMMA InductionOverSet ==
    ASSUME NEW S \in SUBSET Nat, 0 \in S, \A n \in S : n + 1 \in S
    PROVE  \A n \in Nat : n \in S
<1> SUFFICES ASSUME Nat \ S # {} PROVE FALSE
  OBVIOUS
<1>1. PICK least \in Nat \ S : \A n \in Nat \ S : least <= n
  BY LeastExists
<1>2. least - 1 \in Nat /\ least - 1 < least
  BY <1>1
<1>3. least - 1 \in S
  BY <1>1, <1>2
<1> QED
  BY <1>1, <1>2, <1>3

Hierarchies == [Merchants -> MerchantRow \cup {None}]

\* The parent of x, if x is a merchant.
ParentIn(h, x) == IF x = None THEN None ELSE IF h[x] = None THEN None ELSE h[x].parent

\* Above, in any hierarchy.
UpTo(h, m, n) ==
    CHOOSE up : up = [k \in 0 .. n |-> IF k = 0 THEN m
                                       ELSE IF up[k - 1] = None THEN None
                                       ELSE IF h[up[k - 1]] = None THEN None ELSE h[up[k - 1]].parent]

Up(h, m, n) == UpTo(h, m, n)[n]

\* The recursive function of Above is this one, before and after a step.
LEMMA AboveIsUp ==
    ASSUME NEW m, NEW n
    PROVE  /\ Above(m, n) = Up(merchants, m, n)
           /\ Above(m, n)' = Up(merchants', m, n)
BY DEF Above, Up, UpTo

\* up is the way from m, n steps upwards.
IsUpTo(h, m, n, up) == up = [k \in 0 .. n |-> IF k = 0 THEN m ELSE ParentIn(h, up[k - 1])]

\* There is such a way, however long; so CHOOSE picks it, and its steps are those
\* of the recursion.
LEMMA UpToExists ==
    ASSUME NEW h, NEW m
    PROVE  \A n \in Nat : \E up : IsUpTo(h, m, n, up)
<1> DEFINE S == {n \in Nat : \E up : IsUpTo(h, m, n, up)}
<1>1. 0 \in S
  <2>1. IsUpTo(h, m, 0, [k \in 0 .. 0 |-> m])
    BY DEF IsUpTo
  <2> QED
    BY <2>1
<1>2. ASSUME NEW n \in S PROVE n + 1 \in S
  <2>1. PICK g : IsUpTo(h, m, n, g)
    BY <1>2
  <2> DEFINE up == [k \in 0 .. n + 1 |-> IF k = n + 1 THEN ParentIn(h, g[n]) ELSE g[k]]
  <2>2. ASSUME NEW k \in 0 .. n + 1 PROVE up[k] = IF k = 0 THEN m ELSE ParentIn(h, up[k - 1])
    <3>1. CASE k = 0
      BY <2>1, <3>1 DEF IsUpTo
    <3>2. CASE k = n + 1
      BY <3>2
    <3>3. CASE k \in 1 .. n
      BY <2>1, <3>3 DEF IsUpTo
    <3> QED
      BY <3>1, <3>2, <3>3
  <2>3. up = [k \in 0 .. n + 1 |-> up[k]]
    OBVIOUS
  <2> HIDE DEF up
  <2>4. IsUpTo(h, m, n + 1, up)
    BY <2>2, <2>3 DEF IsUpTo
  <2> QED
    BY <2>4
<1>3. \A n \in Nat : n \in S
  <2> HIDE DEF S
  <2>1. S \in SUBSET Nat
    BY DEF S
  <2> QED
    BY <1>1, <1>2, <2>1, InductionOverSet
<1> QED
  BY <1>3

LEMMA UpToUnfolds ==
    ASSUME NEW h, NEW m, NEW n \in Nat
    PROVE  IsUpTo(h, m, n, UpTo(h, m, n))
<1>1. PICK up : IsUpTo(h, m, n, up)
  BY UpToExists
<1>2. UpTo(h, m, n) = CHOOSE f : IsUpTo(h, m, n, f)
  BY DEF UpTo, IsUpTo, ParentIn
<1> QED
  BY <1>1, <1>2, Zenon

LEMMA UpToSteps ==
    ASSUME NEW h, NEW m, NEW n \in Nat
    PROVE  /\ UpTo(h, m, n)[0] = m
           /\ \A k \in 0 .. n - 1 : UpTo(h, m, n)[k + 1] = ParentIn(h, UpTo(h, m, n)[k])
<1>1. IsUpTo(h, m, n, UpTo(h, m, n))
  BY UpToUnfolds
<1> DEFINE up == UpTo(h, m, n)
<1> HIDE DEF up
<1>2. up = [k \in 0 .. n |-> IF k = 0 THEN m ELSE ParentIn(h, up[k - 1])]
  BY <1>1 DEF up, IsUpTo
<1>3. ASSUME NEW k \in 0 .. n - 1 PROVE up[k + 1] = ParentIn(h, up[k])
  <2>1. k + 1 \in 0 .. n /\ k + 1 # 0 /\ (k + 1) - 1 = k
    OBVIOUS
  <2> QED
    BY <1>2, <2>1
<1>4. up[0] = m
  BY <1>2
<1> QED
  BY <1>3, <1>4 DEF up

\* A longer way begins with the shorter ones.
LEMMA UpToAgree ==
    ASSUME NEW h, NEW m
    PROVE  \A k \in Nat : \A n \in Nat : k <= n => UpTo(h, m, n)[k] = Up(h, m, k)
<1> DEFINE S == {k \in Nat : \A n \in Nat : k <= n => UpTo(h, m, n)[k] = Up(h, m, k)}
<1>1. 0 \in S
  BY UpToSteps DEF Up
<1>2. ASSUME NEW k \in S PROVE k + 1 \in S
  <2>1. ASSUME NEW n \in Nat, k + 1 <= n PROVE UpTo(h, m, n)[k + 1] = ParentIn(h, Up(h, m, k))
    <3>1. UpTo(h, m, n)[k + 1] = ParentIn(h, UpTo(h, m, n)[k])
      BY <2>1, UpToSteps
    <3>2. UpTo(h, m, n)[k] = Up(h, m, k)
      BY <1>2, <2>1
    <3> QED
      BY <3>1, <3>2
  <2>2. k \in Nat /\ k + 1 \in Nat /\ k + 1 <= k + 1
    OBVIOUS
  <2>3. Up(h, m, k + 1) = ParentIn(h, Up(h, m, k))
    BY <2>1, <2>2 DEF Up
  <2> QED
    BY <2>1, <2>2, <2>3
<1>3. S \in SUBSET Nat
  OBVIOUS
<1>4. \A n \in Nat : n \in S
  <2> HIDE DEF S
  <2> QED
    BY <1>1, <1>2, <1>3, InductionOverSet
<1> QED
  BY <1>4

\* What is needed of Above from here on: where it begins and how it goes on.
LEMMA UpSteps ==
    ASSUME NEW h, NEW m
    PROVE  /\ Up(h, m, 0) = m
           /\ \A k \in Nat : Up(h, m, k + 1) = ParentIn(h, Up(h, m, k))
<1>1. Up(h, m, 0) = m
  BY UpToSteps DEF Up
<1>2. ASSUME NEW k \in Nat PROVE Up(h, m, k + 1) = ParentIn(h, Up(h, m, k))
  <2>1. UpTo(h, m, k + 1)[k + 1] = ParentIn(h, UpTo(h, m, k + 1)[k])
    BY UpToSteps
  <2>2. UpTo(h, m, k + 1)[k] = Up(h, m, k)
    BY UpToAgree
  <2> QED
    BY <2>1, <2>2 DEF Up
<1> QED
  BY <1>1, <1>2

\* Going up n steps and then k more.
LEMMA UpAdds ==
    ASSUME NEW h, NEW m, NEW n \in Nat
    PROVE  \A k \in Nat : Up(h, m, n + k) = Up(h, Up(h, m, n), k)
<1> DEFINE S == {k \in Nat : Up(h, m, n + k) = Up(h, Up(h, m, n), k)}
<1>1. 0 \in S
  BY UpSteps
<1>2. ASSUME NEW k \in S PROVE k + 1 \in S
  <2>1. n + k \in Nat /\ n + (k + 1) = (n + k) + 1
    OBVIOUS
  <2>2. Up(h, m, (n + k) + 1) = ParentIn(h, Up(h, m, n + k))
    BY <2>1, UpSteps
  <2>3. Up(h, Up(h, m, n), k + 1) = ParentIn(h, Up(h, Up(h, m, n), k))
    BY UpSteps
  <2> QED
    BY <1>2, <2>1, <2>2, <2>3
<1>3. S \in SUBSET Nat
  OBVIOUS
<1>4. \A k \in Nat : k \in S
  <2> HIDE DEF S
  <2> QED
    BY <1>1, <1>2, <1>3, InductionOverSet
<1> QED
  BY <1>4

LEMMA UpTypes ==
    ASSUME NEW h \in Hierarchies, NEW m \in Merchants \cup {None}
    PROVE  \A k \in Nat : Up(h, m, k) \in Merchants \cup {None}
<1> DEFINE S == {k \in Nat : Up(h, m, k) \in Merchants \cup {None}}
<1>1. 0 \in S
  BY UpSteps
<1>2. ASSUME NEW k \in S PROVE k + 1 \in S
  <2>1. Up(h, m, k + 1) = ParentIn(h, Up(h, m, k))
    BY UpSteps
  <2> QED
    BY <2>1 DEF ParentIn, Hierarchies, MerchantRow
<1>3. S \in SUBSET Nat
  OBVIOUS
<1>4. \A k \in Nat : k \in S
  <2> HIDE DEF S
  <2> QED
    BY <1>1, <1>2, <1>3, InductionOverSet
<1> QED
  BY <1>4

\* Who is at None stays there.
LEMMA UpEnds ==
    ASSUME NEW h
    PROVE  \A k \in Nat : Up(h, None, k) = None
<1> DEFINE S == {k \in Nat : Up(h, None, k) = None}
<1>1. 0 \in S
  BY UpSteps
<1>2. ASSUME NEW k \in S PROVE k + 1 \in S
  <2>1. Up(h, None, k + 1) = ParentIn(h, Up(h, None, k))
    BY UpSteps
  <2> QED
    BY <1>2, <2>1 DEF ParentIn
<1>3. S \in SUBSET Nat
  OBVIOUS
<1>4. \A k \in Nat : k \in S
  <2> HIDE DEF S
  <2> QED
    BY <1>1, <1>2, <1>3, InductionOverSet
<1> QED
  BY <1>4

\* Under, in any hierarchy.
UnderIn(h, actor, m, n) ==
    \E k \in 0 .. n : /\ Up(h, m, k) = actor
                      /\ \A j \in 0 .. k - 1 : h[Up(h, m, j)].active

LEMMA ScopeIsUnderIn ==
    ASSUME NEW actor, NEW s
    PROVE  InScope(actor, s)' <=> /\ stores'[s] # None /\ stores'[s].active
                                  /\ UnderIn(merchants', actor, stores'[s].merchant, Depth - 1)
BY DEF InScope, Under, UnderIn, Above, Up, UpTo

LEMMA UnderIsUnderIn ==
    ASSUME NEW actor, NEW m, NEW n
    PROVE  /\ Under(actor, m, n) = UnderIn(merchants, actor, m, n)
           /\ Under(actor, m, n)' = UnderIn(merchants', actor, m, n)
<1>1. Under(actor, m, n) = UnderIn(merchants, actor, m, n)
  BY AboveIsUp DEF Under, UnderIn
<1>2. Under(actor, m, n)' = UnderIn(merchants', actor, m, n)
  BY AboveIsUp DEF Under, UnderIn
<1> QED
  BY <1>1, <1>2

\* Whoever is on the way to an actor is a merchant on record.
LEMMA OnTheWay ==
    ASSUME NEW h \in Hierarchies, NEW m \in Merchants \cup {None}, NEW actor \in Merchants,
           NEW k \in Nat, Up(h, m, k) = actor, NEW j \in 0 .. k - 1
    PROVE  Up(h, m, j) \in Merchants /\ h[Up(h, m, j)] \in MerchantRow
<1>1. j \in Nat /\ Up(h, m, j) \in Merchants \cup {None}
  BY UpTypes
<1>2. Up(h, m, j + 1) # None
  <2>1. PICK d \in Nat : j + 1 + d = k /\ j + 1 \in Nat
    <3>1. k - j - 1 \in Nat /\ j + 1 + (k - j - 1) = k
      BY <1>1
    <3> QED
      BY <1>1, <3>1
  <2>2. Up(h, m, (j + 1) + d) = Up(h, Up(h, m, j + 1), d)
    BY <2>1, UpAdds
  <2> QED
    BY <2>1, <2>2, UpEnds, RowsAssumption
<1>3. Up(h, m, j + 1) = ParentIn(h, Up(h, m, j))
  BY <1>1, UpSteps
<1> QED
  BY <1>1, <1>2, <1>3 DEF ParentIn, Hierarchies

\* One level more.
LEMMA UnderSteps ==
    ASSUME NEW h \in Hierarchies, NEW actor \in Merchants, NEW m \in Merchants, NEW n \in Nat
    PROVE  UnderIn(h, actor, m, n + 1) <=>
               \/ m = actor
               \/ /\ h[m] # None /\ h[m].active
                  /\ h[m].parent \in Merchants /\ UnderIn(h, actor, h[m].parent, n)
<1> DEFINE p == h[m].parent
<1>1. ASSUME NEW k \in Nat, h[m] # None PROVE Up(h, m, k + 1) = Up(h, p, k)
  <2>1. Up(h, m, 0) = m /\ Up(h, m, 0 + 1) = ParentIn(h, Up(h, m, 0))
    BY UpSteps
  <2>2. Up(h, m, 1) = p
    BY <1>1, <2>1, RowsAssumption DEF ParentIn
  <2>3. Up(h, m, 1 + k) = Up(h, Up(h, m, 1), k)
    BY UpAdds
  <2>4. 1 + k = k + 1
    OBVIOUS
  <2> QED
    BY <2>2, <2>3, <2>4
<1>2. ASSUME UnderIn(h, actor, m, n + 1), m # actor
      PROVE  /\ h[m] # None /\ h[m].active
             /\ h[m].parent \in Merchants /\ UnderIn(h, actor, h[m].parent, n)
  <2>1. PICK k \in 0 .. n + 1 : /\ Up(h, m, k) = actor
                                /\ \A j \in 0 .. k - 1 : h[Up(h, m, j)].active
    BY <1>2 DEF UnderIn
  <2>2. Up(h, m, 0) = m
    BY UpSteps
  <2>3. k # 0
    BY <1>2, <2>1, <2>2
  <2>4. PICK i \in 0 .. n : k = i + 1
    <3>1. k - 1 \in 0 .. n /\ k = (k - 1) + 1
      BY <2>3
    <3> QED
      BY <3>1
  <2>5. h[m] \in MerchantRow /\ h[m].active
    <3>1. k \in Nat /\ 0 \in 0 .. k - 1
      BY <2>3
    <3> QED
      BY <2>1, <2>2, <3>1, OnTheWay
  <2>6. h[m] # None
    BY <2>5, RowsAssumption
  <2>7. Up(h, p, i) = actor
    BY <1>1, <2>1, <2>4, <2>6
  <2>8. p \in Merchants
    <3>1. p \in Merchants \cup {None}
      BY <2>5 DEF MerchantRow
    <3>2. p # None
      BY <2>7, UpEnds, RowsAssumption
    <3> QED
      BY <3>1, <3>2
  <2>9. ASSUME NEW j \in 0 .. i - 1 PROVE h[Up(h, p, j)].active
    <3>1. j \in Nat /\ j + 1 \in 0 .. k - 1
      BY <2>4
    <3>2. Up(h, m, j + 1) = Up(h, p, j)
      BY <1>1, <2>6, <3>1
    <3> QED
      BY <2>1, <3>1, <3>2
  <2>10. UnderIn(h, actor, p, n)
    BY <2>7, <2>9 DEF UnderIn
  <2> QED
    BY <2>5, <2>6, <2>8, <2>10
<1>3. ASSUME m = actor PROVE UnderIn(h, actor, m, n + 1)
  <2>1. 0 \in 0 .. n + 1 /\ Up(h, m, 0) = m
    BY UpSteps
  <2> QED
    BY <1>3, <2>1 DEF UnderIn
<1>4. ASSUME h[m] # None, h[m].active, p \in Merchants, UnderIn(h, actor, p, n)
      PROVE  UnderIn(h, actor, m, n + 1)
  <2>1. PICK k \in 0 .. n : /\ Up(h, p, k) = actor
                            /\ \A j \in 0 .. k - 1 : h[Up(h, p, j)].active
    BY <1>4 DEF UnderIn
  <2>2. Up(h, m, k + 1) = actor
    BY <1>1, <1>4, <2>1
  <2>3. ASSUME NEW j \in 0 .. k PROVE h[Up(h, m, j)].active
    <3>1. CASE j = 0
      BY <1>4, <3>1, UpSteps
    <3>2. CASE j # 0
      <4>1. PICK i \in 0 .. k - 1 : j = i + 1
        <5>1. j - 1 \in 0 .. k - 1 /\ j = (j - 1) + 1
          BY <3>2
        <5> QED
          BY <5>1
      <4>2. Up(h, m, j) = Up(h, p, i)
        BY <1>1, <1>4, <4>1
      <4> QED
        BY <2>1, <4>1, <4>2
    <3> QED
      BY <3>1, <3>2
  <2>4. k + 1 \in 0 .. n + 1 /\ 0 .. (k + 1) - 1 = 0 .. k
    OBVIOUS
  <2> QED
    BY <2>2, <2>3, <2>4 DEF UnderIn
<1> QED
  BY <1>2, <1>3, <1>4

\* Without a step upwards one is under oneself only.
LEMMA UnderAtOnce ==
    ASSUME NEW h, NEW actor, NEW m
    PROVE  UnderIn(h, actor, m, 0) <=> m = actor
<1>1. Up(h, m, 0) = m
  BY UpSteps
<1>2. 0 .. 0 = {0} /\ 0 .. 0 - 1 = {}
  OBVIOUS
<1> QED
  BY <1>1, <1>2 DEF UnderIn

-----------------------------------------------------------------------------
(* The walk down                                                           *)

\* The loop of authorizedMerchantIds as a recursion over its levels.
ActorOnly(actor) == [authorized |-> {actor}, frontier |-> {actor}]

NextLevel(l) ==
    LET found == Children(l.frontier) \ l.authorized
    IN  [authorized |-> l.authorized \cup found, frontier |-> found]

IsLevels(actor, n, level) ==
    level = [d \in 0 .. n |-> IF d = 0 THEN ActorOnly(actor) ELSE NextLevel(level[d - 1])]

Levels(actor) == CHOOSE level : IsLevels(actor, Depth, level)

LEMMA ListingUnfolds ==
    ASSUME NEW actor
    PROVE  authorizedMerchantIds(actor) = Levels(actor)[Depth].authorized
BY DEF authorizedMerchantIds, Levels, IsLevels, ActorOnly, NextLevel

\* As above, the recursive function exists, and its steps are those of the loop.
LEMMA LevelsExist ==
    ASSUME NEW actor
    PROVE  \A n \in Nat : \E level : IsLevels(actor, n, level)
<1> DEFINE S == {n \in Nat : \E level : IsLevels(actor, n, level)}
<1>1. 0 \in S
  <2>1. IsLevels(actor, 0, [d \in 0 .. 0 |-> ActorOnly(actor)])
    BY DEF IsLevels
  <2> QED
    BY <2>1
<1>2. ASSUME NEW n \in S PROVE n + 1 \in S
  <2>1. PICK g : IsLevels(actor, n, g)
    BY <1>2
  <2> DEFINE level == [d \in 0 .. n + 1 |-> IF d = n + 1 THEN NextLevel(g[n]) ELSE g[d]]
  <2>2. ASSUME NEW d \in 0 .. n + 1
        PROVE  level[d] = IF d = 0 THEN ActorOnly(actor) ELSE NextLevel(level[d - 1])
    <3>1. CASE d = 0
      BY <2>1, <3>1 DEF IsLevels
    <3>2. CASE d = n + 1
      BY <3>2
    <3>3. CASE d \in 1 .. n
      BY <2>1, <3>3 DEF IsLevels
    <3> QED
      BY <3>1, <3>2, <3>3
  <2>3. level = [d \in 0 .. n + 1 |-> level[d]]
    OBVIOUS
  <2> HIDE DEF level
  <2>4. IsLevels(actor, n + 1, level)
    BY <2>2, <2>3 DEF IsLevels
  <2> QED
    BY <2>4
<1>3. \A n \in Nat : n \in S
  <2> HIDE DEF S
  <2>1. S \in SUBSET Nat
    BY DEF S
  <2> QED
    BY <1>1, <1>2, <2>1, InductionOverSet
<1> QED
  BY <1>3

LEMMA LevelsStep ==
    ASSUME NEW actor
    PROVE  /\ Levels(actor)[0] = ActorOnly(actor)
           /\ \A d \in 0 .. Depth - 1 : Levels(actor)[d + 1] = NextLevel(Levels(actor)[d])
<1> DEFINE level == Levels(actor)
<1>1. PICK g : IsLevels(actor, Depth, g)
  BY LevelsExist, DepthAssumption
<1>2. IsLevels(actor, Depth, level)
  BY <1>1, Zenon DEF Levels
<1> HIDE DEF level
<1>3. level = [d \in 0 .. Depth |-> IF d = 0 THEN ActorOnly(actor) ELSE NextLevel(level[d - 1])]
  BY <1>2 DEF IsLevels
<1>4. level[0] = ActorOnly(actor)
  BY <1>3, DepthAssumption
<1>5. ASSUME NEW d \in 0 .. Depth - 1 PROVE level[d + 1] = NextLevel(level[d])
  <2>1. d + 1 \in 0 .. Depth /\ d + 1 # 0 /\ (d + 1) - 1 = d
    BY DepthAssumption
  <2> QED
    BY <1>3, <2>1
<1> QED
  BY <1>4, <1>5 DEF level

\* Whom d queries ought to find.
Reached(actor, d) == {m \in Merchants : UnderIn(merchants, actor, m, d)}

\* What is new on a level.
NewAt(actor, d) == IF d = 0 THEN {actor} ELSE Reached(actor, d) \ Reached(actor, d - 1)

\* Who is new on a level is a child of one that was new on the last.
LEMMA LevelIsReached ==
    ASSUME merchants \in Hierarchies, NEW actor \in Merchants, NEW d \in Nat
    PROVE  NextLevel([authorized |-> Reached(actor, d), frontier |-> NewAt(actor, d)])
               = [authorized |-> Reached(actor, d + 1), frontier |-> NewAt(actor, d + 1)]
<1> DEFINE found == Children(NewAt(actor, d)) \ Reached(actor, d)
<1>1. ASSUME NEW m \in Merchants
      PROVE  m \in Reached(actor, d + 1) <=>
                 \/ m = actor
                 \/ /\ merchants[m] # None /\ merchants[m].active
                    /\ merchants[m].parent \in Reached(actor, d)
  BY <1>1, UnderSteps DEF Reached
<1>2. actor \in Reached(actor, d)
  <2>1. CASE d = 0
    BY <2>1, UnderAtOnce DEF Reached
  <2>2. CASE d # 0
    <3>1. d - 1 \in Nat /\ (d - 1) + 1 = d
      BY <2>2
    <3>2. UnderIn(merchants, actor, actor, (d - 1) + 1)
      BY <3>1, UnderSteps
    <3> QED
      BY <3>1, <3>2 DEF Reached
  <2> QED
    BY <2>1, <2>2
<1>3. ASSUME NEW m \in Reached(actor, d) PROVE m \in Reached(actor, d + 1)
  <2>1. PICK k \in 0 .. d : /\ Up(merchants, m, k) = actor
                            /\ \A j \in 0 .. k - 1 : merchants[Up(merchants, m, j)].active
    BY DEF Reached, UnderIn
  <2>2. k \in 0 .. d + 1
    OBVIOUS
  <2> QED
    BY <2>1, <2>2 DEF Reached, UnderIn
<1>4. ASSUME NEW m \in Reached(actor, d + 1), m \notin Reached(actor, d)
      PROVE  m \in found
  <2>1. m \in Merchants
    BY DEF Reached
  <2>2. /\ merchants[m] # None /\ merchants[m].active
        /\ merchants[m].parent \in Reached(actor, d)
    BY <1>1, <1>2, <1>4, <2>1
  <2>3. merchants[m].parent \in NewAt(actor, d)
    <3>1. CASE d = 0
      BY <2>2, <3>1, UnderAtOnce DEF Reached, NewAt
    <3>2. CASE d # 0
      <4>1. d - 1 \in Nat /\ (d - 1) + 1 = d
        BY <3>2
      <4>2. ASSUME merchants[m].parent \in Reached(actor, d - 1) PROVE FALSE
        <5>1. UnderIn(merchants, actor, m, (d - 1) + 1)
          BY <2>1, <2>2, <4>1, <4>2, UnderSteps DEF Reached
        <5> QED
          BY <1>4, <2>1, <4>1, <5>1 DEF Reached
      <4> QED
        BY <2>2, <3>2, <4>2 DEF NewAt
    <3> QED
      BY <3>1, <3>2
  <2> QED
    BY <1>4, <2>1, <2>2, <2>3 DEF Children
<1>5. ASSUME NEW m \in found PROVE m \in Reached(actor, d + 1)
  <2>1. NewAt(actor, d) \subseteq Reached(actor, d)
    BY <1>2 DEF NewAt
  <2> QED
    BY <1>1, <2>1 DEF Children
<1>6. found = Reached(actor, d + 1) \ Reached(actor, d)
  BY <1>4, <1>5
<1>7. Reached(actor, d) \cup found = Reached(actor, d + 1)
  BY <1>3, <1>6
<1>8. NewAt(actor, d + 1) = Reached(actor, d + 1) \ Reached(actor, d)
  <2>1. d + 1 # 0 /\ (d + 1) - 1 = d
    OBVIOUS
  <2> QED
    BY <2>1 DEF NewAt
<1> QED
  BY <1>6, <1>7, <1>8 DEF NextLevel

\* So after d queries the loop has found those that are d levels below the actor.
LEMMA ListingIsReached ==
    ASSUME merchants \in Hierarchies, NEW actor \in Merchants
    PROVE  authorizedMerchantIds(actor) = Reached(actor, Depth)
<1> DEFINE LevelOf(d) == [authorized |-> Reached(actor, d), frontier |-> NewAt(actor, d)]
           S == {d \in Nat : d <= Depth => Levels(actor)[d] = LevelOf(d)}
<1>1. 0 \in S
  <2>1. Reached(actor, 0) = {actor}
    BY UnderAtOnce DEF Reached
  <2> QED
    BY <2>1, LevelsStep DEF ActorOnly, NewAt
<1>2. ASSUME NEW d \in S PROVE d + 1 \in S
  <2>1. SUFFICES ASSUME d + 1 <= Depth PROVE Levels(actor)[d + 1] = LevelOf(d + 1)
    OBVIOUS
  <2>2. d \in 0 .. Depth - 1 /\ d <= Depth
    BY <2>1, DepthAssumption
  <2>3. Levels(actor)[d + 1] = NextLevel(Levels(actor)[d])
    BY <2>2, LevelsStep
  <2>4. Levels(actor)[d] = LevelOf(d)
    BY <1>2, <2>2
  <2>5. NextLevel(LevelOf(d)) = LevelOf(d + 1)
    BY LevelIsReached
  <2> QED
    BY <2>3, <2>4, <2>5
<1>3. S \in SUBSET Nat
  OBVIOUS
<1>4. Depth \in S
  <2> HIDE DEF S
  <2> QED
    BY <1>1, <1>2, <1>3, InductionOverSet, DepthAssumption
<1>5. Levels(actor)[Depth] = LevelOf(Depth)
  BY <1>4, DepthAssumption
<1> QED
  BY <1>5, ListingUnfolds

LEMMA ListingHolds == merchants \in Hierarchies => ListingIsSubtree
<1> SUFFICES ASSUME merchants \in Hierarchies, NEW actor \in Merchants
             PROVE  authorizedMerchantIds(actor) = {actor} \cup {m \in Merchants : Under(actor, m, Depth)}
  BY DEF ListingIsSubtree
<1>1. UnderIn(merchants, actor, actor, (Depth - 1) + 1)
  BY UnderSteps, DepthAssumption
<1>2. actor \in Reached(actor, Depth)
  <2>1. (Depth - 1) + 1 = Depth
    BY DepthAssumption
  <2> QED
    BY <1>1, <2>1 DEF Reached
<1> QED
  BY <1>2, ListingIsReached, UnderIsUnderIn DEF Reached

-----------------------------------------------------------------------------
(* The walk up                                                             *)

\* From here the walk w would arrive, were it not disturbed any more.
Arrives(h, w) ==
    \E k \in 0 .. Depth - 1 - w.depth :
        /\ Up(h, w.at, k) = w.actor
        /\ \A j \in 0 .. k - 1 : h[Up(h, w.at, j)].active
        /\ \A j \in 0 .. k : Up(h, w.at, j) \notin w.visited

\* The walk w has come from m, through what the hierarchy is now.
CameFrom(h, w, m) ==
    /\ w.visited = {Up(h, m, j) : j \in 0 .. w.depth - 1}
    /\ w.visited \subseteq Merchants
    /\ \A j \in 0 .. w.depth - 2 : h[Up(h, m, j)] # None /\ h[Up(h, m, j)].active
    /\ w.at = IF w.depth = 0 THEN m
              ELSE LET last == Up(h, m, w.depth - 1)
                   IN  IF h[last] # None /\ h[last].active THEN h[last].parent ELSE None

\* Without a detour: the first time it comes to the actor.
LEMMA ShortestWay ==
    ASSUME NEW h, NEW m, NEW actor, NEW n \in Nat, UnderIn(h, actor, m, n)
    PROVE  \E k \in 0 .. n : /\ Up(h, m, k) = actor
                             /\ \A j \in 0 .. k - 1 : h[Up(h, m, j)].active
                             /\ \A i \in 0 .. k - 1 : Up(h, m, i) # actor
<1> DEFINE S == {k \in 0 .. n : Up(h, m, k) = actor /\ \A j \in 0 .. k - 1 : h[Up(h, m, j)].active}
<1>1. S \in SUBSET Nat /\ S # {}
  BY DEF UnderIn
<1>2. PICK k \in S : \A i \in S : k <= i
  <2> HIDE DEF S
  <2> QED
    BY <1>1, LeastExists
<1>3. ASSUME NEW i \in 0 .. k - 1, Up(h, m, i) = actor PROVE FALSE
  <2>1. i \in 0 .. n /\ i < k /\ 0 .. i - 1 \subseteq 0 .. k - 1
    BY <1>2
  <2>2. i \in S
    BY <1>2, <1>3, <2>1
  <2> QED
    BY <1>2, <2>1, <2>2
<1> QED
  BY <1>2, <1>3

\* No merchant comes twice on such a way.
LEMMA NoLoop ==
    ASSUME NEW h, NEW m, NEW actor, NEW k \in Nat, Up(h, m, k) = actor,
           \A i \in 0 .. k - 1 : Up(h, m, i) # actor
    PROVE  \A i, j \in 0 .. k : Up(h, m, i) = Up(h, m, j) => i = j
<1>1. ASSUME NEW i \in 0 .. k, NEW j \in 0 .. k, i < j, Up(h, m, i) = Up(h, m, j)
      PROVE  FALSE
  <2>1. PICK d \in Nat : d = k - j
    OBVIOUS
  <2>2. i + d \in 0 .. k - 1 /\ j + d = k /\ i \in Nat /\ j \in Nat
    BY <1>1, <2>1
  <2>3. Up(h, m, i + d) = Up(h, Up(h, m, i), d) /\ Up(h, m, j + d) = Up(h, Up(h, m, j), d)
    BY <2>2, UpAdds
  <2>4. Up(h, m, i + d) = actor
    BY <1>1, <2>2, <2>3
  <2> QED
    BY <2>2, <2>4
<1> QED
  BY <1>1

\* Undisturbed so far, a walk will arrive if and only if the store is in scope.
LEMMA ArrivesFromStart ==
    ASSUME NEW h \in Hierarchies, NEW w \in Walk, NEW m \in Merchants,
           CameFrom(h, w, m), w.actor \notin w.visited
    PROVE  UnderIn(h, w.actor, m, Depth - 1) <=> Arrives(h, w)
<1> DEFINE n == w.depth
<1>1. n \in Nat /\ n <= Depth /\ Depth - 1 \in Nat /\ w.actor \in Merchants
  BY DepthAssumption DEF Walk
<1>2. ASSUME n # 0
      PROVE  /\ n - 1 \in Nat /\ (n - 1) + 1 = n
             /\ Up(h, m, n - 1) \in Merchants
             /\ Up(h, m, n) = ParentIn(h, Up(h, m, n - 1))
  <2>1. n - 1 \in Nat /\ (n - 1) + 1 = n /\ n - 1 \in 0 .. n - 1
    BY <1>1, <1>2
  <2>2. Up(h, m, n - 1) \in Merchants
    BY <2>1 DEF CameFrom
  <2>3. Up(h, m, (n - 1) + 1) = ParentIn(h, Up(h, m, n - 1))
    BY <2>1, UpSteps
  <2> QED
    BY <2>1, <2>2, <2>3
<1>3. ASSUME w.at # None
      PROVE  w.at = Up(h, m, n) /\ \A j \in 0 .. n - 1 : h[Up(h, m, j)].active
  <2>1. CASE n = 0
    <3>1. 0 .. n - 1 = {} /\ Up(h, m, 0) = m
      BY <2>1, UpSteps
    <3> QED
      BY <2>1, <3>1 DEF CameFrom
  <2>2. CASE n # 0
    <3>1. /\ h[Up(h, m, n - 1)] # None /\ h[Up(h, m, n - 1)].active
          /\ w.at = h[Up(h, m, n - 1)].parent
      BY <1>3, <2>2 DEF CameFrom
    <3>2. w.at = Up(h, m, n)
      BY <1>2, <2>2, <3>1, RowsAssumption DEF ParentIn
    <3>3. ASSUME NEW j \in 0 .. n - 1 PROVE h[Up(h, m, j)].active
      <4>1. j \in 0 .. n - 2 \/ j = n - 1
        BY <1>1
      <4> QED
        BY <3>1, <4>1 DEF CameFrom
    <3> QED
      BY <3>2, <3>3
  <2> QED
    BY <2>1, <2>2
<1>4. ASSUME Arrives(h, w) PROVE UnderIn(h, w.actor, m, Depth - 1)
  <2>1. PICK k \in 0 .. Depth - 1 - n :
            /\ Up(h, w.at, k) = w.actor
            /\ \A j \in 0 .. k - 1 : h[Up(h, w.at, j)].active
    BY <1>4 DEF Arrives
  <2>2. k \in Nat /\ n + k \in 0 .. Depth - 1
    BY <1>1, <2>1
  <2>3. w.at # None
    BY <1>1, <2>1, <2>2, UpEnds, RowsAssumption
  <2>4. \A j \in Nat : Up(h, m, n + j) = Up(h, w.at, j)
    <3>1. PICK d \in Nat : d = n
      BY <1>1
    <3>2. \A j \in Nat : Up(h, m, d + j) = Up(h, Up(h, m, d), j)
      BY UpAdds
    <3> QED
      BY <1>3, <2>3, <3>1, <3>2, Zenon
  <2>5. ASSUME NEW j \in 0 .. (n + k) - 1 PROVE h[Up(h, m, j)].active
    <3>1. CASE j \in 0 .. n - 1
      BY <1>3, <2>3, <3>1
    <3>2. CASE j \notin 0 .. n - 1
      <4>1. PICK i \in 0 .. k - 1 : j = n + i
        <5>1. j - n \in 0 .. k - 1 /\ j = n + (j - n)
          BY <1>1, <2>2, <3>2
        <5> QED
          BY <5>1
      <4>2. Up(h, m, n + i) = Up(h, w.at, i)
        BY <2>4, <4>1
      <4> QED
        BY <2>1, <4>1, <4>2
    <3> QED
      BY <3>1, <3>2
  <2>6. Up(h, m, n + k) = w.actor
    BY <2>1, <2>2, <2>4
  <2> QED
    BY <2>2, <2>5, <2>6 DEF UnderIn
<1>5. ASSUME UnderIn(h, w.actor, m, Depth - 1) PROVE Arrives(h, w)
  <2>1. PICK k \in 0 .. Depth - 1 : /\ Up(h, m, k) = w.actor
                                    /\ \A j \in 0 .. k - 1 : h[Up(h, m, j)].active
                                    /\ \A i \in 0 .. k - 1 : Up(h, m, i) # w.actor
    BY <1>1, <1>5, ShortestWay
  <2>2. n <= k
    <3>1. k \in 0 .. n - 1 => Up(h, m, k) \in w.visited
      BY DEF CameFrom
    <3> QED
      BY <1>1, <2>1, <3>1
  <2>3. PICK d \in Nat : n + d = k /\ d \in 0 .. Depth - 1 - n
    <3>1. k - n \in Nat /\ n + (k - n) = k /\ k - n \in 0 .. Depth - 1 - n
      BY <1>1, <2>2
    <3> QED
      BY <3>1
  <2>4. w.at = Up(h, m, n)
    <3>1. CASE n = 0
      BY <3>1, UpSteps DEF CameFrom
    <3>2. CASE n # 0
      <4>1. n - 1 \in 0 .. k - 1
        BY <1>1, <2>2, <3>2
      <4>2. h[Up(h, m, n - 1)] \in MerchantRow
        BY <1>1, <2>1, <4>1, OnTheWay
      <4>3. h[Up(h, m, n - 1)] # None /\ h[Up(h, m, n - 1)].active
        BY <2>1, <4>1, <4>2, RowsAssumption
      <4>4. w.at = h[Up(h, m, n - 1)].parent
        BY <3>2, <4>3 DEF CameFrom
      <4> QED
        BY <1>2, <3>2, <4>3, <4>4, RowsAssumption DEF ParentIn
    <3> QED
      BY <3>1, <3>2
  <2>5. \A j \in Nat : Up(h, m, n + j) = Up(h, w.at, j)
    <3>1. PICK i \in Nat : i = n
      BY <1>1
    <3>2. \A j \in Nat : Up(h, m, i + j) = Up(h, Up(h, m, i), j)
      BY UpAdds
    <3> QED
      BY <2>4, <3>1, <3>2, Zenon
  <2>6. Up(h, w.at, d) = w.actor
    BY <2>1, <2>3, <2>5
  <2>7. ASSUME NEW j \in 0 .. d - 1 PROVE h[Up(h, w.at, j)].active
    <3>1. n + j \in 0 .. k - 1 /\ j \in Nat
      BY <1>1, <2>3
    <3>2. Up(h, m, n + j) = Up(h, w.at, j)
      BY <2>5, <3>1
    <3> QED
      BY <2>1, <3>1, <3>2
  <2>8. ASSUME NEW j \in 0 .. d PROVE Up(h, w.at, j) \notin w.visited
    <3>1. n + j \in 0 .. k /\ j \in Nat
      BY <1>1, <2>3
    <3>2. Up(h, m, n + j) = Up(h, w.at, j)
      BY <2>5, <3>1
    <3>3. ASSUME NEW i \in 0 .. n - 1 PROVE Up(h, m, i) # Up(h, m, n + j)
      <4>1. i \in 0 .. k /\ i # n + j /\ k \in Nat
        BY <1>1, <2>2, <3>1
      <4> QED
        BY <2>1, <3>1, <4>1, NoLoop
    <3> QED
      BY <3>2, <3>3 DEF CameFrom
  <2> QED
    BY <2>3, <2>6, <2>7, <2>8 DEF Arrives
<1> QED
  BY <1>4, <1>5

\* The walk's next step.
Stepped(h, w) ==
    [w EXCEPT !.at = IF h[w.at] # None /\ h[w.at].active THEN h[w.at].parent ELSE None,
              !.visited = @ \cup {w.at},
              !.depth = @ + 1]

\* A step is on the way, if there is one.
LEMMA StepArrives ==
    ASSUME NEW h \in Hierarchies, NEW w \in Walk, w.at \in Merchants, w.at # w.actor,
           w.depth < Depth, w.at \notin w.visited
    PROVE  Arrives(h, w) <=> Arrives(h, Stepped(h, w))
<1> DEFINE v == Stepped(h, w)
           at == w.at
           p == IF h[at] # None /\ h[at].active THEN h[at].parent ELSE None
<1>1. /\ v.at = p /\ v.visited = w.visited \cup {at} /\ v.depth = w.depth + 1
      /\ v.actor = w.actor /\ w.actor \in Merchants /\ w.depth \in Nat
  BY DEF Stepped, Walk
<1>2. ASSUME h[at] # None, h[at].active
      PROVE  \A k \in Nat : Up(h, at, k + 1) = Up(h, p, k)
  <2>1. Up(h, at, 0) = at /\ Up(h, at, 0 + 1) = ParentIn(h, Up(h, at, 0))
    BY UpSteps
  <2>2. Up(h, at, 1) = p
    BY <1>2, <2>1, RowsAssumption DEF ParentIn
  <2>3. \A k \in Nat : Up(h, at, 1 + k) = Up(h, Up(h, at, 1), k)
    BY UpAdds
  <2>4. \A k \in Nat : 1 + k = k + 1
    OBVIOUS
  <2> QED
    BY <2>2, <2>3, <2>4
<1> HIDE DEF v, p
<1>3. ASSUME Arrives(h, w) PROVE Arrives(h, v)
  <2>1. PICK l \in 0 .. Depth - 1 - w.depth :
            /\ Up(h, at, l) = w.actor
            /\ \A j \in 0 .. l - 1 : h[Up(h, at, j)].active
            /\ \A j \in 0 .. l : Up(h, at, j) \notin w.visited
    BY <1>3 DEF Arrives
  <2>2. UnderIn(h, w.actor, at, l)
    BY <2>1 DEF UnderIn
  <2>3. PICK k \in 0 .. l : /\ Up(h, at, k) = w.actor
                           /\ \A j \in 0 .. k - 1 : h[Up(h, at, j)].active
                           /\ \A i \in 0 .. k - 1 : Up(h, at, i) # w.actor
    BY <2>1, <2>2, ShortestWay
  <2>4. Up(h, at, 0) = at
    BY UpSteps
  <2>5. k # 0
    BY <2>3, <2>4
  <2>6. PICK i \in Nat : k = i + 1 /\ i \in 0 .. Depth - 1 - v.depth
    <3>1. k - 1 \in Nat /\ k = (k - 1) + 1 /\ k - 1 \in 0 .. Depth - 1 - v.depth
      BY <1>1, <2>5, DepthAssumption
    <3> QED
      BY <3>1
  <2>7. h[at] # None /\ h[at].active
    <3>1. k \in Nat /\ 0 \in 0 .. k - 1
      BY <2>6
    <3>2. h[at] \in MerchantRow
      BY <1>1, <2>3, <2>4, <3>1, OnTheWay
    <3> QED
      BY <2>3, <2>4, <3>1, <3>2, RowsAssumption
  <2>8. \A j \in Nat : Up(h, at, j + 1) = Up(h, p, j)
    BY <1>2, <2>7
  <2>9. Up(h, p, i) = w.actor
    BY <2>3, <2>6, <2>8
  <2>10. ASSUME NEW j \in 0 .. i - 1 PROVE h[Up(h, p, j)].active
    <3>1. j + 1 \in 0 .. k - 1 /\ j \in Nat
      BY <2>6
    <3>2. Up(h, at, j + 1) = Up(h, p, j)
      BY <2>8, <3>1
    <3> QED
      BY <2>3, <3>1, <3>2
  <2>11. ASSUME NEW j \in 0 .. i PROVE Up(h, p, j) \notin v.visited
    <3>1. j + 1 \in 0 .. k /\ j + 1 \in 0 .. l /\ j \in Nat /\ 0 \in 0 .. k /\ k \in Nat /\ j + 1 # 0
      BY <2>6
    <3>2. Up(h, at, j + 1) = Up(h, p, j)
      BY <2>8, <3>1
    <3>3. Up(h, at, j + 1) # Up(h, at, 0)
      BY <2>3, <3>1, NoLoop
    <3>4. Up(h, at, j + 1) \notin w.visited
      BY <2>1, <3>1
    <3> QED
      BY <1>1, <2>4, <3>2, <3>3, <3>4
  <2> QED
    BY <1>1, <2>6, <2>9, <2>10, <2>11 DEF Arrives
<1>4. ASSUME Arrives(h, v) PROVE Arrives(h, w)
  <2>1. PICK k \in 0 .. Depth - 1 - v.depth :
            /\ Up(h, p, k) = w.actor
            /\ \A j \in 0 .. k - 1 : h[Up(h, p, j)].active
            /\ \A j \in 0 .. k : Up(h, p, j) \notin v.visited
    BY <1>1, <1>4 DEF Arrives
  <2>2. k \in Nat /\ k + 1 \in 0 .. Depth - 1 - w.depth
    BY <1>1, <2>1, DepthAssumption
  <2>3. p # None
    BY <1>1, <2>1, <2>2, UpEnds, RowsAssumption
  <2>4. h[at] # None /\ h[at].active
    BY <2>3 DEF p
  <2>5. \A j \in Nat : Up(h, at, j + 1) = Up(h, p, j)
    BY <1>2, <2>4
  <2>6. Up(h, at, 0) = at
    BY UpSteps
  <2>7. Up(h, at, k + 1) = w.actor
    BY <2>1, <2>2, <2>5
  <2>8. ASSUME NEW j \in 0 .. k + 1
        PROVE  /\ j # k + 1 => h[Up(h, at, j)].active
               /\ Up(h, at, j) \notin w.visited
    <3>1. CASE j = 0
      BY <2>4, <2>6, <3>1
    <3>2. CASE j # 0
      <4>1. PICK i \in 0 .. k : j = i + 1
        <5>1. j - 1 \in 0 .. k /\ j = (j - 1) + 1
          BY <2>2, <3>2
        <5> QED
          BY <5>1
      <4>2. Up(h, at, j) = Up(h, p, i)
        BY <2>5, <4>1
      <4>3. j # k + 1 => i \in 0 .. k - 1
        BY <2>2, <4>1
      <4> QED
        BY <1>1, <2>1, <4>1, <4>2, <4>3
    <3> QED
      BY <3>1, <3>2
  <2>9. \A j \in 0 .. (k + 1) - 1 : j \in 0 .. k + 1 /\ j # k + 1
    BY <2>2
  <2> QED
    BY <2>2, <2>7, <2>8, <2>9 DEF Arrives
<1> QED
  BY <1>3, <1>4 DEF v

\* And it has come from there.
LEMMA StepCameFrom ==
    ASSUME NEW h \in Hierarchies, NEW w \in Walk, w.at \in Merchants, NEW m \in Merchants,
           CameFrom(h, w, m)
    PROVE  CameFrom(h, Stepped(h, w), m)
<1> DEFINE v == Stepped(h, w)
           n == w.depth
<1>1. /\ v.at = (IF h[w.at] # None /\ h[w.at].active THEN h[w.at].parent ELSE None)
      /\ v.visited = w.visited \cup {w.at} /\ v.depth = n + 1 /\ n \in Nat
  BY DEF Stepped, Walk
<1>2. w.at = Up(h, m, n) /\ (n # 0 => h[Up(h, m, n - 1)] # None /\ h[Up(h, m, n - 1)].active)
  <2>1. CASE n = 0
    BY <2>1, UpSteps DEF CameFrom
  <2>2. CASE n # 0
    <3>1. n - 1 \in Nat /\ (n - 1) + 1 = n /\ n - 1 \in 0 .. n - 1
      BY <1>1, <2>2
    <3>2. Up(h, m, n - 1) \in Merchants
      BY <3>1 DEF CameFrom
    <3>3. Up(h, m, (n - 1) + 1) = ParentIn(h, Up(h, m, n - 1))
      BY <3>1, UpSteps
    <3>4. /\ h[Up(h, m, n - 1)] # None /\ h[Up(h, m, n - 1)].active
          /\ w.at = h[Up(h, m, n - 1)].parent
      BY <2>2, RowsAssumption DEF CameFrom
    <3> QED
      BY <3>1, <3>2, <3>3, <3>4, RowsAssumption DEF ParentIn
  <2> QED
    BY <2>1, <2>2
<1> HIDE DEF v
<1>3. 0 .. (n + 1) - 1 = (0 .. n - 1) \cup {n} /\ (n + 1) - 1 = n /\ n + 1 # 0
  BY <1>1
<1>4. v.visited = {Up(h, m, j) : j \in 0 .. v.depth - 1}
  BY <1>1, <1>2, <1>3 DEF CameFrom
<1>5. ASSUME NEW j \in 0 .. v.depth - 2 PROVE h[Up(h, m, j)] # None /\ h[Up(h, m, j)].active
  <2>1. j \in 0 .. n - 2 \/ (n # 0 /\ j = n - 1)
    BY <1>1
  <2> QED
    BY <1>2, <2>1 DEF CameFrom
<1>6. v.at = LET last == Up(h, m, v.depth - 1)
             IN  IF h[last] # None /\ h[last].active THEN h[last].parent ELSE None
  BY <1>1, <1>2, <1>3
<1> QED
  BY <1>1, <1>3, <1>4, <1>5, <1>6 DEF CameFrom, v

\* A change behind the walk's back does not touch the rest of its way.
LEMMA ArrivesElsewhere ==
    ASSUME NEW h \in Hierarchies, NEW g \in Hierarchies, NEW w \in Walk,
           \A x \in Merchants \ w.visited : g[x] = h[x],
           Arrives(h, w)
    PROVE  Arrives(g, w)
<1>1. w.at \in Merchants \cup {None} /\ w.actor \in Merchants /\ w.depth \in Nat
  BY DEF Walk
<1>2. PICK k \in 0 .. Depth - 1 - w.depth :
          /\ Up(h, w.at, k) = w.actor
          /\ \A j \in 0 .. k - 1 : h[Up(h, w.at, j)].active
          /\ \A j \in 0 .. k : Up(h, w.at, j) \notin w.visited
  BY DEF Arrives
<1> DEFINE S == {j \in Nat : j <= k => Up(g, w.at, j) = Up(h, w.at, j)}
<1>3. 0 \in S
  BY UpSteps
<1>4. ASSUME NEW j \in S PROVE j + 1 \in S
  <2>1. SUFFICES ASSUME j + 1 <= k PROVE Up(g, w.at, j + 1) = Up(h, w.at, j + 1)
    OBVIOUS
  <2>2. j \in 0 .. k /\ j <= k
    BY <2>1
  <2>3. /\ Up(g, w.at, j + 1) = ParentIn(g, Up(g, w.at, j))
        /\ Up(h, w.at, j + 1) = ParentIn(h, Up(h, w.at, j))
    BY UpSteps
  <2>4. Up(g, w.at, j) = Up(h, w.at, j)
    BY <1>4, <2>2
  <2>5. Up(h, w.at, j) \in (Merchants \ w.visited) \cup {None}
    BY <1>1, <1>2, <2>2, UpTypes
  <2> QED
    BY <2>3, <2>4, <2>5 DEF ParentIn
<1>5. S \in SUBSET Nat
  OBVIOUS
<1>6. \A j \in Nat : j \in S
  <2> HIDE DEF S
  <2> QED
    BY <1>3, <1>4, <1>5, InductionOverSet
<1>7. \A j \in 0 .. k : Up(g, w.at, j) = Up(h, w.at, j)
  BY <1>6
<1>8. ASSUME NEW j \in 0 .. k - 1 PROVE g[Up(g, w.at, j)].active
  <2>1. j \in 0 .. k /\ k \in Nat
    OBVIOUS
  <2>2. Up(h, w.at, j) \in Merchants
    BY <1>1, <1>2, <2>1, OnTheWay
  <2> QED
    BY <1>2, <1>7, <2>1, <2>2
<1>9. k \in 0 .. k
  OBVIOUS
<1> QED
  BY <1>2, <1>7, <1>8, <1>9 DEF Arrives

\* Nor does one before it make a difference to where it has come from.
LEMMA CameFromElsewhere ==
    ASSUME NEW h, NEW g, NEW w \in Walk, NEW m,
           \A x \in w.visited : g[x] = h[x],
           CameFrom(h, w, m)
    PROVE  CameFrom(g, w, m)
<1> DEFINE n == w.depth
           S == {j \in Nat : j <= n - 1 => Up(g, m, j) = Up(h, m, j)}
<1>1. n \in Nat /\ None \notin w.visited
  BY RowsAssumption DEF Walk, CameFrom
<1>2. 0 \in S
  BY UpSteps
<1>3. ASSUME NEW j \in S PROVE j + 1 \in S
  <2>1. SUFFICES ASSUME j + 1 <= n - 1 PROVE Up(g, m, j + 1) = Up(h, m, j + 1)
    OBVIOUS
  <2>2. j \in 0 .. n - 1 /\ j <= n - 1
    BY <1>1, <2>1
  <2>3. /\ Up(g, m, j + 1) = ParentIn(g, Up(g, m, j))
        /\ Up(h, m, j + 1) = ParentIn(h, Up(h, m, j))
    BY UpSteps
  <2>4. Up(g, m, j) = Up(h, m, j) /\ Up(h, m, j) \in w.visited
    BY <1>3, <2>2 DEF CameFrom
  <2> QED
    BY <2>3, <2>4 DEF ParentIn
<1>4. S \in SUBSET Nat
  OBVIOUS
<1>5. \A j \in Nat : j \in S
  <2> HIDE DEF S
  <2> QED
    BY <1>2, <1>3, <1>4, InductionOverSet
<1>6. \A j \in 0 .. n - 1 : Up(g, m, j) = Up(h, m, j)
  BY <1>5
<1>7. w.visited = {Up(g, m, j) : j \in 0 .. n - 1}
  BY <1>6 DEF CameFrom
<1>8. ASSUME NEW j \in 0 .. n - 2 PROVE g[Up(g, m, j)] # None /\ g[Up(g, m, j)].active
  <2>1. j \in 0 .. n - 1
    BY <1>1
  <2>2. Up(h, m, j) \in w.visited
    BY <2>1 DEF CameFrom
  <2> QED
    BY <1>6, <2>1, <2>2 DEF CameFrom
<1>9. w.at = IF n = 0 THEN m
             ELSE LET last == Up(g, m, n - 1)
                  IN  IF g[last] # None /\ g[last].active THEN g[last].parent ELSE None
  <2>1. CASE n = 0
    BY <2>1 DEF CameFrom
  <2>2. CASE n # 0
    <3>1. n - 1 \in 0 .. n - 1
      BY <1>1, <2>2
    <3>2. Up(h, m, n - 1) \in w.visited /\ Up(g, m, n - 1) = Up(h, m, n - 1)
      BY <1>6, <3>1 DEF CameFrom
    <3> QED
      BY <2>2, <3>2 DEF CameFrom
  <2> QED
    BY <2>1, <2>2
<1> QED
  BY <1>7, <1>8, <1>9 DEF CameFrom

\* At its end it has arrived or will not.
LEMMA EndsAsItArrives ==
    ASSUME walk \in Walk, Exhausted \/ Arrived, walk.actor \notin walk.visited
    PROVE  Arrived <=> Arrives(merchants, walk)
<1>1. walk.actor \in Merchants /\ walk.depth \in Nat /\ walk.depth <= Depth
  BY DepthAssumption DEF Walk
<1>2. Up(merchants, walk.at, 0) = walk.at
  BY UpSteps
<1>3. ASSUME Arrived PROVE Arrives(merchants, walk)
  <2>1. 0 \in 0 .. Depth - 1 - walk.depth /\ 0 .. 0 - 1 = {} /\ 0 .. 0 = {0}
    BY <1>1, <1>3, DepthAssumption DEF Arrived
  <2>2. Up(merchants, walk.at, 0) = walk.actor
    BY <1>2, <1>3 DEF Arrived
  <2> QED
    BY <2>1, <2>2 DEF Arrives
<1>4. ASSUME Exhausted, Arrives(merchants, walk) PROVE FALSE
  <2>1. PICK k \in 0 .. Depth - 1 - walk.depth :
            /\ Up(merchants, walk.at, k) = walk.actor
            /\ \A j \in 0 .. k : Up(merchants, walk.at, j) \notin walk.visited
    BY <1>4 DEF Arrives
  <2>2. k \in Nat /\ 0 \in 0 .. k /\ walk.depth # Depth
    BY <1>1, <2>1
  <2>3. walk.at # None
    BY <1>1, <2>1, <2>2, UpEnds, RowsAssumption
  <2>4. walk.at \notin walk.visited
    BY <1>2, <2>1, <2>2
  <2> QED
    BY <1>4, <2>2, <2>3, <2>4 DEF Exhausted
<1> QED
  BY <1>3, <1>4

\* Undisturbed, a walk has come from its store, and will arrive if the store was
\* in scope; after one change it will if the store was, or if it is.
WalkOf ==
    LET m == stores[walk.store].merchant IN
    /\ walk.actor \notin walk.visited
    /\ stores[walk.store] # None
    /\ walk.overtaken = 0 => /\ CameFrom(merchants, walk, m)
                             /\ stores[walk.store].active
                             /\ walk.allowed <=> Arrives(merchants, walk)
    /\ walk.overtaken = 1 => \/ walk.allowed <=> Arrives(merchants, walk)
                             \/ InScope(walk.actor, walk.store) <=> Arrives(merchants, walk)

WalkInv == walk # None => WalkOf

\* The store is active and the walk at its start.
LEMMA StartKeepsWay ==
    ASSUME TenantInv, WalkTypes, WalkTypes', NEW actor \in Merchants, NEW s \in Stores,
           StartWalk(actor, s), UNCHANGED tenantVars
    PROVE  WalkInv'
<1>1. /\ merchants \in Hierarchies /\ stores[s] # None /\ stores[s].active
      /\ merchants' = merchants /\ stores' = stores
  BY DEF TenantInv, TenantTypes, Hierarchies, StartWalk, tenantVars, tenantTables
<1>2. stores[s].merchant \in Merchants
  BY <1>1 DEF TenantInv, TenantTypes, StoreRow
<1> DEFINE m == stores[s].merchant
           w == [actor |-> actor, store |-> s, at |-> m, visited |-> {}, depth |-> 0,
                 allowed |-> InScope(actor, s), overtaken |-> 0]
<1>3. walk' = w
  BY DEF StartWalk
<1>4. w \in Walk
  <2>1. InScope(actor, s) \in BOOLEAN
    BY DEF InScope
  <2>2. 0 \in 0 .. Depth
    BY DepthAssumption
  <2> QED
    BY <1>2, <2>1, <2>2 DEF Walk
<1>5. CameFrom(merchants, w, m)
  <2>1. 0 .. 0 - 1 = {} /\ 0 .. 0 - 2 = {}
    OBVIOUS
  <2> QED
    BY <2>1 DEF CameFrom
<1>6. w.allowed <=> Arrives(merchants, w)
  <2>1. UnderIn(merchants, w.actor, m, Depth - 1) <=> Arrives(merchants, w)
    BY <1>1, <1>2, <1>4, <1>5, ArrivesFromStart
  <2>2. InScope(actor, s) <=> UnderIn(merchants, actor, m, Depth - 1)
    BY <1>1, UnderIsUnderIn DEF InScope
  <2> QED
    BY <2>1, <2>2
<1>7. w.visited = {} /\ w.overtaken = 0 /\ w.store = s
  OBVIOUS
<1> HIDE DEF w
<1> QED
  BY <1>1, <1>3, <1>5, <1>6, <1>7 DEF WalkInv, WalkOf

LEMMA ClimbKeepsWay ==
    ASSUME TenantInv, WalkTypes, WalkInv, Climb, UNCHANGED tenantVars
    PROVE  WalkInv'
<1>1. /\ merchants \in Hierarchies /\ merchants' = merchants /\ stores' = stores
      /\ stores \in [Stores -> StoreRow \cup {None}]
  BY DEF TenantInv, TenantTypes, Hierarchies, tenantVars, tenantTables
<1>2. walk \in Walk /\ WalkOf
  BY DEF WalkTypes, WalkInv, Climb
<1>3. /\ walk.at \in Merchants /\ walk.depth < Depth /\ walk.at \notin walk.visited
      /\ walk.at # walk.actor
  BY <1>2, DepthAssumption DEF Climb, Exhausted, Arrived, Walk
<1>4. walk' = Stepped(merchants, walk)
  BY DEF Climb, Stepped, ActiveParent
<1>5. /\ walk'.actor = walk.actor /\ walk'.store = walk.store
      /\ walk'.visited = walk.visited \cup {walk.at}
      /\ walk'.allowed = walk.allowed /\ walk'.overtaken = walk.overtaken
  BY <1>2, <1>4 DEF Stepped, Walk
<1>6. Arrives(merchants', walk') <=> Arrives(merchants, walk)
  BY <1>1, <1>2, <1>3, <1>4, StepArrives
<1>7. ASSUME walk.overtaken = 0
      PROVE  CameFrom(merchants', walk', stores[walk.store].merchant)
  <2>1. stores[walk.store].merchant \in Merchants
    BY <1>1, <1>2 DEF WalkOf, StoreRow, Walk
  <2> QED
    BY <1>1, <1>2, <1>3, <1>4, <1>7, <2>1, StepCameFrom DEF WalkOf
<1>8. InScope(walk.actor, walk.store)' <=> InScope(walk.actor, walk.store)
  BY <1>1, <1>5 DEF InScope, Under, Above
<1> QED
  BY <1>1, <1>2, <1>3, <1>5, <1>6, <1>7, <1>8 DEF WalkInv, WalkOf

\* A change behind the walk leaves its way as it was found at the start; one ahead
\* of it makes it the way there is now.
LEMMA ChangeKeepsWay ==
    ASSUME TenantInv, TenantInv', WalkTypes, WalkInv, walk # None, ByHand, Overtake
    PROVE  WalkInv'
<1>1. /\ merchants \in Hierarchies /\ merchants' \in Hierarchies
      /\ stores \in [Stores -> StoreRow \cup {None}] /\ stores' \in [Stores -> StoreRow \cup {None}]
  BY DEF TenantInv, TenantTypes, Hierarchies
<1>2. walk \in Walk /\ WalkOf /\ walk.store \in Stores /\ walk.overtaken \in 0 .. 2
  BY DEF WalkTypes, WalkInv, Walk
<1>3. PICK actor, s, m : actor = walk.actor /\ s = walk.store /\ m = stores[s].merchant
  OBVIOUS
<1>4. actor \in Merchants /\ s \in Stores /\ stores[s] # None /\ m \in Merchants
  BY <1>1, <1>2, <1>3 DEF WalkOf, StoreRow, Walk
<1>5. /\ walk'.actor = actor /\ walk'.store = s /\ walk'.visited = walk.visited
      /\ walk'.at = walk.at /\ walk'.depth = walk.depth
      /\ walk'.allowed = walk.allowed
      /\ walk'.overtaken = IF walk.overtaken = 2 THEN 2 ELSE walk.overtaken + 1
  BY <1>2, <1>3 DEF Overtake, Walk
<1>6. \A h : Arrives(h, walk') <=> Arrives(h, walk)
  BY <1>3, <1>5 DEF Arrives
<1>7. /\ stores'[s] # None /\ stores'[s].merchant = m
      /\ \/ merchants' = merchants
         \/ /\ stores' = stores
            /\ \E x \in Merchants : \A y \in Merchants \ {x} : merchants'[y] = merchants[y]
  <2>1. ASSUME NEW x \in Merchants, NEW parent \in Merchants \cup {None}, NEW active \in BOOLEAN,
               ChangeMerchant(x, parent, active)
        PROVE  /\ stores' = stores
               /\ \A y \in Merchants \ {x} : merchants'[y] = merchants[y]
    BY <1>1, <2>1 DEF ChangeMerchant, Hierarchies
  <2>2. ASSUME NEW r \in Stores, NEW active \in BOOLEAN, ChangeStore(r, active)
        PROVE  /\ stores'[s] # None /\ stores'[s].merchant = m
               /\ merchants' = merchants
    <3>1. stores' = [stores EXCEPT ![r].active = active] /\ merchants' = merchants
      BY <2>2 DEF ChangeStore
    <3>2. CASE r = s
      <4>1. stores'[s] = [stores[s] EXCEPT !.active = active] /\ stores[s] \in StoreRow
        BY <1>1, <1>4, <3>1, <3>2
      <4>2. stores'[s] \in StoreRow /\ stores'[s].merchant = m
        BY <1>3, <4>1 DEF StoreRow
      <4> QED
        BY <3>1, <4>2, RowsAssumption
    <3>3. CASE r # s
      BY <1>1, <1>3, <1>4, <3>1, <3>3
    <3> QED
      BY <3>2, <3>3
  <2>3. ASSUME NEW x \in Merchants, stores' = stores,
               \A y \in Merchants \ {x} : merchants'[y] = merchants[y]
        PROVE  /\ stores'[s] # None /\ stores'[s].merchant = m
               /\ \E z \in Merchants : \A y \in Merchants \ {z} : merchants'[y] = merchants[y]
    BY <1>3, <1>4, <2>3
  <2>4. CASE \E x \in Merchants, parent \in Merchants \cup {None}, active \in BOOLEAN :
                ChangeMerchant(x, parent, active)
    BY <2>1, <2>3, <2>4
  <2>5. CASE \E r \in Stores, active \in BOOLEAN : ChangeStore(r, active)
    BY <2>2, <2>5
  <2> QED
    BY <2>4, <2>5 DEF ByHand
<1>8. ASSUME walk.overtaken = 0
      PROVE  \/ walk.allowed <=> Arrives(merchants', walk)
             \/ InScope(actor, s)' <=> Arrives(merchants', walk)
  <2>1. /\ CameFrom(merchants, walk, m) /\ stores[s].active
        /\ walk.allowed <=> Arrives(merchants, walk)
        /\ walk.actor \notin walk.visited
    BY <1>2, <1>3, <1>8 DEF WalkOf
  <2>2. CASE merchants' = merchants
    BY <2>1, <2>2
  <2>3. ASSUME stores' = stores, NEW x \in Merchants,
               \A y \in Merchants \ {x} : merchants'[y] = merchants[y], x \in walk.visited
        PROVE  walk.allowed <=> Arrives(merchants', walk)
    <3>1. \A y \in Merchants \ walk.visited : merchants'[y] = merchants[y]
      BY <2>3
    <3>2. Arrives(merchants', walk) <=> Arrives(merchants, walk)
      BY <1>1, <1>2, <3>1, ArrivesElsewhere
    <3> QED
      BY <2>1, <3>2
  <2>4. ASSUME stores' = stores, NEW x \in Merchants,
               \A y \in Merchants \ {x} : merchants'[y] = merchants[y], x \notin walk.visited
        PROVE  InScope(actor, s)' <=> Arrives(merchants', walk)
    <3>1. \A y \in walk.visited : merchants'[y] = merchants[y]
      BY <2>1, <2>4 DEF CameFrom
    <3>2. CameFrom(merchants', walk, m)
      BY <1>2, <2>1, <3>1, CameFromElsewhere
    <3>3. UnderIn(merchants', actor, m, Depth - 1) <=> Arrives(merchants', walk)
      BY <1>1, <1>2, <1>3, <1>4, <2>1, <3>2, ArrivesFromStart
    <3>4. InScope(actor, s)' <=> UnderIn(merchants', actor, m, Depth - 1)
      BY <1>3, <1>4, <2>1, <2>4, ScopeIsUnderIn
    <3> QED
      BY <3>3, <3>4
  <2> QED
    BY <1>7, <2>2, <2>3, <2>4
<1>9. walk'.overtaken # 0 /\ (walk'.overtaken = 1 => walk.overtaken = 0)
  BY <1>2, <1>5
<1>10. InScope(walk.actor, walk.store)' <=> InScope(actor, s)'
  BY <1>5 DEF InScope, Under, Above
<1>11. walk'.overtaken = 1 => \/ walk'.allowed <=> Arrives(merchants', walk')
                              \/ InScope(walk.actor, walk.store)' <=> Arrives(merchants', walk')
  BY <1>5, <1>6, <1>8, <1>9, <1>10
<1>12. walk'.actor \notin walk'.visited
  BY <1>2, <1>3, <1>5 DEF WalkOf
<1> QED
  BY <1>5, <1>7, <1>9, <1>11, <1>12 DEF WalkInv, WalkOf

LEMMA WalkInvPreserved ==
    ASSUME TenantInv, TenantInv', WalkTypes, WalkTypes', WalkInv, [OnboardingNext]_onboardingVars
    PROVE  WalkInv'
<1>1. CASE walk' = walk /\ UNCHANGED tenantVars
  <2>1. merchants' = merchants /\ stores' = stores
    BY <1>1 DEF tenantVars, tenantTables
  <2>2. WalkOf' <=> WalkOf
    BY <1>1, <2>1 DEF WalkOf, InScope, Under, Above
  <2> QED
    BY <1>1, <2>2 DEF WalkInv
<1>2. CASE walk' = None
  BY <1>2 DEF WalkInv
<1>3. CASE ByHand /\ Overtake
  BY <1>2, <1>3, ChangeKeepsWay DEF Overtake
<1>4. CASE ScopeNext /\ UNCHANGED tenantVars
  BY <1>2, <1>4, StartKeepsWay, ClimbKeepsWay DEF ScopeNext, Forbid, Issue
<1> QED
  BY <1>1, <1>2, <1>3, <1>4 DEF OnboardingNext, onboardingVars, scopeVars

LEMMA WalkInvAlways == OnboardingSafety => [](WalkTypes /\ WalkInv)
<1>1. OnboardingInit => WalkTypes /\ WalkInv
  BY DEF OnboardingInit, ScopeInit, WalkTypes, WalkInv
<1>2. /\ TenantInv /\ TenantInv' /\ WalkTypes /\ WalkInv /\ [OnboardingNext]_onboardingVars
      => WalkTypes' /\ WalkInv'
  BY WalkTypesPreserved, WalkInvPreserved
<1> QED
  BY <1>1, <1>2, TenantInvAlways, PTL DEF OnboardingSafety

\* A walk that ends has come to its end.
LEMMA WalkEnds ==
    ASSUME TenantInv, WalkTypes, WalkInv, [OnboardingNext]_onboardingVars,
           walk # None, walk' = None
    PROVE  /\ walk \in Walk /\ WalkOf
           /\ Arrived <=> Arrives(merchants, walk)
<1>1. walk \in Walk /\ WalkOf
  BY DEF WalkTypes, WalkInv
<1>2. Exhausted \/ Arrived
  <2>1. ~Climb /\ ~Overtake
    BY ClimbGoesOn, OvertakeGoesOn, NoWalkAssumption DEF TenantInv, TenantTypes
  <2> QED
    BY <2>1 DEF OnboardingNext, onboardingVars, scopeVars, ScopeNext, StartWalk, Forbid, Issue
<1>3. walk.actor \notin walk.visited
  BY <1>1 DEF WalkOf
<1> QED
  BY <1>1, <1>2, <1>3, EndsAsItArrives

\* authorizedMerchantIds: whatever the hierarchy, cycles and all, the levels of
\* its loop add up to the actor and those that are under it through active
\* merchants, at most Depth steps below.
THEOREM ListingIsRight == OnboardingSafety => []ListingIsSubtree
<1>1. TenantInv => ListingIsSubtree
  BY ListingHolds DEF TenantInv, TenantTypes, Hierarchies
<1> QED
  BY <1>1, TenantInvAlways, PTL

\* authorizeStore: with one change by hand during the walk its answer is that of
\* the hierarchy at the start or at the end, wherever the walk was when it came.
THEOREM AnswersHold == OnboardingSafety => AnswerHoldsAtSomeTime
<1>1. ASSUME TenantInv, WalkTypes, WalkInv, [OnboardingNext]_onboardingVars,
             walk # None, walk' = None, walk.overtaken <= 1
      PROVE  Arrived \in {walk.allowed, InScope(walk.actor, walk.store)}
  <2>1. walk \in Walk /\ WalkOf /\ (Arrived <=> Arrives(merchants, walk))
    BY <1>1, WalkEnds
  <2>2. \/ walk.allowed <=> Arrives(merchants, walk)
        \/ InScope(walk.actor, walk.store) <=> Arrives(merchants, walk)
    <3>1. walk.overtaken \in 0 .. 2
      BY <2>1 DEF Walk
    <3>2. walk.overtaken = 0 \/ walk.overtaken = 1
      BY <1>1, <3>1
    <3> QED
      BY <2>1, <3>2 DEF WalkOf
  <2>3. walk.allowed \in BOOLEAN /\ InScope(walk.actor, walk.store) \in BOOLEAN /\ Arrived \in BOOLEAN
    BY <2>1 DEF Walk, InScope, Arrived
  <2>4. Arrived = walk.allowed \/ Arrived = InScope(walk.actor, walk.store)
    BY <2>1, <2>2, <2>3, Zenon
  <2> QED
    BY <2>4
<1>2. TenantInv /\ WalkTypes /\ WalkInv /\ [OnboardingNext]_onboardingVars =>
          [walk # None /\ walk' = None /\ walk.overtaken <= 1
               => Arrived \in {walk.allowed, InScope(walk.actor, walk.store)}]_walk
  BY <1>1
<1> QED
  BY <1>2, TenantInvAlways, WalkInvAlways, PTL DEF OnboardingSafety, AnswerHoldsAtSomeTime

\* authorizeStore and the listing: undisturbed, a store may be acted for if and
\* only if it is listed, but for those of the listing's last level.
THEOREM WalksFindTheSame == OnboardingSafety => WalksAgree
<1>1. ASSUME TenantInv, WalkTypes, WalkInv, [OnboardingNext]_onboardingVars,
             walk # None, walk' = None, walk.overtaken = 0
      PROVE  /\ Arrived => walk.store \in listStores(walk.actor)
             /\ walk.store \in listStores(walk.actor) =>
                    Arrived \/ Above(stores[walk.store].merchant, Depth) = walk.actor
  <2> DEFINE m == stores[walk.store].merchant
  <2>1. /\ walk \in Walk /\ WalkOf /\ (Arrived <=> Arrives(merchants, walk))
        /\ merchants \in Hierarchies /\ stores \in [Stores -> StoreRow \cup {None}]
    BY <1>1, WalkEnds DEF TenantInv, TenantTypes, Hierarchies
  <2>2. /\ walk.store \in Stores /\ walk.actor \in Merchants
        /\ stores[walk.store] # None /\ stores[walk.store].active
        /\ CameFrom(merchants, walk, m) /\ walk.actor \notin walk.visited
    BY <1>1, <2>1 DEF WalkOf, Walk
  <2>3. m \in Merchants
    BY <2>1, <2>2 DEF StoreRow
  <2>4. Arrived <=> UnderIn(merchants, walk.actor, m, Depth - 1)
    BY <2>1, <2>2, <2>3, ArrivesFromStart
  <2>5. walk.store \in listStores(walk.actor) <=> UnderIn(merchants, walk.actor, m, Depth)
    <3>1. authorizedMerchantIds(walk.actor) = Reached(walk.actor, Depth)
      BY <2>1, <2>2, ListingIsReached
    <3> QED
      BY <2>2, <2>3, <3>1 DEF listStores, Reached
  <2>6. UnderIn(merchants, walk.actor, m, Depth - 1) => UnderIn(merchants, walk.actor, m, Depth)
    <3>1. 0 .. Depth - 1 \subseteq 0 .. Depth
      BY DepthAssumption
    <3> QED
      BY <3>1 DEF UnderIn
  <2>7. ASSUME UnderIn(merchants, walk.actor, m, Depth), ~UnderIn(merchants, walk.actor, m, Depth - 1)
        PROVE  Above(m, Depth) = walk.actor
    <3>1. PICK k \in 0 .. Depth : /\ Up(merchants, m, k) = walk.actor
                                 /\ \A j \in 0 .. k - 1 : merchants[Up(merchants, m, j)].active
      BY <2>7 DEF UnderIn
    <3>2. k \notin 0 .. Depth - 1
      BY <2>7, <3>1 DEF UnderIn
    <3>3. k = Depth
      BY <3>1, <3>2, DepthAssumption
    <3> QED
      BY <3>1, <3>3, AboveIsUp
  <2> QED
    BY <2>4, <2>5, <2>6, <2>7
<1>2. TenantInv /\ WalkTypes /\ WalkInv /\ [OnboardingNext]_onboardingVars =>
          [walk # None /\ walk' = None /\ walk.overtaken = 0 =>
               /\ Arrived => walk.store \in listStores(walk.actor)
               /\ walk.store \in listStores(walk.actor) =>
                      Arrived \/ Above(stores[walk.store].merchant, Depth) = walk.actor]_walk
  BY <1>1
<1> QED
  BY <1>2, TenantInvAlways, WalkInvAlways, PTL DEF OnboardingSafety, WalksAgree
====
