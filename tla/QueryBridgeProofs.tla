-------------------------- MODULE QueryBridgeProofs --------------------------
(****************************************************************************)
(* The registries of the hooks, for every number of statements and          *)
(* addresses: an inductive invariant and what follows from it.              *)
(****************************************************************************)
EXTENDS QueryBridge, FiniteSetTheorems, TLAPS

\* The program points of a query between the planner and its end.
Live == {"planned", "started", "returning", "ran"}

\* The utility statements in progress.
Utilities == {t \in Statements : Open(t) /\ stmt[t].kind = "utility"}

\* The nesting counter counts them.
NestingCounts == pg_yaap_utility_nesting = Cardinality(Utilities)

\* A statement at a point of a query is a query, and none before it is planned.
KindMatchesPoint ==
    \A s \in Statements :
        /\ At(s, "idle") => stmt[s].kind = "other"
        /\ At(s, "utility") => stmt[s].kind = "utility"
        /\ stmt[s].pc \in Live => stmt[s].kind # "utility"

\* An address belongs to one statement, and a statement keeps none it has not
\* reached or has given back.
AddressesAreOwned ==
    /\ \A s, t \in Statements : s # t =>
          /\ stmt[s].pstmt \cap stmt[t].pstmt = {}
          /\ stmt[s].desc \cap stmt[t].desc = {}
    /\ \A s \in Statements :
          /\ stmt[s].pc \in {"idle", "utility", "ended"} => stmt[s].pstmt = {}
          /\ stmt[s].pc \in {"idle", "utility", "planned", "ended"} => stmt[s].desc = {}
          /\ stmt[s].pc = "started" => stmt[s].desc # {}

\* What a claimed SELECT relies on.
Trusted(s) == stmt[s].claimed /\ ~stmt[s].copied /\ stmt[s].kind = "select"

FindsItsEntries(s) ==
    /\ At(s, "idle") => ~stmt[s].claimed /\ stmt[s].result = "none"
    /\ At(s, "utility") => ~Trusted(s)
    /\ Trusted(s) =>
          /\ stmt[s].pc \in Live => \A a \in stmt[s].pstmt : plans[a] = s
          /\ At(s, "planned") => pg_yaap_enabled
          /\ At(s, "started") => /\ \A d \in stmt[s].desc : state_table[d] = s
                                 /\ bundle_of[s] = s
          /\ stmt[s].result \in {"none", "own"}

ClaimedFindsItsEntries == \A s \in Statements : FindsItsEntries(s)

\* An entry that names a statement that was not aborted is at its address.
PlanEntriesName(s) ==
    \A a \in PlanAddresses : plans[a] = s =>
        /\ stmt[s].pc \notin {"idle", "utility"}
        /\ stmt[s].pc \in Live \cup {"ended"} /\ ~stmt[s].copied
           => a \in stmt[s].pstmt

StateEntriesName(s) ==
    \A d \in DescAddresses : state_table[d] = s =>
        /\ stmt[s].pc \notin {"idle", "utility", "planned"}
        /\ stmt[s].pc \in Live \cup {"ended"} => d \in stmt[s].desc

EntriesNameTheirOwner ==
    \A s \in Statements : PlanEntriesName(s) /\ StateEntriesName(s)

IInv ==
    /\ TypeOK /\ NestingCounts /\ KindMatchesPoint /\ AddressesAreOwned
    /\ ClaimedFindsItsEntries /\ EntriesNameTheirOwner

------------------------------------------------------------------------------
(* The initial state. *)

LEMMA InitIInv == Init => IInv
<1> SUFFICES ASSUME Init PROVE IInv
  OBVIOUS
<1> USE BridgeAssumption
<1>1. TypeOK
  BY DEF Init, TypeOK, Points, Kinds, QueryKinds
<1>2. NestingCounts
  <2>1. Utilities = {}
    BY DEF Init, Utilities, Open
  <2> QED
    BY <2>1, FS_EmptySet DEF Init, NestingCounts
<1>3. KindMatchesPoint
  BY DEF Init, KindMatchesPoint, At, Live
<1>4. AddressesAreOwned
  BY DEF Init, AddressesAreOwned
<1>5. ClaimedFindsItsEntries
  BY DEF Init, ClaimedFindsItsEntries, FindsItsEntries, Trusted, At, Live
<1>6. EntriesNameTheirOwner
  BY DEF Init, EntriesNameTheirOwner, PlanEntriesName, StateEntriesName, Live
<1> QED
  BY <1>1, <1>2, <1>3, <1>4, <1>5, <1>6 DEF IInv

------------------------------------------------------------------------------
(* The steps.  Everything but the nesting counter is set arithmetic. *)

\* The parts of TypeOK besides the counter.
TypesOfTables ==
    /\ pg_yaap_enabled \in BOOLEAN
    /\ plans \in [PlanAddresses -> Statements \cup {NoStatement}]
    /\ state_table \in [DescAddresses -> Statements \cup {NoStatement}]
    /\ bundle_of \in [Statements -> Statements \cup {NoStatement}]
    /\ PG_exception_stack \in {"caller", "gone"}

StatementRecord ==
    [pc : Points, kind : Kinds, claimed : BOOLEAN, copied : BOOLEAN,
     pstmt : SUBSET PlanAddresses, desc : SUBSET DescAddresses,
     result : {"none", "standard", "own", "foreign"}]

TypeOfStmt == stmt \in [Statements -> StatementRecord]

LEMMA TablesStep ==
    ASSUME TypeOK, Next
    PROVE  TypesOfTables'
<1> USE DEF TypesOfTables
<1>0. TypesOfTables
  BY DEF TypeOK
<1>1. CASE SetEnabled
  BY <1>0, <1>1 DEF SetEnabled
<1>2. ASSUME NEW s \in Statements, BeginUtility(s) \/ EndUtility(s)
      PROVE  TypesOfTables'
  BY <1>0, <1>2 DEF BeginUtility, EndUtility
<1>3. ASSUME NEW s \in Statements, NEW k \in QueryKinds, Plan(s, k)
      PROVE  TypesOfTables'
  BY <1>0, <1>3 DEF Plan, RegisterPlan, FreePlanAddresses
<1>4. ASSUME NEW s \in Statements, ExecutorStart(s)
      PROVE  TypesOfTables'
  <2>1. PICK d \in DescAddresses, a \in PlanAddresses :
           /\ IF HasTupdesc(plans[a]) /\ pg_yaap_enabled
              THEN /\ bundle_of' = [bundle_of EXCEPT ![s] = plans[a]]
                   /\ state_table' = [state_table EXCEPT ![d] = s]
              ELSE UNCHANGED <<bundle_of, state_table>>
           /\ UNCHANGED <<pg_yaap_enabled, plans, PG_exception_stack>>
    BY <1>4 DEF ExecutorStart, FreeDescAddresses, TypeOK
  <2> QED
    BY <1>0, <2>1
<1>5. ASSUME NEW s \in Statements, RunStandard(s) \/ RunPipeline(s) \/ RunFailsEarly(s)
                                    \/ PortalReturns(s)
      PROVE  TypesOfTables'
  BY <1>0, <1>5 DEF RunStandard, RunPipeline, RunFailsEarly, PortalReturns
<1>6. ASSUME NEW s \in Statements, ExecutorEnd(s)
      PROVE  TypesOfTables'
  BY <1>0, <1>6 DEF ExecutorEnd, Unregister
<1>7. ASSUME NEW s \in Statements, Fails(s) \/ Unwind(s)
      PROVE  TypesOfTables'
  BY <1>0, <1>7 DEF Fails, Unwind
<1> QED
  BY <1>1, <1>2, <1>3, <1>4, <1>5, <1>6, <1>7 DEF Next

LEMMA StmtStep ==
    ASSUME TypeOK, Next
    PROVE  TypeOfStmt'
<1> USE DEF TypeOfStmt, StatementRecord, Points, Kinds, QueryKinds
<1>0. TypeOfStmt
  BY DEF TypeOK
<1>1. CASE SetEnabled
  BY <1>0, <1>1 DEF SetEnabled
<1>2. ASSUME NEW s \in Statements, BeginUtility(s) \/ EndUtility(s)
      PROVE  TypeOfStmt'
  BY <1>0, <1>2 DEF BeginUtility, EndUtility
<1>3. ASSUME NEW s \in Statements, NEW k \in QueryKinds, Plan(s, k)
      PROVE  TypeOfStmt'
  <2>1. PICK claims \in BOOLEAN, copied \in BOOLEAN, b \in PlanAddresses :
           stmt' = [stmt EXCEPT ![s].pc = "planned", ![s].kind = k,
                       ![s].claimed = claims, ![s].copied = copied,
                       ![s].pstmt = {b}]
    BY <1>3, BridgeAssumption DEF Plan, FreePlanAddresses
  <2>2. [stmt[s] EXCEPT !.pc = "planned", !.kind = k, !.claimed = claims,
                        !.copied = copied, !.pstmt = {b}] \in StatementRecord
    BY <1>0
  <2>3. stmt' = [stmt EXCEPT ![s] = [stmt[s] EXCEPT !.pc = "planned", !.kind = k,
                    !.claimed = claims, !.copied = copied, !.pstmt = {b}]]
    BY <1>0, <2>1, Zenon
  <2> HIDE DEF StatementRecord
  <2> QED
    BY <1>0, <2>2, <2>3
<1>4. ASSUME NEW s \in Statements, ExecutorStart(s)
      PROVE  TypeOfStmt'
  BY <1>0, <1>4 DEF ExecutorStart, FreeDescAddresses
<1>5. ASSUME NEW s \in Statements, RunStandard(s) \/ RunPipeline(s) \/ RunFailsEarly(s)
                                    \/ PortalReturns(s)
      PROVE  TypeOfStmt'
  BY <1>0, <1>5 DEF RunStandard, RunPipeline, RunFailsEarly, PortalReturns
<1>6. ASSUME NEW s \in Statements, ExecutorEnd(s)
      PROVE  TypeOfStmt'
  <2>1. [stmt[s] EXCEPT !.pc = "ended", !.pstmt = {}, !.desc = {}]
           \in StatementRecord
    BY <1>0
  <2>2. stmt' = [stmt EXCEPT ![s] = [stmt[s] EXCEPT !.pc = "ended", !.pstmt = {},
                                                    !.desc = {}]]
    BY <1>6, Zenon DEF ExecutorEnd
  <2> HIDE DEF StatementRecord
  <2> QED
    BY <1>0, <2>1, <2>2
<1>7. ASSUME NEW s \in Statements, Fails(s)
      PROVE  TypeOfStmt'
  BY <1>0, <1>7 DEF Fails
<1>8. ASSUME NEW s \in Statements, Unwind(s)
      PROVE  TypeOfStmt'
  <2>1. ASSUME NEW t \in Statements
        PROVE  [stmt[t] EXCEPT !.pc = "aborted", !.pstmt = {}, !.desc = {}]
                  \in StatementRecord
    BY <1>0
  <2> HIDE DEF StatementRecord
  <2> QED
    BY <1>0, <1>8, <2>1 DEF Unwind
<1> QED
  BY <1>1, <1>2, <1>3, <1>4, <1>5, <1>6, <1>7, <1>8 DEF Next

\* What a step of one statement does to the statements, field by field.
Others(s) == \A t \in Statements \ {s} : stmt'[t] = stmt[t]

Keeps(s) ==
    /\ Others(s)
    /\ stmt'[s].kind = stmt[s].kind
    /\ stmt'[s].claimed = stmt[s].claimed
    /\ stmt'[s].copied = stmt[s].copied

KeepsAddresses(s) ==
    /\ Keeps(s)
    /\ stmt'[s].pstmt = stmt[s].pstmt
    /\ stmt'[s].desc = stmt[s].desc

LEMMA UtilityEffect ==
    ASSUME TypeOK, NEW s \in Statements, BeginUtility(s) \/ EndUtility(s)
    PROVE  /\ Others(s)
           /\ stmt'[s].claimed = stmt[s].claimed
           /\ stmt'[s].copied = stmt[s].copied
           /\ stmt'[s].pstmt = stmt[s].pstmt
           /\ stmt'[s].desc = stmt[s].desc
           /\ stmt'[s].result = stmt[s].result
           /\ UNCHANGED <<pg_yaap_enabled, plans, state_table, bundle_of>>
           /\ \/ /\ BeginUtility(s) /\ stmt[s].pc = "idle"
                 /\ stmt'[s].pc = "utility" /\ stmt'[s].kind = "utility"
              \/ /\ EndUtility(s) /\ stmt[s].pc = "utility"
                 /\ stmt'[s].pc = "ended" /\ stmt'[s].kind = stmt[s].kind
BY DEF TypeOK, BeginUtility, EndUtility, At, Others

LEMMA PlanEffect ==
    ASSUME TypeOK, NEW s \in Statements, NEW k \in QueryKinds, Plan(s, k)
    PROVE  /\ Others(s)
           /\ stmt[s].pc = "idle" /\ stmt'[s].pc = "planned"
           /\ stmt'[s].kind = k /\ k # "utility"
           /\ stmt'[s].desc = stmt[s].desc
           /\ stmt'[s].result = stmt[s].result
           /\ stmt'[s].claimed = (pg_yaap_utility_nesting = 0 /\ pg_yaap_enabled
                                  /\ k \in {"select", "no_columns"})
           /\ stmt'[s].claimed => pg_yaap_enabled
           /\ UNCHANGED <<pg_yaap_enabled, state_table, bundle_of>>
           /\ \E a \in FreePlanAddresses, b \in FreePlanAddresses :
                 /\ stmt'[s].pstmt = {b}
                 /\ ~stmt'[s].copied => a = b
                 /\ \A x \in PlanAddresses :
                       plans'[x] = IF stmt'[s].claimed /\ x = a THEN s ELSE plans[x]
<1> DEFINE claims == pg_yaap_utility_nesting = 0 /\ pg_yaap_enabled
                     /\ k \in {"select", "no_columns"}
<1>1. PICK a \in FreePlanAddresses, b \in FreePlanAddresses, copied \in BOOLEAN :
         /\ ~copied => a = b
         /\ plans' = IF claims THEN [plans EXCEPT ![a] = s] ELSE plans
         /\ stmt' = [stmt EXCEPT ![s].pc = "planned", ![s].kind = k,
                         ![s].claimed = claims, ![s].copied = copied,
                         ![s].pstmt = {b}]
  BY BridgeAssumption DEF Plan, RegisterPlan
<1>2. stmt[s].pc = "idle" /\ UNCHANGED <<pg_yaap_enabled, state_table, bundle_of>>
  BY DEF Plan, At
<1>3. k # "utility"
  BY DEF QueryKinds
<1>4. /\ Others(s)
      /\ stmt'[s].pc = "planned" /\ stmt'[s].kind = k
      /\ stmt'[s].desc = stmt[s].desc /\ stmt'[s].result = stmt[s].result
      /\ stmt'[s].claimed = claims /\ stmt'[s].copied = copied
      /\ stmt'[s].pstmt = {b}
  <2> HIDE DEF claims
  <2> QED
    BY <1>1 DEF TypeOK, Others
<1>5. \A x \in PlanAddresses : plans'[x] = IF claims /\ x = a THEN s ELSE plans[x]
  <2> HIDE DEF claims
  <2> QED
    BY <1>1 DEF TypeOK
<1>6. stmt'[s].claimed => pg_yaap_enabled
  BY <1>4, Zenon
<1> QED
  BY <1>1, <1>2, <1>3, <1>4, <1>5, <1>6

LEMMA StartEffect ==
    ASSUME TypeOK, NEW s \in Statements, ExecutorStart(s)
    PROVE  /\ Keeps(s)
           /\ stmt[s].pc = "planned" /\ stmt'[s].pc = "started"
           /\ stmt'[s].pstmt = stmt[s].pstmt
           /\ stmt'[s].result = stmt[s].result
           /\ UNCHANGED <<pg_yaap_enabled, plans>>
           /\ \E d \in FreeDescAddresses, a \in stmt[s].pstmt :
                 /\ stmt'[s].desc = {d}
                 /\ \A x \in DescAddresses :
                       state_table'[x] = IF HasTupdesc(plans[a]) /\ pg_yaap_enabled
                                            /\ x = d
                                         THEN s ELSE state_table[x]
                 /\ \A x \in Statements :
                       bundle_of'[x] = IF HasTupdesc(plans[a]) /\ pg_yaap_enabled
                                          /\ x = s
                                       THEN plans[a] ELSE bundle_of[x]
<1>1. PICK d \in FreeDescAddresses, a \in stmt[s].pstmt :
         /\ IF HasTupdesc(plans[a]) /\ pg_yaap_enabled
            THEN /\ bundle_of' = [bundle_of EXCEPT ![s] = plans[a]]
                 /\ state_table' = [state_table EXCEPT ![d] = s]
            ELSE UNCHANGED <<bundle_of, state_table>>
         /\ stmt' = [stmt EXCEPT ![s].pc = "started", ![s].desc = {d}]
  BY DEF ExecutorStart
<1>2. stmt[s].pc = "planned" /\ UNCHANGED <<pg_yaap_enabled, plans>>
  BY DEF ExecutorStart, At
<1>3. /\ Keeps(s) /\ stmt'[s].pc = "started" /\ stmt'[s].pstmt = stmt[s].pstmt
      /\ stmt'[s].result = stmt[s].result /\ stmt'[s].desc = {d}
  BY <1>1 DEF TypeOK, Keeps, Others
<1>4. \A x \in DescAddresses :
         state_table'[x] = IF HasTupdesc(plans[a]) /\ pg_yaap_enabled /\ x = d
                           THEN s ELSE state_table[x]
  BY <1>1 DEF TypeOK
<1>5. \A x \in Statements :
         bundle_of'[x] = IF HasTupdesc(plans[a]) /\ pg_yaap_enabled /\ x = s
                         THEN plans[a] ELSE bundle_of[x]
  BY <1>1 DEF TypeOK
<1> QED
  BY <1>1, <1>2, <1>3, <1>4, <1>5

LEMMA RunEffect ==
    ASSUME TypeOK, NEW s \in Statements,
           RunStandard(s) \/ RunPipeline(s) \/ RunFailsEarly(s) \/ PortalReturns(s)
    PROVE  /\ KeepsAddresses(s)
           /\ stmt[s].pc \in {"started", "returning"}
           /\ stmt'[s].pc \in {"ran", "returning", "raise"}
           /\ \/ stmt'[s].result = stmt[s].result
              \/ /\ stmt[s].pc = "started"
                 /\ \/ LookupState(s) = NoStatement
                    \/ /\ LookupState(s) # NoStatement
                       /\ bundle_of[LookupState(s)] = s
                       /\ stmt'[s].result = "own"
                    \/ /\ LookupState(s) # NoStatement
                       /\ bundle_of[LookupState(s)] # s
           /\ UNCHANGED <<pg_yaap_enabled, plans, state_table, bundle_of>>
<1>1. CASE RunStandard(s)
  BY <1>1 DEF TypeOK, RunStandard, KeepsAddresses, Keeps, Others, At
<1>2. CASE RunPipeline(s)
  <2> DEFINE result == IF bundle_of[LookupState(s)] = s THEN "own" ELSE "foreign"
  <2>1. /\ stmt[s].pc = "started" /\ LookupState(s) # NoStatement
        /\ stmt' = [stmt EXCEPT ![s].pc = "returning", ![s].result = result]
        /\ UNCHANGED <<pg_yaap_enabled, plans, state_table, bundle_of>>
    BY <1>2 DEF RunPipeline, At
  <2>2. /\ KeepsAddresses(s) /\ stmt'[s].pc = "returning"
        /\ stmt'[s].result = result
    <3> HIDE DEF result
    <3> QED
      BY <2>1 DEF TypeOK, KeepsAddresses, Keeps, Others
  <2> QED
    BY <2>1, <2>2
<1>3. CASE RunFailsEarly(s)
  BY <1>3 DEF TypeOK, RunFailsEarly, KeepsAddresses, Keeps, Others, At
<1>4. CASE PortalReturns(s)
  BY <1>4 DEF TypeOK, PortalReturns, KeepsAddresses, Keeps, Others, At
<1> QED
  BY <1>1, <1>2, <1>3, <1>4

LEMMA EndEffect ==
    ASSUME TypeOK, NEW s \in Statements, ExecutorEnd(s)
    PROVE  /\ Keeps(s)
           /\ stmt[s].pc \in {"started", "ran"} /\ stmt'[s].pc = "ended"
           /\ stmt'[s].pstmt = {} /\ stmt'[s].desc = {}
           /\ stmt'[s].result = stmt[s].result
           /\ UNCHANGED <<pg_yaap_enabled, bundle_of>>
           /\ \A x \in PlanAddresses :
                 plans'[x] = IF x \in stmt[s].pstmt THEN NoStatement ELSE plans[x]
           /\ \A x \in DescAddresses :
                 state_table'[x] = IF x \in stmt[s].desc THEN NoStatement
                                   ELSE state_table[x]
BY DEF TypeOK, ExecutorEnd, Unregister, Keeps, Others, At

LEMMA AddressTypes ==
    ASSUME TypeOK, NEW s \in Statements
    PROVE  stmt[s].pstmt \subseteq PlanAddresses /\ stmt[s].desc \subseteq DescAddresses
BY DEF TypeOK

LEMMA FailEffect ==
    ASSUME TypeOK, NEW s \in Statements, Fails(s)
    PROVE  /\ KeepsAddresses(s)
           /\ Open(s) /\ stmt'[s].pc = "raise"
           /\ stmt'[s].result = stmt[s].result
           /\ UNCHANGED <<pg_yaap_enabled, plans, state_table, bundle_of>>
BY DEF TypeOK, Fails, KeepsAddresses, Keeps, Others

LEMMA UnwindEffect ==
    ASSUME TypeOK, NEW s \in Statements, Unwind(s), NEW t \in Statements
    PROVE  /\ IF Open(t)
              THEN /\ stmt'[t].pc = "aborted"
                   /\ stmt'[t].pstmt = {} /\ stmt'[t].desc = {}
              ELSE /\ stmt'[t].pc = stmt[t].pc
                   /\ stmt'[t].pstmt = stmt[t].pstmt /\ stmt'[t].desc = stmt[t].desc
           /\ stmt'[t].kind = stmt[t].kind
           /\ stmt'[t].claimed = stmt[t].claimed
           /\ stmt'[t].copied = stmt[t].copied
           /\ stmt'[t].result = stmt[t].result
           /\ UNCHANGED <<pg_yaap_enabled, plans, state_table, bundle_of>>
BY DEF TypeOK, Unwind

------------------------------------------------------------------------------
(* The named parts of the invariant, one action after the other. *)

LEMMA KindStep ==
    ASSUME IInv, Next
    PROVE  KindMatchesPoint'
<1> USE DEF KindMatchesPoint, At, Live
<1>0. TypeOK /\ KindMatchesPoint
  BY DEF IInv
<1>1. CASE SetEnabled
  BY <1>0, <1>1 DEF SetEnabled
<1>2. ASSUME NEW s \in Statements, BeginUtility(s) \/ EndUtility(s)
      PROVE  KindMatchesPoint'
  BY <1>0, <1>2, UtilityEffect DEF BeginUtility, EndUtility, Others
<1>3. ASSUME NEW s \in Statements, NEW k \in QueryKinds, Plan(s, k)
      PROVE  KindMatchesPoint'
  BY <1>0, <1>3, PlanEffect DEF FreePlanAddresses, Others
<1>4. ASSUME NEW s \in Statements, ExecutorStart(s)
      PROVE  KindMatchesPoint'
  BY <1>0, <1>4, StartEffect DEF Keeps, FreeDescAddresses, Others
<1>5. ASSUME NEW s \in Statements, RunStandard(s) \/ RunPipeline(s) \/ RunFailsEarly(s)
                                    \/ PortalReturns(s)
      PROVE  KindMatchesPoint'
  BY <1>0, <1>5, RunEffect DEF KeepsAddresses, Keeps, Others
<1>6. ASSUME NEW s \in Statements, ExecutorEnd(s)
      PROVE  KindMatchesPoint'
  BY <1>0, <1>6, EndEffect DEF Keeps, Others
<1>7. ASSUME NEW s \in Statements, Fails(s)
      PROVE  KindMatchesPoint'
  BY <1>0, <1>7, FailEffect DEF KeepsAddresses, Keeps, Open, Others
<1>8. ASSUME NEW s \in Statements, Unwind(s)
      PROVE  KindMatchesPoint'
  BY <1>0, <1>8, UnwindEffect DEF Open, Others
<1> QED
  BY <1>1, <1>2, <1>3, <1>4, <1>5, <1>6, <1>7, <1>8 DEF Next

LEMMA AddressesStep ==
    ASSUME IInv, Next
    PROVE  AddressesAreOwned'
<1> USE DEF AddressesAreOwned
<1>0. TypeOK /\ AddressesAreOwned
  BY DEF IInv
<1>1. CASE SetEnabled
  BY <1>0, <1>1 DEF SetEnabled
<1>2. ASSUME NEW s \in Statements, BeginUtility(s) \/ EndUtility(s)
      PROVE  AddressesAreOwned'
  BY <1>0, <1>2, UtilityEffect DEF BeginUtility, EndUtility, Others
<1>3. ASSUME NEW s \in Statements, NEW k \in QueryKinds, Plan(s, k)
      PROVE  AddressesAreOwned'
  BY <1>0, <1>3, PlanEffect DEF FreePlanAddresses, Others
<1>4. ASSUME NEW s \in Statements, ExecutorStart(s)
      PROVE  AddressesAreOwned'
  BY <1>0, <1>4, StartEffect DEF Keeps, FreeDescAddresses, Others
<1>5. ASSUME NEW s \in Statements, RunStandard(s) \/ RunPipeline(s) \/ RunFailsEarly(s)
                                    \/ PortalReturns(s)
      PROVE  AddressesAreOwned'
  BY <1>0, <1>5, RunEffect DEF KeepsAddresses, Keeps, Others
<1>6. ASSUME NEW s \in Statements, ExecutorEnd(s)
      PROVE  AddressesAreOwned'
  BY <1>0, <1>6, EndEffect DEF Keeps, Others
<1>7. ASSUME NEW s \in Statements, Fails(s)
      PROVE  AddressesAreOwned'
  BY <1>0, <1>7, FailEffect DEF KeepsAddresses, Keeps, Open, Others
<1>8. ASSUME NEW s \in Statements, Unwind(s)
      PROVE  AddressesAreOwned'
  BY <1>0, <1>8, UnwindEffect DEF Open, Others
<1> QED
  BY <1>1, <1>2, <1>3, <1>4, <1>5, <1>6, <1>7, <1>8 DEF Next

\* The state that a claimed SELECT finds is its own.
LEMMA LookupOwnState ==
    ASSUME NEW s \in Statements, AddressesAreOwned, FindsItsEntries(s),
           Trusted(s), At(s, "started")
    PROVE  LookupState(s) = s
<1>1. /\ stmt[s].desc # {}
      /\ \A d \in stmt[s].desc : state_table[d] = s
  BY DEF AddressesAreOwned, FindsItsEntries, At
<1>2. \A o \in Statements : (\E d \in stmt[s].desc : state_table[d] = o) <=> o = s
  BY <1>1
<1>3. s # NoStatement
  BY BridgeAssumption
<1> QED
  BY <1>1, <1>2, <1>3 DEF LookupState

LEMMA ClaimedStep ==
    ASSUME IInv, Next, NEW t \in Statements
    PROVE  FindsItsEntries(t)'
<1> USE BridgeAssumption DEF FindsItsEntries, At, Live, Trusted
<1>a. \A x \in Statements : stmt[x].pstmt \subseteq PlanAddresses
                               /\ stmt[x].desc \subseteq DescAddresses
  BY AddressTypes DEF IInv
<1>0. TypeOK /\ AddressesAreOwned /\ FindsItsEntries(t)
  BY DEF IInv, ClaimedFindsItsEntries, EntriesNameTheirOwner
<1>1. CASE SetEnabled
  BY <1>0, <1>1 DEF SetEnabled
<1>2. ASSUME NEW s \in Statements, BeginUtility(s) \/ EndUtility(s)
      PROVE  FindsItsEntries(t)'
  <2>1. CASE t = s
    BY <1>0, <1>2, <2>1, UtilityEffect
  <2>2. CASE t # s
    BY <1>0, <1>2, <2>2, UtilityEffect DEF Others
  <2> QED
    BY <2>1, <2>2
<1>3. ASSUME NEW s \in Statements, NEW k \in QueryKinds, Plan(s, k)
      PROVE  FindsItsEntries(t)'
  <2>0. PICK a \in FreePlanAddresses, b \in FreePlanAddresses :
           /\ stmt'[s].pstmt = {b}
           /\ ~stmt'[s].copied => a = b
           /\ \A x \in PlanAddresses :
                 plans'[x] = IF stmt'[s].claimed /\ x = a THEN s ELSE plans[x]
    BY <1>0, <1>3, PlanEffect
  <2>1. CASE t = s
    <3>1. /\ stmt'[s].claimed => pg_yaap_enabled'
          /\ stmt'[s].pc = "planned" /\ stmt'[s].result = "none"
      <4>1. stmt'[s].claimed => pg_yaap_enabled
        BY <1>0, <1>3, PlanEffect
      <4>2. pg_yaap_enabled' = pg_yaap_enabled /\ stmt[s].pc = "idle"
            /\ stmt'[s].pc = "planned" /\ stmt'[s].result = stmt[s].result
        BY <1>0, <1>3, PlanEffect
      <4> QED
        BY <1>0, <2>1, <4>1, <4>2
    <3> QED
      BY <1>a, <1>0, <2>0, <2>1, <3>1 DEF FreePlanAddresses
  <2>2. CASE t # s
    BY <1>a, <1>0, <1>3, <2>0, <2>2, PlanEffect DEF FreePlanAddresses, Others
  <2> QED
    BY <2>1, <2>2
<1>4. ASSUME NEW s \in Statements, ExecutorStart(s)
      PROVE  FindsItsEntries(t)'
  <2>0. PICK d \in FreeDescAddresses, a \in stmt[s].pstmt :
           /\ stmt'[s].desc = {d}
           /\ \A x \in DescAddresses :
                 state_table'[x] = IF HasTupdesc(plans[a]) /\ pg_yaap_enabled /\ x = d
                                   THEN s ELSE state_table[x]
           /\ \A x \in Statements :
                 bundle_of'[x] = IF HasTupdesc(plans[a]) /\ pg_yaap_enabled /\ x = s
                                 THEN plans[a] ELSE bundle_of[x]
    BY <1>0, <1>4, StartEffect
  <2>1. CASE t = s
    BY <1>a, <1>0, <1>4, <2>0, <2>1, StartEffect DEF Keeps, FreeDescAddresses, HasTupdesc
  <2>2. CASE t # s
    BY <1>a, <1>0, <1>4, <2>0, <2>2, StartEffect DEF Keeps, FreeDescAddresses, HasTupdesc, Others
  <2> QED
    BY <2>1, <2>2
<1>5. ASSUME NEW s \in Statements, RunStandard(s) \/ RunPipeline(s) \/ RunFailsEarly(s)
                                    \/ PortalReturns(s)
      PROVE  FindsItsEntries(t)'
  <2>1. CASE t = s /\ Trusted(s) /\ At(s, "started")
    <3>1. LookupState(s) = s /\ bundle_of[s] = s
      BY <1>0, <2>1, LookupOwnState
    <3> QED
      BY <1>0, <1>5, <2>1, <3>1, RunEffect DEF KeepsAddresses, Keeps
  <2>2. CASE t = s /\ ~(Trusted(s) /\ At(s, "started"))
    BY <1>0, <1>5, <2>2, RunEffect DEF KeepsAddresses, Keeps
  <2>3. CASE t # s
    BY <1>0, <1>5, <2>3, RunEffect DEF KeepsAddresses, Keeps, Others
  <2> QED
    BY <2>1, <2>2, <2>3
<1>6. ASSUME NEW s \in Statements, ExecutorEnd(s)
      PROVE  FindsItsEntries(t)'
  <2>1. CASE t = s
    BY <1>a, <1>0, <1>6, <2>1, EndEffect DEF Keeps
  <2>2. CASE t # s
    BY <1>a, <1>0, <1>6, <2>2, EndEffect DEF Keeps, Others, AddressesAreOwned
  <2> QED
    BY <2>1, <2>2
<1>7. ASSUME NEW s \in Statements, Fails(s)
      PROVE  FindsItsEntries(t)'
  <2>1. CASE t = s
    BY <1>0, <1>7, <2>1, FailEffect DEF KeepsAddresses, Keeps, Open
  <2>2. CASE t # s
    BY <1>0, <1>7, <2>2, FailEffect DEF KeepsAddresses, Keeps, Open, Others
  <2> QED
    BY <2>1, <2>2
<1>8. ASSUME NEW s \in Statements, Unwind(s)
      PROVE  FindsItsEntries(t)'
  BY <1>0, <1>8, UnwindEffect DEF Open
<1> QED
  BY <1>1, <1>2, <1>3, <1>4, <1>5, <1>6, <1>7, <1>8 DEF Next

LEMMA PlanEntriesStep ==
    ASSUME IInv, Next, NEW t \in Statements
    PROVE  PlanEntriesName(t)'
<1> USE BridgeAssumption DEF PlanEntriesName, Live
<1>a. \A x \in Statements : stmt[x].pstmt \subseteq PlanAddresses
                               /\ stmt[x].desc \subseteq DescAddresses
  BY AddressTypes DEF IInv
<1>0. TypeOK /\ AddressesAreOwned /\ PlanEntriesName(t)
  BY DEF IInv, ClaimedFindsItsEntries, EntriesNameTheirOwner
<1>1. CASE SetEnabled
  BY <1>0, <1>1 DEF SetEnabled
<1>2. ASSUME NEW s \in Statements, BeginUtility(s) \/ EndUtility(s)
      PROVE  PlanEntriesName(t)'
  <2>1. CASE t = s
    BY <1>0, <1>2, <2>1, UtilityEffect
  <2>2. CASE t # s
    BY <1>0, <1>2, <2>2, UtilityEffect DEF Others
  <2> QED
    BY <2>1, <2>2
<1>3. ASSUME NEW s \in Statements, NEW k \in QueryKinds, Plan(s, k)
      PROVE  PlanEntriesName(t)'
  <2>0. PICK a \in FreePlanAddresses, b \in FreePlanAddresses :
           /\ stmt'[s].pstmt = {b}
           /\ ~stmt'[s].copied => a = b
           /\ \A x \in PlanAddresses :
                 plans'[x] = IF stmt'[s].claimed /\ x = a THEN s ELSE plans[x]
    BY <1>0, <1>3, PlanEffect
  <2>1. CASE t = s
    BY <1>a, <1>0, <1>3, <2>0, <2>1, PlanEffect DEF FreePlanAddresses
  <2>2. CASE t # s
    BY <1>a, <1>0, <1>3, <2>0, <2>2, PlanEffect DEF FreePlanAddresses, Others
  <2> QED
    BY <2>1, <2>2
<1>4. ASSUME NEW s \in Statements, ExecutorStart(s)
      PROVE  PlanEntriesName(t)'
  <2>0. PICK d \in FreeDescAddresses, a \in stmt[s].pstmt :
           /\ stmt'[s].desc = {d}
           /\ \A x \in DescAddresses :
                 state_table'[x] = IF HasTupdesc(plans[a]) /\ pg_yaap_enabled /\ x = d
                                   THEN s ELSE state_table[x]
           /\ \A x \in Statements :
                 bundle_of'[x] = IF HasTupdesc(plans[a]) /\ pg_yaap_enabled /\ x = s
                                 THEN plans[a] ELSE bundle_of[x]
    BY <1>0, <1>4, StartEffect
  <2>1. CASE t = s
    BY <1>a, <1>0, <1>4, <2>0, <2>1, StartEffect DEF Keeps, FreeDescAddresses, HasTupdesc
  <2>2. CASE t # s
    BY <1>a, <1>0, <1>4, <2>0, <2>2, StartEffect DEF Keeps, FreeDescAddresses, HasTupdesc, Others
  <2> QED
    BY <2>1, <2>2
<1>5. ASSUME NEW s \in Statements, RunStandard(s) \/ RunPipeline(s) \/ RunFailsEarly(s)
                                    \/ PortalReturns(s)
      PROVE  PlanEntriesName(t)'
  <2>1. CASE t = s
    BY <1>0, <1>5, <2>1, RunEffect DEF KeepsAddresses, Keeps
  <2>2. CASE t # s
    BY <1>0, <1>5, <2>2, RunEffect DEF KeepsAddresses, Keeps, Others
  <2> QED
    BY <2>1, <2>2
<1>6. ASSUME NEW s \in Statements, ExecutorEnd(s)
      PROVE  PlanEntriesName(t)'
  <2>1. CASE t = s
    BY <1>a, <1>0, <1>6, <2>1, EndEffect DEF Keeps
  <2>2. CASE t # s
    BY <1>a, <1>0, <1>6, <2>2, EndEffect DEF Keeps, Others
  <2> QED
    BY <2>1, <2>2
<1>7. ASSUME NEW s \in Statements, Fails(s)
      PROVE  PlanEntriesName(t)'
  <2>1. CASE t = s
    BY <1>0, <1>7, <2>1, FailEffect DEF KeepsAddresses, Keeps, Open
  <2>2. CASE t # s
    BY <1>0, <1>7, <2>2, FailEffect DEF KeepsAddresses, Keeps, Open, Others
  <2> QED
    BY <2>1, <2>2
<1>8. ASSUME NEW s \in Statements, Unwind(s)
      PROVE  PlanEntriesName(t)'
  BY <1>0, <1>8, UnwindEffect DEF Open
<1> QED
  BY <1>1, <1>2, <1>3, <1>4, <1>5, <1>6, <1>7, <1>8 DEF Next

LEMMA StateEntriesStep ==
    ASSUME IInv, Next, NEW t \in Statements
    PROVE  StateEntriesName(t)'
<1> USE BridgeAssumption DEF StateEntriesName, Live
<1>a. \A x \in Statements : stmt[x].pstmt \subseteq PlanAddresses
                               /\ stmt[x].desc \subseteq DescAddresses
  BY AddressTypes DEF IInv
<1>0. TypeOK /\ AddressesAreOwned /\ StateEntriesName(t)
  BY DEF IInv, ClaimedFindsItsEntries, EntriesNameTheirOwner
<1>1. CASE SetEnabled
  BY <1>0, <1>1 DEF SetEnabled
<1>2. ASSUME NEW s \in Statements, BeginUtility(s) \/ EndUtility(s)
      PROVE  StateEntriesName(t)'
  <2>1. CASE t = s
    BY <1>0, <1>2, <2>1, UtilityEffect
  <2>2. CASE t # s
    BY <1>0, <1>2, <2>2, UtilityEffect DEF Others
  <2> QED
    BY <2>1, <2>2
<1>3. ASSUME NEW s \in Statements, NEW k \in QueryKinds, Plan(s, k)
      PROVE  StateEntriesName(t)'
  <2>0. PICK a \in FreePlanAddresses, b \in FreePlanAddresses :
           /\ stmt'[s].pstmt = {b}
           /\ ~stmt'[s].copied => a = b
           /\ \A x \in PlanAddresses :
                 plans'[x] = IF stmt'[s].claimed /\ x = a THEN s ELSE plans[x]
    BY <1>0, <1>3, PlanEffect
  <2>1. CASE t = s
    BY <1>a, <1>0, <1>3, <2>0, <2>1, PlanEffect DEF FreePlanAddresses
  <2>2. CASE t # s
    BY <1>a, <1>0, <1>3, <2>0, <2>2, PlanEffect DEF FreePlanAddresses, Others
  <2> QED
    BY <2>1, <2>2
<1>4. ASSUME NEW s \in Statements, ExecutorStart(s)
      PROVE  StateEntriesName(t)'
  <2>0. PICK d \in FreeDescAddresses, a \in stmt[s].pstmt :
           /\ stmt'[s].desc = {d}
           /\ \A x \in DescAddresses :
                 state_table'[x] = IF HasTupdesc(plans[a]) /\ pg_yaap_enabled /\ x = d
                                   THEN s ELSE state_table[x]
           /\ \A x \in Statements :
                 bundle_of'[x] = IF HasTupdesc(plans[a]) /\ pg_yaap_enabled /\ x = s
                                 THEN plans[a] ELSE bundle_of[x]
    BY <1>0, <1>4, StartEffect
  <2>1. CASE t = s
    BY <1>a, <1>0, <1>4, <2>0, <2>1, StartEffect DEF Keeps, FreeDescAddresses, HasTupdesc
  <2>2. CASE t # s
    BY <1>a, <1>0, <1>4, <2>0, <2>2, StartEffect DEF Keeps, FreeDescAddresses, HasTupdesc, Others
  <2> QED
    BY <2>1, <2>2
<1>5. ASSUME NEW s \in Statements, RunStandard(s) \/ RunPipeline(s) \/ RunFailsEarly(s)
                                    \/ PortalReturns(s)
      PROVE  StateEntriesName(t)'
  <2>1. CASE t = s
    BY <1>0, <1>5, <2>1, RunEffect DEF KeepsAddresses, Keeps
  <2>2. CASE t # s
    BY <1>0, <1>5, <2>2, RunEffect DEF KeepsAddresses, Keeps, Others
  <2> QED
    BY <2>1, <2>2
<1>6. ASSUME NEW s \in Statements, ExecutorEnd(s)
      PROVE  StateEntriesName(t)'
  <2>1. CASE t = s
    BY <1>a, <1>0, <1>6, <2>1, EndEffect DEF Keeps
  <2>2. CASE t # s
    BY <1>a, <1>0, <1>6, <2>2, EndEffect DEF Keeps, Others
  <2> QED
    BY <2>1, <2>2
<1>7. ASSUME NEW s \in Statements, Fails(s)
      PROVE  StateEntriesName(t)'
  <2>1. CASE t = s
    BY <1>0, <1>7, <2>1, FailEffect DEF KeepsAddresses, Keeps, Open
  <2>2. CASE t # s
    BY <1>0, <1>7, <2>2, FailEffect DEF KeepsAddresses, Keeps, Open, Others
  <2> QED
    BY <2>1, <2>2
<1>8. ASSUME NEW s \in Statements, Unwind(s)
      PROVE  StateEntriesName(t)'
  BY <1>0, <1>8, UnwindEffect DEF Open
<1> QED
  BY <1>1, <1>2, <1>3, <1>4, <1>5, <1>6, <1>7, <1>8 DEF Next

\* A step of one query statement leaves the utility statements alone.
LEMMA UtilitiesStay ==
    ASSUME TypeOK, NEW s \in Statements, Others(s),
           Open(s) /\ stmt[s].kind = "utility"
           <=> Open(s)' /\ stmt'[s].kind = "utility"
    PROVE  Utilities' = Utilities
BY DEF Utilities, Open, Others

\* The nesting counter after a step counts the utility statements after it.
LEMMA NestingStep ==
    ASSUME IInv, Next
    PROVE  NestingCounts'
<1> USE DEF NestingCounts
<1>0. /\ TypeOK /\ KindMatchesPoint
      /\ pg_yaap_utility_nesting = Cardinality(Utilities)
      /\ IsFiniteSet(Utilities)
  BY FS_Subset, BridgeAssumption DEF IInv, Utilities
<1>1. CASE SetEnabled
  BY <1>0, <1>1 DEF SetEnabled, Utilities, Open
<1>2. ASSUME NEW s \in Statements, BeginUtility(s)
      PROVE  NestingCounts'
  <2>1. Utilities' = Utilities \cup {s} /\ s \notin Utilities
    <3>1. /\ Others(s) /\ stmt[s].pc = "idle"
          /\ stmt'[s].pc = "utility" /\ stmt'[s].kind = "utility"
      BY <1>0, <1>2, UtilityEffect DEF EndUtility, BeginUtility, At
    <3> QED
      BY <3>1 DEF Utilities, Open, Others
  <2>2. Cardinality(Utilities') = Cardinality(Utilities) + 1
    BY <1>0, <2>1, FS_AddElement
  <2> QED
    BY <1>0, <1>2, <2>2 DEF BeginUtility
<1>3. ASSUME NEW s \in Statements, EndUtility(s)
      PROVE  NestingCounts'
  <2>1. Utilities' = Utilities \ {s} /\ s \in Utilities
    <3>1. /\ Others(s) /\ stmt[s].pc = "utility" /\ stmt'[s].pc = "ended"
      BY <1>0, <1>3, UtilityEffect DEF EndUtility, BeginUtility, At
    <3> QED
      BY <1>0, <3>1 DEF Utilities, Open, Others, KindMatchesPoint, At
  <2>2. Cardinality(Utilities') = Cardinality(Utilities) - 1
    BY <1>0, <2>1, FS_RemoveElement
  <2> QED
    BY <1>0, <1>3, <2>2 DEF EndUtility
<1>4. ASSUME NEW s \in Statements, NEW k \in QueryKinds, Plan(s, k)
      PROVE  NestingCounts'
  <2>1. Utilities' = Utilities
    BY <1>0, <1>4, PlanEffect, UtilitiesStay DEF Open
  <2> QED
    BY <1>0, <1>4, <2>1 DEF Plan
<1>5. ASSUME NEW s \in Statements, ExecutorStart(s)
      PROVE  NestingCounts'
  <2>1. Utilities' = Utilities
    BY <1>0, <1>5, StartEffect, UtilitiesStay DEF Open, Keeps
  <2> QED
    BY <1>0, <1>5, <2>1 DEF ExecutorStart
<1>6. ASSUME NEW s \in Statements, RunStandard(s) \/ RunPipeline(s) \/ RunFailsEarly(s)
                                    \/ PortalReturns(s)
      PROVE  NestingCounts'
  <2>1. Utilities' = Utilities
    BY <1>0, <1>6, RunEffect, UtilitiesStay DEF Open, KeepsAddresses, Keeps
  <2> QED
    BY <1>0, <1>6, <2>1 DEF RunStandard, RunPipeline, RunFailsEarly, PortalReturns
<1>7. ASSUME NEW s \in Statements, ExecutorEnd(s)
      PROVE  NestingCounts'
  <2>1. Utilities' = Utilities
    BY <1>0, <1>7, EndEffect, UtilitiesStay DEF Open, Keeps, KindMatchesPoint, Live
  <2> QED
    BY <1>0, <1>7, <2>1 DEF ExecutorEnd
<1>8. ASSUME NEW s \in Statements, Fails(s)
      PROVE  NestingCounts'
  <2>1. Utilities' = Utilities
    BY <1>0, <1>8, FailEffect, UtilitiesStay DEF Open, KeepsAddresses, Keeps
  <2> QED
    BY <1>0, <1>8, <2>1 DEF Fails
<1>9. ASSUME NEW s \in Statements, Unwind(s)
      PROVE  NestingCounts'
  <2>1. Utilities' = {}
    BY <1>0, <1>9, UnwindEffect DEF Utilities, Open
  <2>2. pg_yaap_utility_nesting' = pg_yaap_utility_nesting - Cardinality(Utilities)
    BY <1>9 DEF Unwind, Utilities
  <2>3. Cardinality(Utilities) \in Nat
    BY <1>0, FS_CardinalityType
  <2> QED
    BY <1>0, <2>1, <2>2, <2>3, FS_EmptySet
<1> QED
  BY <1>1, <1>2, <1>3, <1>4, <1>5, <1>6, <1>7, <1>8, <1>9 DEF Next

------------------------------------------------------------------------------
(* The theorems. *)

LEMMA NextIInv ==
    ASSUME IInv, [Next]_vars
    PROVE  IInv'
<1>1. CASE Next
  <2>1. NestingCounts' /\ KindMatchesPoint' /\ AddressesAreOwned'
    BY <1>1, NestingStep, KindStep, AddressesStep
  <2>2. ClaimedFindsItsEntries' /\ EntriesNameTheirOwner'
    BY <1>1, ClaimedStep, PlanEntriesStep, StateEntriesStep
       DEF ClaimedFindsItsEntries, EntriesNameTheirOwner
  <2>3. TypeOK'
    <3>1. TypesOfTables' /\ TypeOfStmt'
      BY <1>1, TablesStep, StmtStep DEF IInv
    <3>2. pg_yaap_utility_nesting' \in Nat
      BY <2>1, BridgeAssumption, FS_Subset, FS_CardinalityType
         DEF NestingCounts, Utilities
    <3> QED
      BY <3>1, <3>2 DEF TypesOfTables, TypeOfStmt, StatementRecord, TypeOK
  <2> QED
    BY <2>1, <2>2, <2>3 DEF IInv
<1>2. CASE UNCHANGED vars
  BY <1>2 DEF IInv, vars, TypeOK, NestingCounts, KindMatchesPoint, AddressesAreOwned,
      ClaimedFindsItsEntries, EntriesNameTheirOwner, FindsItsEntries, PlanEntriesName,
      StateEntriesName, Utilities, Open, At, Trusted, Live
<1> QED
  BY <1>1, <1>2

LEMMA Inductive == Spec => []IInv
BY InitIInv, NextIInv, PTL DEF Spec

\* Every variable keeps its type, and pg_yaap_utility_nesting never goes below
\* zero, however utility statements nest and whichever of them fail.
THEOREM TypeCorrect == Spec => []TypeOK
<1>1. IInv => TypeOK
  BY DEF IInv
<1> QED
  BY <1>1, Inductive, PTL

\* A claimed SELECT that did not go through the plan cache executes its own plan,
\* although the registries are keyed by addresses that are used again.
THEOREM ClaimedRunsOwn == Spec => []ClaimedRunsOwnPlan
<1>1. IInv => ClaimedRunsOwnPlan
  <2> SUFFICES ASSUME IInv, NEW s \in Statements,
                      stmt[s].claimed, ~stmt[s].copied, stmt[s].kind = "select"
               PROVE  /\ At(s, "started") => LookupState(s) = s /\ bundle_of[s] = s
                      /\ stmt[s].result \in {"none", "own"}
    BY DEF ClaimedRunsOwnPlan
  <2>1. FindsItsEntries(s) /\ AddressesAreOwned /\ Trusted(s)
    BY DEF IInv, ClaimedFindsItsEntries, Trusted
  <2> QED
    BY <2>1, LookupOwnState DEF FindsItsEntries
<1> QED
  BY <1>1, Inductive, PTL

\* pg_yaap_ExecutorEnd leaves no query state, and no plan but that of a copied
\* statement, behind a query that ended without error.
THEOREM EntriesEnd == Spec => []EntriesEndWithQuery
<1>1. IInv => EntriesEndWithQuery
  BY DEF IInv, EntriesNameTheirOwner, PlanEntriesName, StateEntriesName,
         AddressesAreOwned, EntriesEndWithQuery, At
<1> QED
  BY <1>1, Inductive, PTL

\* A SELECT outside every utility statement is claimed while pg_yaap is enabled:
\* the PG_CATCH of pg_yaap_ProcessUtility keeps the counter exact.
THEOREM SelectsClaimed == Spec => SelectsAreClaimed
<1> DEFINE Claims ==
       \A s \in Statements :
          /\ At(s, "idle") /\ stmt'[s].kind = "select" /\ pg_yaap_enabled
          /\ \A t \in Statements : ~At(t, "utility")
          => stmt'[s].claimed
<1>1. ASSUME IInv, [Next]_vars PROVE [Claims]_vars
  <2> SUFFICES ASSUME Next, NEW s \in Statements, At(s, "idle"),
                      stmt'[s].kind = "select", pg_yaap_enabled,
                      \A t \in Statements : ~At(t, "utility")
               PROVE  stmt'[s].claimed \/ UNCHANGED vars
    BY <1>1, Zenon
  <2>0. TypeOK /\ NestingCounts /\ KindMatchesPoint
    BY <1>1 DEF IInv
  <2>1. stmt[s].kind = "other"
    BY <2>0 DEF KindMatchesPoint
  <2>2. CASE SetEnabled
    BY <2>1, <2>2 DEF SetEnabled
  <2>3. ASSUME NEW x \in Statements, BeginUtility(x) \/ EndUtility(x)
        PROVE  FALSE
    BY <2>0, <2>1, <2>3, UtilityEffect DEF Others, At
  <2>4. ASSUME NEW x \in Statements, NEW k \in QueryKinds, Plan(x, k)
        PROVE  stmt'[s].claimed
    <3>1. x = s /\ k = "select"
      <4>1. Others(x) /\ stmt'[x].kind = k
        BY <2>0, <2>4, PlanEffect, Zenon
      <4> QED
        BY <2>1, <4>1 DEF Others
    <3>2. Utilities = {}
      <4>1. Idle
        BY <2>4 DEF Plan
      <4>2. \A t \in Statements : stmt[t].pc \in Points
        BY <2>0 DEF TypeOK
      <4> QED
        BY <2>0, <4>1, <4>2 DEF Idle, Utilities, Open, KindMatchesPoint, At, Live, Points
    <3>3. pg_yaap_utility_nesting = 0
      BY <2>0, <3>2, FS_EmptySet DEF NestingCounts
    <3>4. stmt'[s].claimed = (pg_yaap_utility_nesting = 0 /\ pg_yaap_enabled
                              /\ k \in {"select", "no_columns"})
      BY <2>0, <2>4, <3>1, PlanEffect
    <3>5. k \in {"select", "no_columns"}
      BY <3>1
    <3> QED
      BY <3>3, <3>4, <3>5, Zenon
  <2>5. ASSUME NEW x \in Statements, ExecutorStart(x)
        PROVE  FALSE
    BY <2>0, <2>1, <2>5, StartEffect DEF Keeps, Others
  <2>6. ASSUME NEW x \in Statements, RunStandard(x) \/ RunPipeline(x) \/ RunFailsEarly(x)
                                      \/ PortalReturns(x)
        PROVE  FALSE
    BY <2>0, <2>1, <2>6, RunEffect DEF KeepsAddresses, Keeps, Others
  <2>7. ASSUME NEW x \in Statements, ExecutorEnd(x)
        PROVE  FALSE
    BY <2>0, <2>1, <2>7, EndEffect DEF Keeps, Others
  <2>8. ASSUME NEW x \in Statements, Fails(x) \/ Unwind(x)
        PROVE  FALSE
    BY <2>0, <2>1, <2>8, FailEffect, UnwindEffect DEF KeepsAddresses, Keeps, Others
  <2> QED
    BY <2>2, <2>3, <2>4, <2>5, <2>6, <2>7, <2>8 DEF Next
<1> QED
  BY <1>1, Inductive, PTL DEF Spec, SelectsAreClaimed
=============================================================================
